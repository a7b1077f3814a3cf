----------------------------- MODULE MultiClient -----------------------------
(***************************************************************************)
(* The single-target dispatcher (onOne, onOneList) and the list aggregator *)
(* (aggregate, aggregateOptionalNaming) of src/pkg/client/multi.go, with   *)
(* the MultiClient methods built on them.  A caller issues one call after  *)
(* another; each call is sequential code, so it is one action.             *)
(*                                                                         *)
(* A name is a sequence of segments: the string split at every "/".  A     *)
(* project name may itself contain "/" (server/account/project), so a      *)
(* qualified name is the project's segments followed by the local name.    *)
(***************************************************************************)
EXTENDS Integers, Sequences, SequencesExt

CONSTANTS
    Order,        \* the clients factory.List returns, in registry order
    Default,      \* the client of factory.DefaultProject()
    ProjectName,  \* ProjectName[b]: client.GetProject(), as segments
    Locals,       \* local object names (no "/")
    Scopes,       \* the scopes a caller may write before the local name
    SegLen        \* SegLen[g]: characters in segment g, 2 standing for 2 or more

Backends == {Order[i] : i \in 1..Len(Order)}

ASSUME /\ Default \in Backends
       /\ \A b \in Backends : ProjectName[b] # <<>>


VARIABLES
    store,     \* store[b]: the objects backend b holds
    returned,  \* every object the gateway has handed to the caller
    call,      \* the method the caller called last
    out        \* what it returned: ok, nil, where the error came from, or
               \* "panic"

vars == <<store, returned, call, out>>

(* The segments names are made of.                                        *)
Segments == Locals \cup UNION {ToSet(ProjectName[b]) : b \in Backends}
                   \cup UNION {ToSet(s) : s \in Scopes}

(* What the caller gets back: the name it sees, and the object it is.      *)
Returned == [name : Seq(Segments), src : Backends, local : Locals]

(* Names a caller may pass: bare, or behind a scope.                       *)
Names == {<<l>> : l \in Locals} \cup {s \o <<l>> : s \in Scopes, l \in Locals}

-----------------------------------------------------------------------------
(* Mutant of ParseName: the project part is cut off, but name is left as *)
(* the caller wrote it.                                                    *)
ParseNameUntrimmed(n) == [scope |-> Front(n), local |-> n]

(* i := strings.LastIndex(name, "/"); projectName = name[0:i],             *)
(* name = name[i+1:]; no "/" leaves projectName "".                        *)
ParseName(n) == [scope |-> Front(n), local |-> Last(n)]

(* factory.ForProject(ctx, projectName): "" is the default project; a      *)
(* name no client carries is an error.                                     *)
ForProject(scope) ==
    IF scope = <<>> THEN {Default}
    ELSE {b \in Backends : ProjectName[b] = scope}

(* Mutant of SetName: only the last segment of the project name.         *)
SetNameShort(b, n) == IF b # Default THEN <<Last(ProjectName[b])>> \o n ELSE n

(* client.GetProject() + "/" + obj.GetName() when the client is not the    *)
(* default project's.                                                      *)
SetName(b, n) == IF b # Default THEN ProjectName[b] \o n ELSE n

Hand(b, n, l) == [name |-> n, src |-> b, local |-> l]

-----------------------------------------------------------------------------
Init ==
    /\ store = [b \in Backends |-> {}]
    /\ returned = {}
    /\ call = "none"
    /\ out = "none"

(* A callback's error is returned verbatim, nothing renamed.               *)
CallbackErr == out' = "backendErr" /\ UNCHANGED <<store, returned>>

(* AppRun, AppUpdate, SecretCreate, CredentialCreate...: the backend       *)
(* creates or updates local and onOne renames the object it returns.       *)
CreateCb(b, l) ==
    \/ CallbackErr
    \/ /\ store' = [store EXCEPT ![b] = @ \cup {l}]
       /\ returned' = returned \cup {Hand(b, SetName(b, <<l>>), l)}
       /\ out' = "ok"

(* AppGet, SecretGet, SecretReveal, ...: not found is the backend's error. *)
GetCb(b, l) ==
    \/ CallbackErr
    \/ /\ l \in store[b]
       /\ returned' = returned \cup {Hand(b, SetName(b, <<l>>), l)}
       /\ out' = "ok"
       /\ UNCHANGED store

(* AppDelete, SecretDelete, ...: a missing object comes back as nil, which *)
(* isNil lets through unrenamed.                                           *)
DeleteCb(b, l) ==
    \/ CallbackErr
    \/ /\ l \in store[b]
       /\ store' = [store EXCEPT ![b] = @ \ {l}]
       /\ returned' = returned \cup {Hand(b, SetName(b, <<l>>), l)}
       /\ out' = "ok"
    \/ /\ l \notin store[b]
       /\ out' = "nil"
       /\ UNCHANGED <<store, returned>>

(* AppStop, AppStart, DevSessionRenew, ContainerReplicaExec...: the        *)
(* callback returns a placeholder object with the backend's error; only    *)
(* the error reaches the caller.                                           *)
VoidCb(b, l) ==
    /\ out' \in {"ok", "backendErr"}
    /\ UNCHANGED <<store, returned>>

(* AppLog: the messages of app l; every message's AppName becomes          *)
(* project + "/" + AppName, whichever client it came from.                 *)
AppLogCb(b, l) ==
    \/ CallbackErr
    \/ /\ l \in store[b]
       /\ returned' = returned \cup {Hand(b, ProjectName[b] \o <<l>>, l)}
       /\ out' = "ok"
       /\ UNCHANGED store

(* onOneList (ContainerReplicaList with opts.App): the objects of the one  *)
(* resolved client, each renamed.                                          *)
ListOneCb(b, l) ==
    \/ CallbackErr
    \/ /\ returned' = returned \cup {Hand(b, SetName(b, <<o>>), o) : o \in store[b]}
       /\ out' = "ok"
       /\ UNCHANGED store

(* The backend method a MultiClient method's callback calls.              *)
Callback(cb, b, l) ==
    \/ cb = "create" /\ CreateCb(b, l)
    \/ cb = "get" /\ GetCb(b, l)
    \/ cb = "delete" /\ DeleteCb(b, l)
    \/ cb = "void" /\ VoidCb(b, l)
    \/ cb = "appLog" /\ AppLogCb(b, l)
    \/ cb = "listOne" /\ ListOneCb(b, l)

(* onOne, up to the callback: parse the name and resolve the client; an    *)
(* error from ForProject (no such project, or no client could be built)    *)
(* is returned before the callback runs.                                   *)
OnOne(n, cb) ==
    LET p == ParseName(n) IN
    \/ /\ out' = "clientErr"
       /\ UNCHANGED <<store, returned>>
    \/ \E b \in ForProject(p.scope) : Callback(cb, b, p.local)

-----------------------------------------------------------------------------
(* AppList, SecretList, VolumeList, ...: the backend's own names.          *)
PlainName(b, o) == <<o>>

(* strings.LastIndex(name, "/") as a character offset: -1 without a "/",   *)
(* else the length of what comes before the last "/".                      *)
SlashIndex(segs) ==
    IF Len(segs) = 1 THEN -1
    ELSE FoldLeft(LAMBDA n, g : n + SegLen[g], 0, Front(segs)) + Len(segs) - 2

(* ProjectList's callback: when idx := LastIndex(c.GetProject(), "/") > 1  *)
(* the project is named c.GetProject()[:idx] + "/" + name.                 *)
ProjectListName(b, o) ==
    IF SlashIndex(ProjectName[b]) > 1 THEN Front(ProjectName[b]) \o <<o>>
    ELSE <<o>>

Named(naming, b, o) ==
    IF naming = "projectList" THEN ProjectListName(b, o) ELSE PlainName(b, o)

(* aggregateOptionalNaming: factory.List, then each client in order; the   *)
(* first error (from List or a callback) discards everything gathered.    *)
(* Named(naming, b, o) is the name the callback gives object o of client  *)
(* b; aggregate passes appendProjectName = true.                           *)
Aggregate(appendProjectName, naming) ==
    \/ /\ out' = "backendErr"
       /\ UNCHANGED <<store, returned>>
    \/ /\ returned' = returned \cup UNION
             {{Hand(b, IF appendProjectName THEN SetName(b, Named(naming, b, o))
                                            ELSE Named(naming, b, o), o) :
                  o \in store[b]} :
                b \in Backends}
       /\ out' = "ok"
       /\ UNCHANGED store

(* ForProject(DefaultProject()), then the backend's method; nothing is     *)
(* parsed or renamed.                                                      *)
OnDefault(l, cb) ==
    \/ /\ out' = "clientErr"
       /\ UNCHANGED <<store, returned>>
    \/ Callback(cb, Default, l)

(* Another client of the same backend creates or deletes an object.      *)
External(b, l) ==
    /\ \/ store' = [store EXCEPT ![b] = @ \cup {l}]
       \/ store' = [store EXCEPT ![b] = @ \ {l}]
    /\ store' # store
    /\ UNCHANGED <<returned, call, out>>

-----------------------------------------------------------------------------
(* The methods of MultiClient, one action per resource.  call' records     *)
(* which resource the caller used.                                         *)

(* AppList .. DevSessionRelease.  AppRun takes its name from opts when     *)
(* opts != nil, else "", and the callback sets opts.Name unconditionally:  *)
(* with opts = nil that dereference panics.                                *)
AppCalls(n) ==
    /\ call' = "App"
    /\ \/ Aggregate(TRUE, "plain")
       \/ OnOne(n, "delete") \/ OnOne(n, "get") \/ OnOne(n, "void")
       \/ OnOne(n, "create") \/ OnOne(n, "appLog")
       \/ /\ out' = "panic"
          /\ UNCHANGED <<store, returned>>

(* CredentialCreate .. CredentialDelete; the server address is the name.   *)
CredentialCalls(n) ==
    /\ call' = "Credential"
    /\ \/ OnOne(n, "create") \/ Aggregate(TRUE, "plain")
       \/ OnOne(n, "get") \/ OnOne(n, "delete")

(* SecretCreate .. SecretDelete; SecretReveal and SecretUpdate act on an   *)
(* existing secret like SecretGet.                                         *)
SecretCalls(n) ==
    /\ call' = "Secret"
    /\ \/ OnOne(n, "create") \/ Aggregate(TRUE, "plain")
       \/ OnOne(n, "get") \/ OnOne(n, "delete")

(* ContainerReplicaList: onOneList when opts.App names an app, aggregate   *)
(* otherwise; Get, Delete, and Exec/PortForward through a placeholder.     *)
ContainerReplicaCalls(n) ==
    /\ call' = "ContainerReplica"
    /\ \/ OnOne(n, "listOne") \/ Aggregate(TRUE, "plain")
       \/ OnOne(n, "get") \/ OnOne(n, "delete") \/ OnOne(n, "void")

(* VolumeList, VolumeGet, VolumeDelete.                                    *)
VolumeCalls(n) ==
    /\ call' = "Volume"
    /\ \/ Aggregate(TRUE, "plain") \/ OnOne(n, "get") \/ OnOne(n, "delete")

(* ImageList .. AcornImageBuild: the default project's client, the name    *)
(* passed on unparsed (image names contain "/"), nothing renamed.          *)
ImageCalls(l) ==
    /\ call' = "Image"
    /\ \/ OnDefault(l, "listOne") \/ OnDefault(l, "get")
       \/ OnDefault(l, "delete") \/ OnDefault(l, "create")
       \/ OnDefault(l, "void")

(* VolumeClassList, VolumeClassGet.                                        *)
VolumeClassCalls(n) ==
    /\ call' = "VolumeClass"
    /\ Aggregate(TRUE, "plain") \/ OnOne(n, "get")

(* ProjectGet through onOne; ProjectDelete, ProjectCreate, ProjectUpdate   *)
(* on the default project's client.                                        *)
ProjectCalls(n, l) ==
    /\ call' = "Project"
    /\ \/ OnOne(n, "get")
       \/ OnDefault(l, "delete") \/ OnDefault(l, "create")
       \/ OnDefault(l, "get")

(* ComputeClassGet/List, RegionGet/List.                                   *)
ClassCalls(n) ==
    /\ call' = "Class"
    /\ OnOne(n, "get") \/ Aggregate(TRUE, "plain")

(* ProjectList: aggregate, with a callback that names projects itself.     *)
ProjectList ==
    /\ call' = "ProjectList"
    /\ Aggregate(TRUE, "projectList")

Next ==
    \/ \E n \in Names :
        \/ AppCalls(n) \/ CredentialCalls(n) \/ SecretCalls(n)
        \/ ContainerReplicaCalls(n) \/ VolumeCalls(n) \/ VolumeClassCalls(n)
        \/ ClassCalls(n)
        \/ \E l \in Locals : ProjectCalls(n, l)
    \/ \E l \in Locals : ImageCalls(l)
    \/ \E b \in Backends, l \in Locals : External(b, l)

Spec == Init /\ [][Next]_vars

(* The same caller, also calling ProjectList.                              *)
SpecWithProjectList == Init /\ [][Next \/ ProjectList]_vars

-----------------------------------------------------------------------------
TypeOK ==
    /\ store \in [Backends -> SUBSET Locals]
    /\ returned \subseteq Returned
    /\ call \in {"none", "App", "Credential", "Secret", "ContainerReplica",
                 "Volume", "Image", "VolumeClass", "Project", "Class",
                 "ProjectList"}
    /\ out \in {"none", "ok", "nil", "clientErr", "backendErr", "panic"}

(* Every name the gateway hands out leads back to its object: passed to    *)
(* onOne again (AppGet, AppDelete...), LastIndex and ForProject resolve it *)
(* to the client it came from and to the backend's own name for it.        *)
Addressable ==
    \A r \in returned :
        LET p == ParseName(r.name) IN
        ForProject(p.scope) = {r.src} /\ p.local = r.local
=============================================================================
