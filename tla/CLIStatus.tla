------------------------------ MODULE CLIStatus ------------------------------
(***************************************************************************)
(* The CLIStatus handler (src/pkg/controller/appstatus/cli_status.go): it  *)
(* renders the UpToDate, Healthy, Message and Endpoints columns that the   *)
(* CLI prints for an app, and marks a nested acorn Completed when those    *)
(* columns say that nothing runs and nothing is left to report, provided  *)
(* its parent app still exists.                                            *)
(*                                                                         *)
(* The app the handler reads is fixed in a behaviour (Init ranges over all *)
(* of them); the parent app comes and goes.  A handler that returns an     *)
(* error (ingressTLSHosts or the parent Get failing) is not applied by the *)
(* router, so that outcome is a stuttering step.  Column strings are      *)
(* modelled by what tells them apart: a number, a "k/n" pair or a word.    *)
(***************************************************************************)
EXTENDS Naturals, FiniteSets

CONSTANTS
    CondTypes,    \* condition types, ReadyType among them
    ReadyType,    \* v1.AppInstanceConditionReady
    Containers,   \* container names of the app
    Endpoints,    \* endpoints the app may publish
    MaxReplicas   \* bound on each replica count

ASSUME ReadyType \in CondTypes /\ MaxReplicas \in Nat

VARIABLES
    app,     \* the AppInstance as CLIStatus reads it
    parent,  \* the parent app named by publicname.Split exists
    status   \* app.Status.Columns and AppStatus.Completed, once written

vars == <<app, parent, status>>

(* A condition that succeeded, one that failed or is transitioning with a  *)
(* message, or one that failed with an empty Message.                      *)
CondStates == {"ok", "failing", "silent"}

ReplicaCounts ==
    [upToDate : 0..MaxReplicas, running : 0..MaxReplicas,
     desired : 0..MaxReplicas, ready : 0..MaxReplicas]

Apps ==
    [removing : BOOLEAN,  \* DeletionTimestamp set
     stop : BOOLEAN,      \* app.GetStopped()
     stopped : BOOLEAN,   \* Status.AppStatus.Stopped
     ns : BOOLEAN,        \* Status.Namespace != ""
     ready : BOOLEAN,     \* Status.Ready
     upgrade : BOOLEAN,   \* Status.ConfirmUpgradeAppImage != ""
     nested : BOOLEAN,    \* publicname.Get(app) contains "."
     conds : [CondTypes -> CondStates],
     containers : [Containers -> ReplicaCounts],
     endpoints : SUBSET Endpoints]

(* A column: fmt.Sprintf("%d/%d", n, d) when the two differ, otherwise     *)
(* strconv.Itoa(n); or a word such as "-", "stopped" or "creating".        *)
Count(n, d) == [w |-> IF n = d THEN "n" ELSE "n/d", n |-> n, d |-> d]
Word(w) == [w |-> w, n |-> 0, d |-> 0]
Zero == Count(0, 0)

RECURSIVE SumOver(_, _, _)
SumOver(f, field, S) ==
    IF S = {} THEN 0
    ELSE LET c == CHOOSE x \in S : TRUE
         IN f[c][field] + SumOver(f, field, S \ {c})

(* uptodate: UpToDateReplicaCount against RunningReplicaCount, summed.    *)
UpToDate(a) ==
    IF ~a.ns \/ a.stopped THEN Word("-")
    ELSE Count(SumOver(a.containers, "upToDate", Containers),
               SumOver(a.containers, "running", Containers))

(* Mutant of Healthy: the ready count shown without comparing it with the  *)
(* desired count.                                                          *)
HealthyReadyOnly(a) ==
    IF a.stopped THEN Word("stopped")
    ELSE IF ~a.ns THEN Word("creating")
    ELSE Count(SumOver(a.containers, "ready", Containers),
               SumOver(a.containers, "ready", Containers))

(* healthy: ReadyReplicaCount against DesiredReplicaCount, summed.         *)
Healthy(a) ==
    IF a.stopped THEN Word("stopped")
    ELSE IF ~a.ns THEN Word("creating")
    ELSE Count(SumOver(a.containers, "ready", Containers),
               SumOver(a.containers, "desired", Containers))

(* message: "[removing]" or "[stopping]", then "[type: message]" for each *)
(* condition other than Ready that did not succeed and has a message; if  *)
(* none, the pending upgrade, else "OK" or "pending".  The bracketed parts *)
(* are kept as a set: their order is the Conditions slice's.               *)
Message(a) ==
    LET lead == IF a.removing THEN {"removing"}
                ELSE IF a.stop /\ ~a.stopped THEN {"stopping"} ELSE {}
        parts == lead \cup {t \in CondTypes \ {ReadyType} : a.conds[t] = "failing"}
    IN  IF parts # {} THEN [kind |-> "brackets", parts |-> parts]
        ELSE IF a.upgrade THEN [kind |-> "upgrade", parts |-> {}]
        ELSE IF a.ready THEN [kind |-> "OK", parts |-> {}]
        ELSE [kind |-> "pending", parts |-> {}]

(* One endpoint as endpoints() prints it: an http endpoint gets https://   *)
(* when its host has an ingress TLS certificate and http:// otherwise,     *)
(* none if its address already starts with "http"; another protocol gets   *)
(* its lower-cased name; a pending one shows a placeholder.                *)
Public(e) ==
    [scheme |-> IF e.protocol # "http" THEN e.protocol
                ELSE IF e.httpAddr THEN "none"
                ELSE IF e.tlsHost THEN "https" ELSE "http",
     shown  |-> IF ~e.pending THEN "address"
                ELSE IF e.protocol = "http" THEN "pendingIngress"
                ELSE "pendingLoadBalancer"]

(* endpoints: one "publics => target" entry per target, "" for none.       *)
EndpointsColumn(a) ==
    { [target |-> t,
       publics |-> {Public(e) : e \in {x \in a.endpoints : x.target = t}}] :
      t \in {e.target : e \in a.endpoints} }

(* If Completed, req.Get of the parent: NotFound clears it.                 *)
ParentChecked(done) == done /\ parent

(* CLIStatus: the four columns, then Completed for a nested acorn that is  *)
(* ready, runs and wants no replica, reports OK and publishes nothing;    *)
(* Completed is cleared when the parent is not found.  A parent Get error *)
(* other than NotFound returns it (a stuttering step).                     *)
CLIStatus ==
    LET cols == [upToDate |-> UpToDate(app), healthy |-> Healthy(app),
                 message |-> Message(app), endpoints |-> EndpointsColumn(app)]
        done == /\ app.nested /\ app.ready
                /\ cols.healthy = Zero /\ cols.upToDate = Zero
                /\ cols.message.kind = "OK" /\ cols.endpoints = {}
    IN  /\ status' = [upToDate |-> cols.upToDate, healthy |-> cols.healthy,
                      message |-> cols.message, endpoints |-> cols.endpoints,
                      completed |-> ParentChecked(done)]
        /\ UNCHANGED <<app, parent>>

(* The parent app is created or removed.                                   *)
ParentCreate ==
    /\ ~parent /\ parent' = TRUE
    /\ UNCHANGED <<app, status>>

ParentDelete ==
    /\ parent /\ parent' = FALSE
    /\ UNCHANGED <<app, status>>

(* Before the first CLIStatus the columns are empty strings.              *)
Init ==
    /\ app \in Apps
    /\ parent \in BOOLEAN
    /\ status = [upToDate |-> Word(""), healthy |-> Word(""),
                 message |-> [kind |-> "", parts |-> {}],
                 endpoints |-> {}, completed |-> FALSE]

Next == CLIStatus \/ ParentCreate \/ ParentDelete

(* Only safety is stated: the app controller re-runs CLIStatus when the  *)
(* app changes, but nothing re-runs it when the parent app goes away.     *)
Spec == Init /\ [][Next]_vars

-----------------------------------------------------------------------------
(* Completed, which the CLI takes to mean the acorn is done, is set only   *)
(* for an app that is neither being removed nor stopped or stopping,      *)
(* publishes no endpoint and has no container that wants, runs or has a   *)
(* ready or up-to-date replica: CLIStatus reads all of this back from the *)
(* Healthy, UpToDate, Message and Endpoints column strings.                *)
CompletedOnlyWhenIdle ==
    status.completed =>
        /\ ~app.removing /\ ~app.stop /\ ~app.stopped
        /\ app.endpoints = {}
        /\ \A c \in Containers : \A f \in DOMAIN app.containers[c] :
               app.containers[c][f] = 0
====
