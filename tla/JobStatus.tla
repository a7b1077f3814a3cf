------------------------------ MODULE JobStatus ------------------------------
(***************************************************************************)
(* The status of one job of an app, as appStatusRenderer.readJobs         *)
(* (src/pkg/controller/appstatus/jobs.go) recomputes it on every reconcile *)
(* from the status it wrote before and the Job or CronJob in the cluster.  *)
(* The cluster side is the environment: the app's generation is bumped,    *)
(* the app definition controller applies the job for the generation, the *)
(* Kubernetes job controller runs it, a TTL or a removal deletes it, and   *)
(* other controllers write Skipped, Dependencies and ExpressionErrors into *)
(* the status.  Messages, error and running counts shown to users are     *)
(* left out: no property reads them.                                     *)
(***************************************************************************)
EXTENDS Naturals

CONSTANTS
    MaxGen,    \* bound on app.Generation
    MaxCount   \* bound on a Job's Succeeded counter

ASSUME MaxGen \in Nat \ {0} /\ MaxCount \in Nat \ {0}

VARIABLES
    gen,     \* app.Generation
    obj,     \* the Job or CronJob named after the job, or none
    linked,  \* the job is linked to a service (ports.IsLinked / LinkService)
    status   \* app.Status.AppStatus.Jobs[jobName], as readJobs last wrote it

vars == <<gen, obj, linked, status>>

Kinds == {"none", "job", "cron"}
NoObject == [kind |-> "none", ann |-> 1, succeeded |-> 0, lastSuccess |-> FALSE]
\* Dependencies: none recorded, all ready, or one that is not ready.
DepStates == {"none", "ready", "notReady"}

Init ==
    /\ gen = 1 /\ obj = NoObject /\ linked = FALSE
    /\ status = [ces |-> FALSE, skipped |-> FALSE, deps |-> "none",
                 exprErr |-> FALSE, ready |-> FALSE, upToDate |-> FALSE,
                 defined |-> FALSE]

-----------------------------------------------------------------------------
(* readJobs, step by step.                                                 *)

(* Mutant of Carried: CreateEventSucceeded not taken over.                *)
CarriedNoEvent(s) ==
    [ces |-> FALSE, skipped |-> s.skipped, deps |-> s.deps,
     exprErr |-> s.exprErr, ready |-> FALSE, upToDate |-> FALSE,
     defined |-> linked]

(* The new JobStatus keeps CreateEventSucceeded, Skipped, ExpressionErrors *)
(* and Dependencies of the existing one; Defined starts as IsLinked.       *)
Carried(s) ==
    [ces |-> s.ces, skipped |-> s.skipped, deps |-> s.deps,
     exprErr |-> s.exprErr, ready |-> FALSE, upToDate |-> FALSE,
     defined |-> linked]

(* A skipped job is ready, up to date and defined, and loses its           *)
(* Dependencies.                                                           *)
SkippedStatus(c) ==
    [c EXCEPT !.ready = TRUE, !.upToDate = TRUE, !.defined = TRUE,
              !.deps = "none"]

(* A Job with Succeeded > 0, or a CronJob with a LastSuccessfulTime.      *)
Succeeded(o) ==
    \/ o.kind = "job" /\ o.succeeded > 0
    \/ o.kind = "cron" /\ o.lastSuccess

(* Mutant of FromObject: Succeeded compared with 1 by an off-by-one.       *)
FromObjectOffByOne(c, o) ==
    IF o.kind = "none" THEN c
    ELSE [c EXCEPT !.defined = TRUE, !.upToDate = (o.ann = gen),
                   !.ces = @ \/ (o.kind = "job" /\ o.succeeded > 1),
                   !.ready = (o.kind = "job" /\ o.succeeded > 1) /\ o.ann = gen]

(* Mutant of FromObject: a success makes the job ready whatever the      *)
(* generation annotation says.                                              *)
FromObjectIgnoresGeneration(c, o) ==
    IF o.kind = "none" THEN c
    ELSE [c EXCEPT !.defined = TRUE, !.upToDate = (o.ann = gen),
                   !.ces = @ \/ Succeeded(o), !.ready = Succeeded(o)]

(* Get the Job, or when it is not found the CronJob: either makes the job  *)
(* defined and up to date when its generation annotation is the app's;    *)
(* a success sets CreateEventSucceeded and makes it ready if up to date.   *)
FromObject(c, o) ==
    IF o.kind = "none" THEN c
    ELSE [c EXCEPT !.defined = TRUE, !.upToDate = (o.ann = gen),
                   !.ces = @ \/ Succeeded(o),
                   !.ready = Succeeded(o) /\ o.ann = gen]

(* Mutant of WithLinkOverride: CreateEventSucceeded not set for a ready    *)
(* service.                                                                *)
LinkNoCreateEvent(c, svcReady, svcDefined) ==
    IF linked
    THEN [c EXCEPT !.upToDate = TRUE, !.ready = svcReady, !.defined = svcDefined]
    ELSE c

(* A job linked to a service takes readiness and definedness from          *)
(* isServiceReady; a ready service counts as the create event succeeding.  *)
WithLinkOverride(c, svcReady, svcDefined) ==
    IF linked
    THEN [c EXCEPT !.upToDate = TRUE, !.ready = svcReady, !.defined = svcDefined,
                   !.ces = @ \/ svcReady]
    ELSE c

(* A dependency that is not ready makes the job not ready.                 *)
DependencyGate(c) ==
    IF c.deps = "notReady" THEN [c EXCEPT !.ready = FALSE] ELSE c

(* addExpressionErrors: any expression error makes the status not ready.   *)
AddExpressionErrors(c) ==
    IF c.exprErr THEN [c EXCEPT !.ready = FALSE] ELSE c

(* isJobReady, the job as a dependency of another workload: the Job (not  *)
(* a CronJob) exists, carries the app's generation and succeeded exactly  *)
(* once.  A Get error other than NotFound is returned with "not ready".   *)
IsJobReady(o) == o.kind = "job" /\ o.ann = gen /\ o.succeeded = 1

(* readJobs for the job.  isServiceReady's answer is an input.  A failing  *)
(* getReplicasSummary, Get or isServiceReady returns the error; the        *)
(* renderer's caller then keeps the stored status, so that outcome is a    *)
(* stuttering step.                                                        *)
ReadJobs ==
    /\ \E svcReady, svcDefined \in BOOLEAN :
          LET c == Carried(status) IN
          status' = IF c.skipped THEN SkippedStatus(c)
                    ELSE AddExpressionErrors(DependencyGate(
                           WithLinkOverride(FromObject(c, obj), svcReady, svcDefined)))
    /\ UNCHANGED <<gen, obj, linked>>

-----------------------------------------------------------------------------
(* The environment.                                                        *)

(* The app's spec changes.                                                 *)
BumpGeneration ==
    /\ gen < MaxGen
    /\ gen' = gen + 1
    /\ UNCHANGED <<obj, linked, status>>

(* The app definition controller applies the job for the generation: a    *)
(* new Job starts from zero; a CronJob keeps its last success.            *)
ApplyJob ==
    /\ obj.kind = "none" \/ obj.ann # gen
    /\ \E k \in {"job", "cron"} :
          obj' = [NoObject EXCEPT !.kind = k, !.ann = gen,
                  !.lastSuccess = (k = "cron" /\ obj.kind = "cron" /\ obj.lastSuccess)]
    /\ UNCHANGED <<gen, linked, status>>

(* The job controller: a pod of the Job succeeds (a failed pod changes     *)
(* only the messages); the CronJob completes a run.                       *)
RunJob ==
    /\ \/ obj.kind = "job" /\ obj.succeeded < MaxCount
          /\ obj' = [obj EXCEPT !.succeeded = @ + 1]
       \/ obj.kind = "cron" /\ obj' = [obj EXCEPT !.lastSuccess = TRUE]
    /\ UNCHANGED <<gen, linked, status>>

(* ttlSecondsAfterFinished or the app's removal deletes the object.        *)
DeleteJob ==
    /\ obj.kind # "none"
    /\ obj' = NoObject
    /\ UNCHANGED <<gen, linked, status>>

(* The app's links change.                                                 *)
Relink ==
    /\ linked' = ~linked
    /\ UNCHANGED <<gen, obj, status>>

(* Other controllers write the carried fields of the status.               *)
WriteCarried ==
    /\ \/ status' = [status EXCEPT !.skipped = ~@]
       \/ \E d \in DepStates \ {status.deps} : status' = [status EXCEPT !.deps = d]
       \/ status' = [status EXCEPT !.exprErr = ~@]
    /\ UNCHANGED <<gen, obj, linked>>

Next ==
    \/ ReadJobs
    \/ BumpGeneration \/ ApplyJob \/ RunJob \/ DeleteJob \/ Relink
    \/ WriteCarried

(* The app status controller reconciles again after every change of the   *)
(* app or its jobs; nothing forces the environment.                        *)
Spec == Init /\ [][Next]_vars /\ WF_vars(ReadJobs)

-----------------------------------------------------------------------------
(* Once readJobs records that a job's create event succeeded it never      *)
(* takes it back, even when the Job is deleted after finishing, re-applied *)
(* for a new generation or replaced by a CronJob: CreateEventSucceeded is  *)
(* carried over from the existing status.                                  *)
CreateEventSticky == [][status.ces => status'.ces]_status

(* Every status readJobs writes that says Ready also says the create       *)
(* event succeeded, or that the job is skipped: the Job, CronJob and       *)
(* linked-service paths each set CreateEventSucceeded with Ready.          *)
ReadyImpliesCreated ==
    [][ReadJobs => (status'.ready => status'.ces \/ status'.skipped)]_vars

(* A status readJobs writes says Ready only for a skipped job, or for a   *)
(* job with no unready dependency and no expression error that is linked  *)
(* to a service or whose Job or CronJob has succeeded for the app's       *)
(* current generation: neither an earlier Ready, nor the success of a Job *)
(* applied for an older generation or since deleted, may leave it Ready.  *)
ReadyOnlyForCurrentSuccess ==
    [][ReadJobs =>
         (status'.ready =>
            \/ status.skipped
            \/ /\ status.deps # "notReady" /\ ~status.exprErr
               /\ \/ linked
                  \/ Succeeded(obj) /\ obj.ann = gen)]_vars

(* The job's object for the app's current generation has succeeded and    *)
(* nothing holds the job back (not linked, no unready dependency, no       *)
(* expression error).                                                      *)
JobDone ==
    /\ Succeeded(obj) /\ obj.ann = gen /\ ~linked
    /\ status.deps # "notReady" /\ ~status.exprErr

(* Once the current job has succeeded for good, readJobs eventually and    *)
(* from then on reports it ready.                                          *)
EventuallyReady == <>[]JobDone => <>[]status.ready
=============================================================================
