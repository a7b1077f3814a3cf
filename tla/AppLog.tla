------------------------------- MODULE AppLog -------------------------------
(***************************************************************************)
(* One MultiClient.AppLog call (src/pkg/client/multi.go 175-198).  onOne   *)
(* resolves the app's project and calls its client's AppLog, which returns *)
(* the channel msgs; a relay goroutine renames every message and forwards *)
(* it on the unbuffered channel result, and closes result when msgs ends. *)
(* The backend's AppLog is outside the repository: it is assumed to close *)
(* msgs once the request context is done (the best case for the relay).   *)
(***************************************************************************)
EXTENDS Naturals, Sequences

CONSTANTS MaxMsgs   \* bound on the messages a backend streams

ASSUME MaxMsgs \in Nat \ {0}

VARIABLES
    caller,       \* "call" | "reading" | "stopped" | "failed"
    sent,         \* messages the backend has put on msgs
    msgsClosed,   \* the backend closed msgs
    relay,        \* "off" | "recv" | "send" | "done"
    resultClosed, \* the relay's deferred close(result) ran
    canceled,     \* the caller's ctx is done
    got           \* messages the caller has read from result

vars == <<caller, sent, msgsClosed, relay, resultClosed, canceled, got>>

Init ==
    /\ caller = "call" /\ sent = 0 /\ msgsClosed = FALSE
    /\ relay = "off" /\ resultClosed = FALSE /\ canceled = FALSE
    /\ got = <<>>

(* onOne: ParseName, ForProject, c.GetProject and c.AppLog; a factory or   *)
(* backend error returns it and no goroutine starts.  Otherwise the relay  *)
(* starts and AppLog returns result.                                       *)
Call ==
    /\ caller = "call"
    /\ \/ caller' = "failed" /\ UNCHANGED relay
       \/ caller' = "reading" /\ relay' = "recv"
    /\ UNCHANGED <<sent, msgsClosed, resultClosed, canceled, got>>

(* The backend streams a message; the relay's range receives it.          *)
BackendSend ==
    /\ ~msgsClosed /\ ~canceled /\ sent < MaxMsgs /\ relay = "recv"
    /\ sent' = sent + 1 /\ relay' = "send"
    /\ UNCHANGED <<caller, msgsClosed, resultClosed, canceled, got>>

(* The backend's log stream ends (a finished pod, or no follow).           *)
BackendEnd ==
    /\ relay # "off" /\ ~msgsClosed
    /\ msgsClosed' = TRUE
    /\ UNCHANGED <<caller, sent, relay, resultClosed, canceled, got>>

(* The backend observes the cancelled context and closes msgs.            *)
BackendCancel ==
    /\ relay # "off" /\ ~msgsClosed /\ canceled
    /\ msgsClosed' = TRUE
    /\ UNCHANGED <<caller, sent, relay, resultClosed, canceled, got>>

(* for msg := range msgs ends; the deferred close(result).                 *)
RelayRecvClosed ==
    /\ relay = "recv" /\ msgsClosed
    /\ relay' = "done" /\ resultClosed' = TRUE
    /\ UNCHANGED <<caller, sent, msgsClosed, canceled, got>>

(* msg.AppName = project + "/" + msg.AppName; result <- msg, a send with   *)
(* no select on ctx.Done: it completes only when the caller reads.        *)
RelaySend ==
    /\ relay = "send" /\ caller = "reading"
    /\ got' = Append(got, sent) /\ relay' = "recv"
    /\ UNCHANGED <<caller, sent, msgsClosed, resultClosed, canceled>>

(* The caller cancels its context.                                         *)
Cancel ==
    /\ caller \in {"reading", "stopped"} /\ ~canceled
    /\ canceled' = TRUE
    /\ UNCHANGED <<caller, sent, msgsClosed, relay, resultClosed, got>>

(* Having cancelled, the caller stops ranging over result.                 *)
StopReading ==
    /\ caller = "reading" /\ canceled
    /\ caller' = "stopped"
    /\ UNCHANGED <<sent, msgsClosed, relay, resultClosed, canceled, got>>

Next ==
    \/ Call \/ BackendSend \/ BackendEnd \/ BackendCancel
    \/ RelayRecvClosed \/ RelaySend \/ Cancel \/ StopReading

(* The goroutines run when they can; a backend honours cancellation; a     *)
(* caller that still ranges reads.  The backend ending its stream, the     *)
(* caller cancelling and then leaving are its own choices.                 *)
Fairness ==
    /\ WF_vars(Call) /\ WF_vars(BackendCancel)
    /\ WF_vars(RelayRecvClosed) /\ WF_vars(RelaySend)

Spec == Init /\ [][Next]_vars /\ Fairness

-----------------------------------------------------------------------------
(* Once the caller cancels, the relay goroutine of AppLog ends (spec:      *)
(* every spawned task observes the cancellation signal and none leaks).   *)
RelayEndsOnCancel == canceled ~> relay \in {"off", "done"}
=============================================================================
