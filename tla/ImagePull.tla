------------------------------ MODULE ImagePull ------------------------------
(***************************************************************************)
(* One image pull over a websocket (ImagePull.Connect and ImagePull.       *)
(* ImagePull in src/pkg/server/registry/apigroups/acorn/images/pull.go).  *)
(* Five goroutines meet on three unbuffered channels:                      *)
(*   remote.WriteIndex --progress--> relay --progress2--> typed.Every      *)
(*   writer (WriteIndex, then recordImage) --progress2--> typed.Every      *)
(*   typed.Every --out--> the Connect handler, which writes the websocket. *)
(* remote.WriteIndex and typed.Every are libraries outside the repository; *)
(* what they do with these channels is stated by the constants below and  *)
(* by the comments at pull.go 146 and 166: WriteIndex sends its progress   *)
(* (its error included) on progress and closes it before it returns.      *)
(***************************************************************************)
EXTENDS Integers, Sequences, SequencesExt

CONSTANTS
    MaxUpdates,   \* bound on the progress updates WriteIndex sends
    Coalesce,     \* typed.Every keeps only the latest value between ticks
    EveryDrains   \* typed.Every keeps reading its input once ctx is done

ASSUME MaxUpdates \in Nat /\ Coalesce \in BOOLEAN /\ EveryDrains \in BOOLEAN

(* Updates on the channels: progress update k, WriteIndex's error, the     *)
(* recordImage error the writer sends.                                     *)
WErr == -1
RErr == -2
None == 0
ZeroUpdate == -3   \* ggcrv1.Update{}: no progress and no error
Item == (1..MaxUpdates) \cup {WErr, RErr}

VARIABLES
    conn,        \* the Connect handler: "setup" | "pull" | "loop" | "writing" | "end"
    connHeld,    \* the update it is writing to the websocket
    items,       \* what WriteIndex will send on progress
    wiPos,       \* index of WriteIndex's next send
    wi,          \* WriteIndex: "off" | "sending" | "returned" (progress closed)
    relay,       \* "off" | "recv" | "send" | "done" | "panic"
    relayHeld,   \* the update the relay is sending on progress2
    writer,      \* "off" | "index" | "record" | "sendErr" | "wait" | "done"
    recordFailed,\* recordImage returned an error
    every,       \* typed.Every: "off" | "run" | "done" | "exited"
    pending,     \* the update Every holds for its output
    p2closed,    \* close(progress2) has run
    outClosed,   \* Every closed its output channel
    canceled,    \* the request context is done (the handler returned)
    closedNormally, \* the handler saw the output closed (CloseNormalClosure)
    received     \* what the websocket client has been sent

vars == <<conn, connHeld, items, wiPos, wi, relay, relayHeld, writer,
          recordFailed, every, pending, p2closed, outClosed, canceled,
          closedNormally, received>>

-----------------------------------------------------------------------------
(* typed.Every receives v from progress2: once ctx is done it drops it;    *)
(* otherwise it holds it for output, replacing an older value when it      *)
(* coalesces and waiting for the older one to go out when it does not.     *)
EveryTakes(v) ==
    /\ every = "run"
    /\ Coalesce \/ canceled \/ pending = None
    /\ pending' = IF canceled THEN None ELSE v

Init ==
    /\ conn = "setup" /\ connHeld = None
    /\ items = <<>> /\ wiPos = 1 /\ wi = "off"
    /\ relay = "off" /\ relayHeld = None
    /\ writer = "off" /\ recordFailed = FALSE
    /\ every = "off" /\ pending = None
    /\ p2closed = FALSE /\ outClosed = FALSE
    /\ canceled = FALSE /\ closedNormally = FALSE
    /\ received = <<>>

(* Connect's handler: Upgrade and ReadJSON; either failing returns (the    *)
(* deferred conn.Close) before the pull starts.                           *)
ConnectOpen ==
    /\ conn = "setup"
    /\ \/ conn' = "end" /\ canceled' = TRUE
       \/ conn' = "pull" /\ UNCHANGED canceled
    /\ UNCHANGED <<connHeld, items, wiPos, wi, relay, relayHeld, writer,
                   recordFailed, every, pending, p2closed, outClosed,
                   closedNormally, received>>

(* i.ImagePull: ParseAndEnsureNotInternalRepo, the auth options,          *)
(* remote.Index, Digest and GetInternalRepoForNamespace can each fail,    *)
(* and the handler closes the connection with the error.  Otherwise the   *)
(* relay, the writer (which calls WriteIndex) and typed.Every start.  The *)
(* n updates and the optional error WriteIndex will send are chosen here. *)
StartPull ==
    /\ conn = "pull"
    /\ \/ /\ conn' = "end" /\ canceled' = TRUE
          /\ UNCHANGED <<items, wi, relay, writer, every>>
       \/ \E n \in 0..MaxUpdates, fails \in BOOLEAN :
             /\ items' = [k \in 1..n |-> k] \o (IF fails THEN <<WErr>> ELSE <<>>)
             /\ wi' = "sending" /\ relay' = "recv" /\ writer' = "index"
             /\ every' = "run" /\ conn' = "loop"
             /\ UNCHANGED canceled
    /\ UNCHANGED <<connHeld, wiPos, relayHeld, recordFailed, pending, p2closed,
                   outClosed, closedNormally, received>>

(* remote.WriteIndex sends its next update; the relay's range receives it. *)
WISend ==
    /\ wi = "sending" /\ wiPos <= Len(items) /\ relay = "recv"
    /\ relayHeld' = items[wiPos]
    /\ wiPos' = wiPos + 1
    /\ relay' = "send"
    /\ UNCHANGED <<conn, connHeld, items, wi, writer, recordFailed, every,
                   pending, p2closed, outClosed, canceled, closedNormally,
                   received>>

(* remote.WriteIndex closes progress and returns.                          *)
WIReturn ==
    /\ wi = "sending" /\ wiPos > Len(items)
    /\ wi' = "returned"
    /\ UNCHANGED <<conn, connHeld, items, wiPos, relay, relayHeld, writer,
                   recordFailed, every, pending, p2closed, outClosed, canceled,
                   closedNormally, received>>

(* Mutant of RelayRecvClosed: the relay reads progress in a loop that does *)
(* not notice the channel was closed.                                      *)
RelayMissesClose ==
    /\ relay = "recv" /\ wi = "returned" /\ wiPos <= Len(items)
    /\ relay' = "done"
    /\ UNCHANGED <<conn, connHeld, items, wiPos, wi, relayHeld, writer,
                   recordFailed, every, pending, p2closed, outClosed, canceled,
                   closedNormally, received>>

(* Mutant of RelayRecvClosed: update := <-progress without the ok check:  *)
(* a closed channel yields the zero Update, forwarded like any other.      *)
RelayZeroOnClose ==
    /\ relay = "recv" /\ wi = "returned"
    /\ relayHeld' = ZeroUpdate /\ relay' = "send"
    /\ UNCHANGED <<conn, connHeld, items, wiPos, wi, writer,
                   recordFailed, every, pending, p2closed, outClosed, canceled,
                   closedNormally, received>>

(* for update := range progress ends when WriteIndex closed progress;      *)
(* the deferred wg.Done.                                                   *)
RelayRecvClosed ==
    /\ relay = "recv" /\ wi = "returned"
    /\ relay' = "done"
    /\ UNCHANGED <<conn, connHeld, items, wiPos, wi, relayHeld, writer,
                   recordFailed, every, pending, p2closed, outClosed, canceled,
                   closedNormally, received>>

(* progress2 <- update, with no select on ctx.Done; a send on a closed     *)
(* channel panics.                                                         *)
RelaySend ==
    /\ relay = "send"
    /\ IF p2closed THEN relay' = "panic" /\ UNCHANGED pending
                   ELSE EveryTakes(relayHeld) /\ relay' = "recv"
    /\ UNCHANGED <<conn, connHeld, items, wiPos, wi, relayHeld, writer,
                   recordFailed, every, p2closed, outClosed, canceled,
                   closedNormally, received>>

(* The writer after remote.WriteIndex returned: on success recordImage     *)
(* runs next; on error handleWriteIndexError (outside the repository; the  *)
(* error already went out on progress) and the deferred close.            *)
WriterIndexDone ==
    /\ writer = "index" /\ wi = "returned"
    /\ writer' = IF WErr \in ToSet(items) THEN "wait" ELSE "record"
    /\ UNCHANGED <<conn, connHeld, items, wiPos, wi, relay, relayHeld,
                   recordFailed, every, pending, p2closed, outClosed, canceled,
                   closedNormally, received>>

(* recordImage: Create, or on AlreadyExists Get and Update, then ImageTag; *)
(* any of them can fail, and the error is to be sent on progress2.         *)
WriterRecord ==
    /\ writer = "record"
    /\ \/ writer' = "wait" /\ UNCHANGED recordFailed
       \/ writer' = "sendErr" /\ recordFailed' = TRUE
    /\ UNCHANGED <<conn, connHeld, items, wiPos, wi, relay, relayHeld, every,
                   pending, p2closed, outClosed, canceled, closedNormally,
                   received>>

(* progress2 <- ggcrv1.Update{Error: err}, while the relay may still be    *)
(* forwarding WriteIndex's last update.                                    *)
WriterSendErr ==
    /\ writer = "sendErr"
    /\ EveryTakes(RErr)
    /\ writer' = "wait"
    /\ UNCHANGED <<conn, connHeld, items, wiPos, wi, relay, relayHeld,
                   recordFailed, every, p2closed, outClosed, canceled,
                   closedNormally, received>>

(* Mutant of WriterClose: close(progress2) without wg.Wait().             *)
WriterCloseNoWait ==
    /\ writer = "wait"
    /\ p2closed' = TRUE /\ writer' = "done"
    /\ UNCHANGED <<conn, connHeld, items, wiPos, wi, relay, relayHeld,
                   recordFailed, every, pending, outClosed, canceled,
                   closedNormally, received>>

(* The writer's deferred wg.Wait(); close(progress2).                      *)
WriterClose ==
    /\ writer = "wait" /\ relay = "done"
    /\ p2closed' = TRUE /\ writer' = "done"
    /\ UNCHANGED <<conn, connHeld, items, wiPos, wi, relay, relayHeld,
                   recordFailed, every, pending, outClosed, canceled,
                   closedNormally, received>>

(* typed.Every hands its value to the handler's range loop.               *)
EveryEmit ==
    /\ every = "run" /\ ~canceled /\ pending # None /\ conn = "loop"
    /\ connHeld' = pending /\ pending' = None /\ conn' = "writing"
    /\ UNCHANGED <<items, wiPos, wi, relay, relayHeld, writer, recordFailed,
                   every, p2closed, outClosed, canceled, closedNormally,
                   received>>

(* progress2 closed and everything handed on: Every closes its output.     *)
EveryClose ==
    /\ every = "run" /\ p2closed /\ pending = None
    /\ outClosed' = TRUE /\ every' = "done"
    /\ UNCHANGED <<conn, connHeld, items, wiPos, wi, relay, relayHeld, writer,
                   recordFailed, pending, p2closed, canceled, closedNormally,
                   received>>

(* ctx is done: Every either drops what it holds and keeps draining its    *)
(* input, or returns.                                                      *)
EveryOnCancel ==
    /\ every = "run" /\ canceled
    /\ IF EveryDrains THEN pending # None /\ pending' = None /\ UNCHANGED every
                      ELSE every' = "exited" /\ UNCHANGED pending
    /\ UNCHANGED <<conn, connHeld, items, wiPos, wi, relay, relayHeld, writer,
                   recordFailed, p2closed, outClosed, canceled, closedNormally,
                   received>>

(* The range loop ends: CloseNormalClosure, and the handler returns.       *)
ConnClose ==
    /\ conn = "loop" /\ outClosed
    /\ conn' = "end" /\ canceled' = TRUE /\ closedNormally' = TRUE
    /\ UNCHANGED <<connHeld, items, wiPos, wi, relay, relayHeld, writer,
                   recordFailed, every, pending, p2closed, outClosed, received>>

(* conn.WriteMessage: on error the loop breaks and the handler returns,    *)
(* which ends the request context.                                        *)
ConnWrite ==
    /\ conn = "writing"
    /\ \/ /\ received' = Append(received, connHeld) /\ conn' = "loop"
          /\ UNCHANGED canceled
       \/ /\ conn' = "end" /\ canceled' = TRUE
          /\ UNCHANGED received
    /\ UNCHANGED <<connHeld, items, wiPos, wi, relay, relayHeld, writer,
                   recordFailed, every, pending, p2closed, outClosed,
                   closedNormally>>

-----------------------------------------------------------------------------
Next ==
    \/ ConnectOpen \/ StartPull \/ WISend \/ WIReturn \/ RelayRecvClosed \/ RelaySend
    \/ WriterIndexDone \/ WriterRecord \/ WriterSendErr \/ WriterClose
    \/ EveryEmit \/ EveryClose \/ EveryOnCancel \/ ConnClose \/ ConnWrite

(* Every goroutine that can run eventually runs: Go's scheduler, and the   *)
(* libraries' goroutines are assumed to make progress too.                 *)
Fairness ==
    /\ WF_vars(ConnectOpen) /\ WF_vars(StartPull)
    /\ WF_vars(WISend) /\ WF_vars(WIReturn)
    /\ WF_vars(RelayRecvClosed) /\ WF_vars(RelaySend)
    /\ WF_vars(WriterIndexDone) /\ WF_vars(WriterRecord)
    /\ WF_vars(WriterSendErr) /\ WF_vars(WriterClose)
    /\ WF_vars(EveryEmit) /\ WF_vars(EveryClose) /\ WF_vars(EveryOnCancel)
    /\ WF_vars(ConnClose) /\ WF_vars(ConnWrite)

Spec == Init /\ [][Next]_vars /\ Fairness

-----------------------------------------------------------------------------
TypeOK ==
    /\ conn \in {"setup", "pull", "loop", "writing", "end"}
    /\ connHeld \in Item \cup {None} /\ relayHeld \in Item \cup {None}
    /\ pending \in Item \cup {None}
    /\ items \in Seq(Item) /\ wiPos \in 1..MaxUpdates + 2
    /\ wi \in {"off", "sending", "returned"}
    /\ relay \in {"off", "recv", "send", "done", "panic"}
    /\ writer \in {"off", "index", "record", "sendErr", "wait", "done"}
    /\ every \in {"off", "run", "done", "exited"}
    /\ received \in Seq(Item)
    /\ {recordFailed, p2closed, outClosed, canceled, closedNormally} \subseteq BOOLEAN

(* Every goroutine of the pull has returned. *)
Ended ==
    /\ wi \in {"off", "returned"} /\ relay \in {"off", "done"}
    /\ writer \in {"off", "done"} /\ every \in {"off", "done", "exited"}

(* Whatever the websocket does, the handler returns and leaves no goroutine *)
(* of the pull behind: the relay, the writer and Every all end (spec 9:    *)
(* tasks observe cancellation, nothing leaks on early return).            *)
Terminates == <>(conn = "end" /\ Ended)

(* A pull that fails in remote.WriteIndex ends, on a healthy connection,   *)
(* with that error as the client's last update: WriteIndex puts it on      *)
(* progress itself (the comment at pull.go 166) and the relay forwards it. *)
WriteErrorReported ==
    (closedNormally /\ WErr \in ToSet(items)) =>
        received # <<>> /\ Last(received) = WErr

(* A pull whose recordImage fails ends, on a healthy connection, with that *)
(* error as the client's last update.                                      *)
RecordErrorReported ==
    (closedNormally /\ recordFailed) => received # <<>> /\ Last(received) = RErr
=============================================================================
