---------------------------- MODULE BuildkitBuild ----------------------------
(***************************************************************************)
(* One call of buildkit.Build (src/pkg/build/buildkit/build.go).  For each *)
(* platform in turn it starts a progress goroutine that relays the        *)
(* SolveStatus values of a channel buffered to one onto messages, defers  *)
(* a wait for that goroutine's done channel, and calls bkc.Solve with the *)
(* channel.  The deferred waits run when Build returns, last platform     *)
(* first.  Solve is the buildkit client, outside the repository: it sends *)
(* statuses on the channel, closes it when it returns successfully, and   *)
(* closes it on an error return exactly when SolveClosesOnError.          *)
(***************************************************************************)
EXTENDS Naturals, Sequences

CONSTANTS
    MaxPlatforms,        \* bound on the platforms of one build
    MaxStatus,           \* bound on the statuses one Solve sends
    SolveClosesOnError   \* Solve closes its status channel on every error path

ASSUME MaxPlatforms \in Nat \ {0} /\ MaxStatus \in Nat
ASSUME SolveClosesOnError \in BOOLEAN

Platforms == 1..MaxPlatforms

VARIABLES
    pc,         \* Build: "start" | "platform" | "solving" | "unwind" | "returned"
    n,          \* number of platforms to build
    i,          \* the platform being built
    solveLeft,  \* statuses the running Solve has still to send
    solveOk,    \* the running Solve will succeed
    ch,         \* ch[p]: the status channel of platform p (capacity 1)
    chClosed,   \* ch[p] has been closed
    relay,      \* relay[p]: "off" | "run" | "done" (close(done) has run)
    sent,       \* statuses Solve put on ch[p]
    forwarded,  \* statuses the relay of p handed to messages.Send
    defers,     \* deferred <-progressDone waits still to run
    failed,     \* Build returns an error
    images      \* images appended to result

vars == <<pc, n, i, solveLeft, solveOk, ch, chClosed, relay, sent, forwarded,
          defers, failed, images>>

Init ==
    /\ pc = "start" /\ n = 0 /\ i = 1
    /\ solveLeft = 0 /\ solveOk = FALSE
    /\ ch = [p \in Platforms |-> <<>>] /\ chClosed = [p \in Platforms |-> FALSE]
    /\ relay = [p \in Platforms |-> "off"]
    /\ sent = [p \in Platforms |-> 0] /\ forwarded = [p \in Platforms |-> 0]
    /\ defers = 0 /\ failed = FALSE /\ images = 0

(* buildkit.New, and with no platforms given ListWorkers: an error, no     *)
(* worker or a worker without platforms returns before any goroutine      *)
(* starts; otherwise the given platforms, or the first worker's first one. *)
Start ==
    /\ pc = "start"
    /\ \/ pc' = "returned" /\ failed' = TRUE /\ UNCHANGED n
       \/ \E k \in Platforms : n' = k /\ pc' = "platform" /\ UNCHANGED failed
    /\ UNCHANGED <<i, solveLeft, solveOk, ch, chClosed, relay, sent, forwarded,
                   defers, images>>

(* The SolveOpt for platform i, progress(messages) starting its relay,     *)
(* defer <-progressDone, and the call of Solve, whose statuses and outcome *)
(* are chosen here.                                                        *)
StartPlatform ==
    /\ pc = "platform" /\ i <= n
    /\ relay' = [relay EXCEPT ![i] = "run"]
    /\ defers' = defers + 1
    /\ \E s \in 0..MaxStatus, ok \in BOOLEAN : solveLeft' = s /\ solveOk' = ok
    /\ pc' = "solving"
    /\ UNCHANGED <<n, i, ch, chClosed, sent, forwarded, failed, images>>

(* Solve sends a status on ch, blocking while the buffer is full.          *)
SolveSend ==
    /\ pc = "solving" /\ solveLeft > 0 /\ Len(ch[i]) < 1
    /\ ch' = [ch EXCEPT ![i] = Append(@, "status")]
    /\ sent' = [sent EXCEPT ![i] = @ + 1]
    /\ solveLeft' = solveLeft - 1
    /\ UNCHANGED <<pc, n, i, solveOk, chClosed, relay, forwarded, defers,
                   failed, images>>

(* Solve returns.  An error returns from Build; a result appends the      *)
(* image and goes on with the next platform, or returns after the last.   *)
SolveReturn ==
    /\ pc = "solving" /\ solveLeft = 0
    /\ chClosed' = [chClosed EXCEPT ![i] = solveOk \/ SolveClosesOnError]
    /\ IF solveOk
       THEN /\ images' = images + 1
            /\ IF i = n THEN pc' = "unwind" /\ UNCHANGED i
                        ELSE pc' = "platform" /\ i' = i + 1
            /\ UNCHANGED failed
       ELSE pc' = "unwind" /\ failed' = TRUE /\ UNCHANGED <<i, images>>
    /\ UNCHANGED <<n, solveLeft, solveOk, ch, relay, sent, forwarded, defers>>

(* The relay of p: for status := range ch, messages.Send (its error       *)
(* ignored).                                                               *)
RelayRecv(p) ==
    /\ relay[p] = "run" /\ ch[p] # <<>>
    /\ ch' = [ch EXCEPT ![p] = Tail(@)]
    /\ forwarded' = [forwarded EXCEPT ![p] = @ + 1]
    /\ UNCHANGED <<pc, n, i, solveLeft, solveOk, chClosed, relay, sent, defers,
                   failed, images>>

(* Mutant of RelayDone: the goroutine ends without close(done).            *)
RelayExitsSilently(p) ==
    /\ relay[p] = "run" /\ ch[p] = <<>> /\ chClosed[p]
    /\ relay' = [relay EXCEPT ![p] = "exited"]
    /\ UNCHANGED <<pc, n, i, solveLeft, solveOk, ch, chClosed, sent, forwarded,
                   defers, failed, images>>

(* The range ends on the closed, empty channel; close(done).               *)
RelayDone(p) ==
    /\ relay[p] = "run" /\ ch[p] = <<>> /\ chClosed[p]
    /\ relay' = [relay EXCEPT ![p] = "done"]
    /\ UNCHANGED <<pc, n, i, solveLeft, solveOk, ch, chClosed, sent, forwarded,
                   defers, failed, images>>

(* Mutant of Unwind: the deferred function does not wait for done.         *)
UnwindNoWait ==
    /\ pc = "unwind" /\ defers > 0
    /\ defers' = defers - 1
    /\ UNCHANGED <<pc, n, i, solveLeft, solveOk, ch, chClosed, relay, sent,
                   forwarded, failed, images>>

(* The deferred <-progressDone of the latest platform not yet waited for.  *)
Unwind ==
    /\ pc = "unwind" /\ defers > 0
    /\ relay[defers] = "done"
    /\ defers' = defers - 1
    /\ UNCHANGED <<pc, n, i, solveLeft, solveOk, ch, chClosed, relay, sent,
                   forwarded, failed, images>>

(* With every wait done, the deferred bkc.Close and Build returns.         *)
Return ==
    /\ pc = "unwind" /\ defers = 0
    /\ pc' = "returned"
    /\ UNCHANGED <<n, i, solveLeft, solveOk, ch, chClosed, relay, sent,
                   forwarded, defers, failed, images>>

Next ==
    \/ Start \/ StartPlatform \/ SolveSend \/ SolveReturn \/ Unwind \/ Return
    \/ \E p \in Platforms : RelayRecv(p) \/ RelayDone(p)

(* Go runs every runnable goroutine, and buildkit's Solve is assumed to    *)
(* make progress and return.                                               *)
Fairness ==
    /\ WF_vars(Start) /\ WF_vars(StartPlatform)
    /\ WF_vars(SolveSend) /\ WF_vars(SolveReturn)
    /\ WF_vars(Unwind) /\ WF_vars(Return)
    /\ \A p \in Platforms : WF_vars(RelayRecv(p)) /\ WF_vars(RelayDone(p))

Spec == Init /\ [][Next]_vars /\ Fairness

-----------------------------------------------------------------------------
(* Build returns, on its error paths too: every deferred <-progressDone    *)
(* finds its relay finished (build.go 118, which blocks for good if a      *)
(* status channel is never closed).                                        *)
Terminates == <>(pc = "returned")

(* When Build returns, every status Solve reported for a platform has been *)
(* handed to messages: the deferred waits keep Build from returning while  *)
(* a relay still holds a status, so the caller can close messages safely. *)
AllStatusForwarded ==
    pc = "returned" => \A p \in Platforms : forwarded[p] = sent[p]
====
