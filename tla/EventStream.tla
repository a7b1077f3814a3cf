----------------------------- MODULE EventStream -----------------------------
(***************************************************************************)
(* MultiClient.EventStream (src/pkg/client/multi.go): one call of the      *)
(* federated event stream.  The calling goroutine walks the registry's     *)
(* clients in order (aggregate), lists each backend's historical events    *)
(* and, in follow mode, starts that backend's live watch right away.  The  *)
(* union of the lists is sorted by Observed time and handed to a sender    *)
(* goroutine that pushes it into the result channel, then starts one       *)
(* forwarder goroutine per started watch and closes the channel when all   *)
(* forwarders are done.  Cancellation is a single flag every select reads. *)
(*                                                                         *)
(* Backends emit events at any time (history); a watch started at cursor c *)
(* yields the backend's events c+1, c+2, ... in order until it ends.       *)
(***************************************************************************)
EXTENDS Naturals, Sequences, SequencesExt

CONSTANTS
    Order,      \* the clients factory.List returns, in registry order
    Default,    \* factory.DefaultProject()
    Times,      \* Observed timestamps, a finite set of naturals
    RVs,        \* non-empty opts.ResourceVersion values a caller may pass
    MaxEvents   \* bound on the events one backend emits during a call

Backends == {Order[i] : i \in 1..Len(Order)}

ASSUME /\ Len(Order) > 0
       /\ Default \in Backends
       /\ Times \subseteq Nat
       /\ RVs \subseteq 1..MaxEvents

VARIABLES
    opts,       \* [follow, rv]; rv = 0 stands for ResourceVersion == ""
    history,    \* history[b]: the Observed times of b's events, oldest first
    pc,         \* calling goroutine, then sender goroutine
    idx,        \* aggregate loop position in Order
    cursor,     \* cursor[b]: ResourceVersion the watch of b starts after
    initial,    \* the items aggregate has accumulated
    sorted,     \* initial after sort.Slice
    sent,       \* how many items of sorted channels.Send has pushed
    cap,        \* capacity of the result channel, len(initial)
    result,     \* the result channel's buffer
    stream,     \* stream[b]: "none" | "open" | "ended" (b's live watch)
    pos,        \* pos[b]: index of the next event b's watch yields
    fwd,        \* fwd[b]: "none" | "recv" | "send" | "done" (b's forwarder)
    held,       \* held[b]: the event b's forwarder is sending
    diag,       \* backends reported through out.MustWriteErr
    canceled,   \* ctx is done
    closed,     \* close(result) has run
    reading,    \* the caller still ranges over the result channel
    received    \* what the caller has read from the result channel

vars == <<opts, history, pc, idx, cursor, initial, sorted, sent, cap, result,
          stream, pos, fwd, held, diag, canceled, closed, reading, received>>

(* An event as the caller sees it.  pfx counts the project prefixes added  *)
(* to its name; live is a ghost tag: true when it came through a watch.    *)
Event == [src : Backends, idx : 1..MaxEvents, t : Times, pfx : 0..2,
          live : BOOLEAN]
NoEvent == [src |-> Default, idx |-> 1, t |-> 0, pfx |-> 0, live |-> FALSE]

-----------------------------------------------------------------------------
(* aggregate's rename: p.SetName(client.GetProject() + "/" + p.GetName())  *)
(* for items of a client that is not the default project.                  *)
Rename(b, e) == IF b # Default THEN [e EXCEPT !.pfx = @ + 1] ELSE e

(* c.List(ctx, &list, listOpts): every event b has emitted so far.         *)
Listed(b) == [j \in 1..Len(history[b]) |->
                Rename(b, [src |-> b, idx |-> j, t |-> history[b][j],
                           pfx |-> 0, live |-> FALSE])]

(* The event a live watch of b yields at position j; not renamed.          *)
LiveEvent(b, j) == [src |-> b, idx |-> j, t |-> history[b][j], pfx |-> 0,
                    live |-> TRUE]

(* sort.Slice by Observed: any permutation that is ordered by time, since  *)
(* sort.Slice is not stable.                                               *)
ByTime(e1, e2) == e1.t <= e2.t
SortedBy(s) == { [k \in 1..Len(s) |-> s[p[k]]] : p \in Permutations(1..Len(s)) }
SortedInitial(s) == { q \in SortedBy(s) : IsSorted(q, ByTime) }

(* A send on the result channel: into the buffer when it has room, or,     *)
(* when the channel is unbuffered (len(initial) = 0), a hand-off to a      *)
(* caller that is reading.                                                 *)
ChanSend(e) ==
    IF cap > 0
    THEN /\ Len(result) < cap
         /\ result' = Append(result, e)
         /\ UNCHANGED received
    ELSE /\ reading
         /\ received' = Append(received, e)
         /\ UNCHANGED result

-----------------------------------------------------------------------------
Init ==
    /\ opts \in [follow : BOOLEAN, rv : {0} \cup RVs]
    /\ history = [b \in Backends |-> <<>>]
    /\ pc = "start"
    /\ idx = 1
    /\ cursor = [b \in Backends |-> 0]
    /\ initial = <<>>
    /\ sorted = <<>>
    /\ sent = 0
    /\ cap = 0
    /\ result = <<>>
    /\ stream = [b \in Backends |-> "none"]
    /\ pos = [b \in Backends |-> 1]
    /\ fwd = [b \in Backends |-> "none"]
    /\ held = [b \in Backends |-> NoEvent]
    /\ diag = {}
    /\ canceled = FALSE
    /\ closed = FALSE
    /\ reading = TRUE
    /\ received = <<>>

(* A backend records a new event (outside the gateway).                    *)
Emit(b) ==
    /\ Len(history[b]) < MaxEvents
    /\ \E t \in Times : history' = [history EXCEPT ![b] = Append(@, t)]
    /\ UNCHANGED <<opts, pc, idx, cursor, initial, sorted, sent, cap, result,
                   stream, pos, fwd, held, diag, canceled, closed, reading,
                   received>>

(* The backend's server ends b's watch; its channel is closed.             *)
WatchEnd(b) ==
    /\ stream[b] = "open"
    /\ stream' = [stream EXCEPT ![b] = "ended"]
    /\ UNCHANGED <<opts, history, pc, idx, cursor, initial, sorted, sent, cap,
                   result, pos, fwd, held, diag, canceled, closed, reading,
                   received>>

(* The caller cancels ctx.                                                 *)
Cancel ==
    /\ ~canceled
    /\ canceled' = TRUE
    /\ UNCHANGED <<opts, history, pc, idx, cursor, initial, sorted, sent, cap,
                   result, stream, pos, fwd, held, diag, closed, reading,
                   received>>

(* Having cancelled, the caller may stop reading the result channel.       *)
StopReading ==
    /\ canceled /\ reading
    /\ reading' = FALSE
    /\ UNCHANGED <<opts, history, pc, idx, cursor, initial, sorted, sent, cap,
                   result, stream, pos, fwd, held, diag, canceled, closed,
                   received>>

(* The caller reads one buffered event.                                    *)
Receive ==
    /\ reading /\ result # <<>>
    /\ received' = Append(received, Head(result))
    /\ result' = Tail(result)
    /\ UNCHANGED <<opts, history, pc, idx, cursor, initial, sorted, sent, cap,
                   stream, pos, fwd, held, diag, canceled, closed, reading>>
-----------------------------------------------------------------------------
(* aggregate: clients, err := factory.List(ctx); an error ends the call.   *)
FactoryList ==
    /\ pc = "start"
    /\ pc' \in {"list", "failed"}
    /\ UNCHANGED <<opts, history, idx, cursor, initial, sorted, sent, cap,
                   result, stream, pos, fwd, held, diag, canceled, closed,
                   reading, received>>

(* After the callback for Order[idx] returns: the next client, or the end  *)
(* of aggregate.                                                           *)
NextClient ==
    IF idx < Len(Order)
    THEN idx' = idx + 1 /\ pc' = "list"
    ELSE pc' = "sort" /\ UNCHANGED idx

(* Mutant of ListHistory: the watch cursor is never taken from the list   *)
(* (clientOpts.ResourceVersion = list.ResourceVersion dropped).           *)
ListHistoryNoRV ==
    LET b == Order[idx] IN
    /\ pc = "list"
    /\ \/ /\ pc' = "failed"
          /\ UNCHANGED <<idx, cursor, initial>>
       \/ /\ cursor' = [cursor EXCEPT ![b] = IF opts.rv = 0 THEN 0 ELSE opts.rv]
          /\ initial' = IF opts.rv = 0 THEN initial \o Listed(b) ELSE initial
          /\ IF opts.follow THEN pc' = "subscribe" /\ UNCHANGED idx
                            ELSE NextClient
    /\ UNCHANGED <<opts, history, sorted, sent, cap, result, stream, pos, fwd,
                   held, diag, canceled, closed, reading, received>>

(* The callback for client Order[idx], up to the watch: GetClient and      *)
(* c.List (only when opts.ResourceVersion is empty) may fail, which makes  *)
(* aggregate return the error; otherwise the watch cursor is the list's    *)
(* ResourceVersion (or the caller's), and aggregate appends the renamed    *)
(* items.                                                                  *)
ListHistory ==
    LET b == Order[idx] IN
    /\ pc = "list"
    /\ \/ /\ pc' = "failed"
          /\ UNCHANGED <<idx, cursor, initial>>
       \/ /\ cursor' = [cursor EXCEPT ![b] =
                          IF opts.rv = 0 THEN Len(history[b]) ELSE opts.rv]
          /\ initial' = IF opts.rv = 0 THEN initial \o Listed(b) ELSE initial
          /\ IF opts.follow THEN pc' = "subscribe" /\ UNCHANGED idx
                            ELSE NextClient
    /\ UNCHANGED <<opts, history, sorted, sent, cap, result, stream, pos, fwd,
                   held, diag, canceled, closed, reading, received>>

(* Mutants of Subscribe: the watch starts at the backend's current head    *)
(* instead of the cursor, or one position past the cursor.                *)
SubscribeFromNow ==
    LET b == Order[idx] IN
    /\ pc = "subscribe"
    /\ \/ /\ diag' = diag \cup {b}
          /\ UNCHANGED <<stream, pos>>
       \/ /\ stream' = [stream EXCEPT ![b] = "open"]
          /\ pos' = [pos EXCEPT ![b] = Len(history[b]) + 1]
          /\ UNCHANGED diag
    /\ NextClient
    /\ UNCHANGED <<opts, history, cursor, initial, sorted, sent, cap, result,
                   fwd, held, canceled, closed, reading, received>>

SubscribeSkipOne ==
    LET b == Order[idx] IN
    /\ pc = "subscribe"
    /\ \/ /\ diag' = diag \cup {b}
          /\ UNCHANGED <<stream, pos>>
       \/ /\ stream' = [stream EXCEPT ![b] = "open"]
          /\ pos' = [pos EXCEPT ![b] = cursor[b] + 2]
          /\ UNCHANGED diag
    /\ NextClient
    /\ UNCHANGED <<opts, history, cursor, initial, sorted, sent, cap, result,
                   fwd, held, canceled, closed, reading, received>>

(* client.EventStream(ctx, &clientOpts): a failure is written to the       *)
(* diagnostic sink and the backend is left out; a started watch yields     *)
(* events after the cursor.                                                *)
Subscribe ==
    LET b == Order[idx] IN
    /\ pc = "subscribe"
    /\ \/ /\ diag' = diag \cup {b}
          /\ UNCHANGED <<stream, pos>>
       \/ /\ stream' = [stream EXCEPT ![b] = "open"]
          /\ pos' = [pos EXCEPT ![b] = cursor[b] + 1]
          /\ UNCHANGED diag
    /\ NextClient
    /\ UNCHANGED <<opts, history, cursor, initial, sorted, sent, cap, result,
                   fwd, held, canceled, closed, reading, received>>

(* Mutant of Return: the items go out in aggregate's order, unsorted.     *)
ReturnUnsorted ==
    /\ pc = "sort"
    /\ sorted' = initial
    /\ cap' = Len(initial)
    /\ sent' = 0
    /\ pc' = "sending"
    /\ UNCHANGED <<opts, history, idx, cursor, initial, result, stream, pos,
                   fwd, held, diag, canceled, closed, reading, received>>

(* aggregate returned: sort by Observed, make(chan, len(initial)), start   *)
(* the sender goroutine and return the channel to the caller.             *)
Return ==
    /\ pc = "sort"
    /\ sorted' \in SortedInitial(initial)
    /\ cap' = Len(initial)
    /\ sent' = 0
    /\ pc' = "sending"
    /\ UNCHANGED <<opts, history, idx, cursor, initial, result, stream, pos,
                   fwd, held, diag, canceled, closed, reading, received>>

(* channels.Send(ctx, result, initial...): one select between ctx.Done    *)
(* and the send of the next item.                                          *)
SendInitial ==
    /\ pc = "sending"
    /\ sent < Len(sorted)
    /\ ChanSend(sorted[sent + 1])
    /\ sent' = sent + 1
    /\ UNCHANGED <<opts, history, pc, idx, cursor, initial, sorted, cap,
                   stream, pos, fwd, held, diag, canceled, closed, reading>>

(* Mutant of StartForwarders: the forwarders start while the snapshot is   *)
(* still being sent.                                                       *)
StartForwardersEarly ==
    /\ pc = "sending"
    /\ fwd' = [b \in Backends |-> IF stream[b] # "none" THEN "recv" ELSE "none"]
    /\ pc' = "forwarding"
    /\ UNCHANGED <<opts, history, idx, cursor, initial, sorted, sent, cap,
                   result, stream, pos, held, diag, canceled, closed, reading,
                   received>>

(* channels.Send returned, with nil or because ctx is done; NilOrCanceled  *)
(* holds either way, so the sender starts a forwarder per started watch.   *)
StartForwarders ==
    /\ pc = "sending"
    /\ sent = Len(sorted) \/ canceled
    /\ fwd' = [b \in Backends |-> IF stream[b] # "none" THEN "recv" ELSE "none"]
    /\ pc' = "forwarding"
    /\ UNCHANGED <<opts, history, idx, cursor, initial, sorted, sent, cap,
                   result, stream, pos, held, diag, canceled, closed, reading,
                   received>>

(* Mutant of ForwardRecv: a closed watch channel is not noticed.          *)
ForwardRecvIgnoresClose(b) ==
    /\ fwd[b] = "recv"
    /\ \/ /\ canceled
          /\ fwd' = [fwd EXCEPT ![b] = "done"]
          /\ UNCHANGED <<held, pos>>
       \/ /\ stream[b] = "open"
          /\ pos[b] <= Len(history[b])
          /\ held' = [held EXCEPT ![b] = LiveEvent(b, pos[b])]
          /\ pos' = [pos EXCEPT ![b] = @ + 1]
          /\ fwd' = [fwd EXCEPT ![b] = "send"]
    /\ UNCHANGED <<opts, history, pc, idx, cursor, initial, sorted, sent, cap,
                   result, stream, diag, canceled, closed, reading, received>>

(* channels.Forward, receive side: ctx.Done, the watch's next event, or    *)
(* the watch's channel closed (it closes on ctx.Done too).                 *)
ForwardRecv(b) ==
    /\ fwd[b] = "recv"
    /\ \/ /\ canceled \/ stream[b] = "ended"
          /\ fwd' = [fwd EXCEPT ![b] = "done"]
          /\ UNCHANGED <<held, pos>>
       \/ /\ stream[b] = "open"
          /\ pos[b] <= Len(history[b])
          /\ held' = [held EXCEPT ![b] = LiveEvent(b, pos[b])]
          /\ pos' = [pos EXCEPT ![b] = @ + 1]
          /\ fwd' = [fwd EXCEPT ![b] = "send"]
    /\ UNCHANGED <<opts, history, pc, idx, cursor, initial, sorted, sent, cap,
                   result, stream, diag, canceled, closed, reading, received>>

(* Mutant of ForwardSend: a plain blocking send, no select on ctx.Done.   *)
ForwardSendBlocking(b) ==
    /\ fwd[b] = "send"
    /\ ChanSend(held[b])
    /\ fwd' = [fwd EXCEPT ![b] = "recv"]
    /\ UNCHANGED <<opts, history, pc, idx, cursor, initial, sorted, sent, cap,
                   stream, pos, held, diag, canceled, closed, reading>>

(* channels.Forward, send side: Send(ctx, to, msg) selects ctx.Done        *)
(* against the send; a cancelled send drops the event and ends Forward.   *)
ForwardSend(b) ==
    /\ fwd[b] = "send"
    /\ \/ /\ canceled
          /\ fwd' = [fwd EXCEPT ![b] = "done"]
          /\ UNCHANGED <<result, received>>
       \/ /\ ChanSend(held[b])
          /\ fwd' = [fwd EXCEPT ![b] = "recv"]
    /\ UNCHANGED <<opts, history, pc, idx, cursor, initial, sorted, sent, cap,
                   stream, pos, held, diag, canceled, closed, reading>>

(* wg.Wait() returned: the deferred close(result).                         *)
CloseResult ==
    /\ pc = "forwarding"
    /\ \A b \in Backends : fwd[b] \in {"none", "done"}
    /\ closed' = TRUE
    /\ pc' = "closed"
    /\ UNCHANGED <<opts, history, idx, cursor, initial, sorted, sent, cap,
                   result, stream, pos, fwd, held, diag, canceled, reading,
                   received>>

-----------------------------------------------------------------------------
(* The goroutines of the call: the caller's, the sender and forwarders.    *)
Gateway ==
    \/ FactoryList \/ ListHistory \/ Subscribe \/ Return
    \/ SendInitial \/ StartForwarders \/ CloseResult
    \/ \E b \in Backends : ForwardRecv(b) \/ ForwardSend(b)

(* The environment: backends, their watches and the caller.                *)
Environment ==
    \/ \E b \in Backends : Emit(b) \/ WatchEnd(b)
    \/ Cancel \/ StopReading \/ Receive

Next == Gateway \/ Environment

(* Go's scheduler eventually runs every runnable goroutine, and a caller   *)
(* that still ranges over the channel eventually reads.  Backends, watch   *)
(* ends and cancellation are not forced.                                   *)
Fairness ==
    /\ WF_vars(FactoryList) /\ WF_vars(ListHistory) /\ WF_vars(Subscribe)
    /\ WF_vars(Return) /\ WF_vars(SendInitial) /\ WF_vars(StartForwarders)
    /\ WF_vars(CloseResult) /\ WF_vars(Receive)
    /\ \A b \in Backends : WF_vars(ForwardRecv(b)) /\ WF_vars(ForwardSend(b))

Spec == Init /\ [][Next]_vars /\ Fairness

-----------------------------------------------------------------------------
TypeOK ==
    /\ opts \in [follow : BOOLEAN, rv : {0} \cup RVs]
    /\ history \in [Backends -> Seq(Times)]
    /\ pc \in {"start", "list", "subscribe", "sort", "failed", "sending",
               "forwarding", "closed"}
    /\ idx \in 1..Len(Order)
    /\ cursor \in [Backends -> 0..MaxEvents]
    /\ initial \in Seq(Event) /\ sorted \in Seq(Event) /\ result \in Seq(Event)
    /\ sent \in 0..Len(sorted) /\ cap \in Nat /\ Len(result) <= cap
    /\ stream \in [Backends -> {"none", "open", "ended"}]
    /\ pos \in [Backends -> 1..MaxEvents + 1]
    /\ fwd \in [Backends -> {"none", "recv", "send", "done"}]
    /\ held \in [Backends -> Event \cup {NoEvent}]
    /\ diag \subseteq Backends
    /\ canceled \in BOOLEAN /\ closed \in BOOLEAN /\ reading \in BOOLEAN
    /\ received \in Seq(Event)

(* The refinement mapping onto MergedStream: the snapshot is the sorted    *)
(* items once Return ran, the cursors count from then, the call has failed *)
(* when aggregate returned an error, and what the caller read is what it   *)
(* was handed, without the names.                                          *)
Strip(e) == [src |-> e.src, idx |-> e.idx, t |-> e.t, live |-> e.live]
SnapshotTaken == pc \in {"sending", "forwarding", "closed"}

MS == INSTANCE MergedStream WITH
        phase <- IF pc = "failed" THEN "failed"
                 ELSE IF SnapshotTaken THEN "streaming" ELSE "listing",
        snap <- IF SnapshotTaken THEN [k \in 1..Len(sorted) |-> Strip(sorted[k])]
                ELSE <<>>,
        from <- IF SnapshotTaken THEN cursor ELSE [b \in Backends |-> 0],
        delivered <- [k \in 1..Len(received) |-> Strip(received[k])]

(* EventStream implements what the federated stream promises: a failed    *)
(* call hands out nothing; otherwise the caller reads a prefix of one      *)
(* sorted snapshot, then each backend's live events in order from the      *)
(* list's cursor, with live events before the end of the snapshot only     *)
(* once it cancelled.  Every step of the goroutines, channel and caller    *)
(* is a step of MergedStream or leaves it unchanged.                       *)
MergedStreamSafety == MS!Safety

(* The caller sees the whole sorted snapshot before any live event, and    *)
(* the snapshot part in Observed order: the sender finishes               *)
(* channels.Send(initial...) before it starts the forwarders, and the      *)
(* channel is FIFO, although every watch was started during aggregate.    *)
SnapshotOrder ==
    \A i, j \in 1..Len(received) : i < j =>
        /\ received[i].live => received[j].live
        /\ ~received[j].live => received[i].t <= received[j].t

(* No event of a backend reaches the caller twice: a watch starts after    *)
(* the ResourceVersion of the list that went into the snapshot.           *)
NoDuplicateDelivery ==
    \A i, j \in 1..Len(received) : i < j =>
        <<received[i].src, received[i].idx>> # <<received[j].src, received[j].idx>>

(* Unless the caller cancels, a backend's live event reaches the caller    *)
(* only after every earlier event of that backend has: events emitted      *)
(* between the list and the start of the watch are not lost.              *)
NoGap ==
    (~canceled /\ opts.rv = 0) =>
        \A k \in 1..Len(received) : received[k].live =>
            \A i \in 1..received[k].idx - 1 :
                \E m \in 1..Len(received) :
                    received[m].src = received[k].src /\ received[m].idx = i

(* Once the caller cancels, the call ends: the sender and every forwarder  *)
(* observe ctx.Done at each blocking point and the channel is closed,      *)
(* even if the caller stops reading.                                       *)
CancelEndsCall == canceled ~> (pc \in {"failed", "closed"})

(* Once forwarding and every watch has ended, the result channel closes.   *)
StreamCloses ==
    (pc = "forwarding" /\ \A b \in Backends : stream[b] # "open") ~> closed

(* A call that returns an error leaves no live watch behind (spec 4.4:     *)
(* watches start only after every snapshot succeeded; 9: no leaks on       *)
(* early return).                                                          *)
NoOrphanWatch == pc = "failed" => \A b \in Backends : stream[b] = "none"

(* After cancelling, the caller is handed no further event (spec 8).       *)
NoDeliveryAfterCancel == [][canceled => received' = received]_vars

=============================================================================
