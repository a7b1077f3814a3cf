---------------------------- MODULE MergedStream ----------------------------
(***************************************************************************)
(* What one federated EventStream call promises its caller, with no        *)
(* goroutines, channels or buffers: the call either fails while listing   *)
(* and delivers nothing, or takes one snapshot (each backend's events up   *)
(* to a cursor, in Observed order) and delivers a prefix of it; then each *)
(* backend's live events follow its cursor one after the other.  The live *)
(* part starts only after the whole snapshot, unless the caller cancelled. *)
(* Names are not part of this promise.                                     *)
(***************************************************************************)
EXTENDS Naturals, Sequences, SequencesExt

CONSTANTS Backends, Times, RVs, MaxEvents

VARIABLES
    opts,       \* [follow, rv] of the call; rv = 0: no ResourceVersion
    history,    \* history[b]: the Observed times of b's events
    phase,      \* "listing" | "streaming" | "failed"
    snap,       \* the snapshot, once taken
    from,       \* from[b]: the cursor b's live events follow
    canceled,   \* the caller cancelled
    delivered   \* what the caller has been handed

vars == <<opts, history, phase, snap, from, canceled, delivered>>

(* Event i of backend b, from the snapshot or from the live part.          *)
Ev(b, i, live) == [src |-> b, idx |-> i, t |-> history[b][i], live |-> live]

(* Each backend's first c[b] events.                                      *)
Listed(c) == UNION { {Ev(b, i, FALSE) : i \in 1..c[b]} : b \in Backends }

EarlierFirst(e1, e2) == e1.t <= e2.t

(* The live events of b already delivered.                                 *)
LiveCount(b) ==
    Len(SelectSeq(delivered, LAMBDA e : e.live /\ e.src = b))

Init ==
    /\ opts \in [follow : BOOLEAN, rv : {0} \cup RVs]
    /\ history = [b \in Backends |-> <<>>]
    /\ phase = "listing" /\ snap = <<>>
    /\ from = [b \in Backends |-> 0]
    /\ canceled = FALSE /\ delivered = <<>>

Emit(b) ==
    /\ Len(history[b]) < MaxEvents
    /\ \E t \in Times : history' = [history EXCEPT ![b] = Append(@, t)]
    /\ UNCHANGED <<opts, phase, snap, from, canceled, delivered>>

Cancel ==
    /\ ~canceled /\ canceled' = TRUE
    /\ UNCHANGED <<opts, history, phase, snap, from, delivered>>

Fail ==
    /\ phase = "listing" /\ phase' = "failed"
    /\ UNCHANGED <<opts, history, snap, from, canceled, delivered>>

(* The snapshot: with no ResourceVersion, each backend's first c[b]        *)
(* events, c[b] at most what it has emitted, sorted by time; with one, no  *)
(* snapshot and every cursor at the given version.                         *)
TakeSnapshot ==
    /\ phase = "listing" /\ phase' = "streaming"
    /\ IF opts.rv = 0
       THEN \E c \in [Backends -> 0..MaxEvents] :
              /\ \A b \in Backends : c[b] <= Len(history[b])
              /\ from' = c
              /\ snap' \in { q \in SetToSeqs(Listed(c)) : IsSorted(q, EarlierFirst) }
       ELSE from' = [b \in Backends |-> opts.rv] /\ snap' = <<>>
    /\ UNCHANGED <<opts, history, canceled, delivered>>

DeliverSnapshot ==
    /\ phase = "streaming"
    /\ Len(delivered) < Len(snap)
    /\ \A k \in 1..Len(delivered) : ~delivered[k].live
    /\ delivered' = Append(delivered, snap[Len(delivered) + 1])
    /\ UNCHANGED <<opts, history, phase, snap, from, canceled>>

DeliverLive(b) ==
    LET i == from[b] + LiveCount(b) + 1 IN
    /\ phase = "streaming" /\ opts.follow
    /\ Len(delivered) >= Len(snap) \/ canceled
    /\ i <= Len(history[b])
    /\ delivered' = Append(delivered, Ev(b, i, TRUE))
    /\ UNCHANGED <<opts, history, phase, snap, from, canceled>>

Next ==
    \/ \E b \in Backends : Emit(b) \/ DeliverLive(b)
    \/ Cancel \/ Fail \/ TakeSnapshot \/ DeliverSnapshot

Safety == Init /\ [][Next]_vars
=============================================================================
