---------------------------- MODULE MCEventStream ----------------------------
(* Two projects, the first the default; two timestamps so that ties and    *)
(* reorderings both occur; up to two events per backend.                   *)
EXTENDS EventStream

CONSTANTS b1, b2

MCOrder == <<b1, b2>>
MCTimes == {1, 2}

(* Liveness does not depend on timestamps: one suffices. *)
MCOneTime == {1}
=============================================================================
