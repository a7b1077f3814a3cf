---------------------------- MODULE MCMultiClient ----------------------------
(* The default project "p" and a non-default project "s/q" whose name has  *)
(* a "/" of its own; "s" is a scope no client carries.  Segments are model *)
(* values; every segment is two or more characters long except "c", the    *)
(* one-character server part of the project "c/r" that only the            *)
(* ProjectList run registers.                                              *)
EXTENDS MultiClient

CONSTANTS b1, b2, b3, p, s, q, c, r, x, y

MCOrder == <<b1, b2>>
MCProjectName == [b \in {b1, b2} |-> IF b = b1 THEN <<p>> ELSE <<s, q>>]
MCScopes == {<<p>>, <<s, q>>, <<s>>}
MCSegLen == [g \in {p, s, q, c, r, x, y} |-> IF g = c THEN 1 ELSE 2]

MCOrder3 == <<b1, b2, b3>>
MCProjectName3 == [b \in {b1, b2, b3} |->
                     CASE b = b1 -> <<p>> [] b = b2 -> <<s, q>> [] b = b3 -> <<c, r>>]
MCScopes3 == {<<p>>, <<s, q>>, <<c, r>>}
=============================================================================
