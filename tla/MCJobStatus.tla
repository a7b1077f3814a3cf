----------------------------- MODULE MCJobStatus -----------------------------
(* JobStatus for TLC: two generations, counters up to two.                *)
EXTENDS JobStatus

MCMaxGen == 2
MCMaxCount == 2
=============================================================================
