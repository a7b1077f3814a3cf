------------------------------ MODULE MCAppLog ------------------------------
(* AppLog for TLC: a backend that streams up to two messages.            *)
EXTENDS AppLog

MCMaxMsgs == 2
=============================================================================
