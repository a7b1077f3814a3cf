----------------------------- MODULE MCCLIStatus -----------------------------
EXTENDS CLIStatus

CONSTANTS ready, defined, t1, t2

(* One container, replica counts 0..1: enough for a count to differ from   *)
(* the one it is compared with.  An http endpoint on an address with a TLS *)
(* host and a pending tcp one, on two targets.                             *)
MCContainers == {"web"}
MCEndpoints ==
    { [target |-> t1, protocol |-> "http", httpAddr |-> FALSE, tlsHost |-> TRUE, pending |-> FALSE],
      [target |-> t2, protocol |-> "tcp", httpAddr |-> FALSE, tlsHost |-> FALSE, pending |-> TRUE] }
====
