--------------------------- MODULE MCBuildkitBuild ---------------------------
EXTENDS BuildkitBuild

(* Two platforms, so that a relay is still running while the next Solve   *)
(* starts and the deferred waits unwind in reverse; two statuses, so that *)
(* Solve blocks on the full one-slot channel.                              *)
MCMaxPlatforms == 2
MCMaxStatus == 2
====
