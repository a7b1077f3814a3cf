----------------------------- MODULE MCImagePull -----------------------------
(* ImagePull for TLC: up to two progress updates per pull.                 *)
EXTENDS ImagePull

MCMaxUpdates == 2
=============================================================================
