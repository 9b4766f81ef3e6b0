--------------------------- MODULE MCDownloads ---------------------------
(* Model values for TLC runs of Downloads. *)
EXTENDS Downloads

CONSTANTS c1, c2, here, there
=============================================================================
