--------------------------- MODULE MCRuntimeClock ---------------------------
(* RuntimeClock on a small instance.                                      *)
EXTENDS RuntimeClock
=============================================================================
