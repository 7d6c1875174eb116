--------------------------- MODULE MCDialogueTaint ---------------------------
(* DialogueTaint on a small instance. *)
EXTENDS DialogueTaint
=============================================================================
