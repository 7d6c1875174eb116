------------------------ MODULE MCExperienceDialogue ------------------------
(* ExperienceDialogue on a small instance. *)
EXTENDS ExperienceDialogue
=============================================================================
