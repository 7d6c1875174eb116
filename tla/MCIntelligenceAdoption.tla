----------------------- MODULE MCIntelligenceAdoption -----------------------
(* IntelligenceAdoption on a small instance. *)
EXTENDS IntelligenceAdoption
=============================================================================
