------------------------- MODULE MCProtectionControl -------------------------
(* ProtectionControl on a small instance: two fixed observations, two       *)
(* activations, and evidence for one complete release at a time.            *)
EXTENDS ProtectionControl, TLC

CONSTANTS o1, o2, a1, a2

MCObservations == {o1, o2}
MCActivations == {a1, a2}

\* Observation IDs and activation IDs are interchangeable.
Symmetry == Permutations(MCObservations) \cup Permutations(MCActivations)
=============================================================================
