------------------------- MODULE MCMemoryGovernance -------------------------
(* MemoryGovernance on a small instance: two meanings, up to three items    *)
(* and five text inputs.                                                    *)
EXTENDS MemoryGovernance, TLC

CONSTANTS cats, tea

MCMeanings == {cats, tea}

\* The meanings differ in nothing but their identity.
Symmetry == Permutations(MCMeanings)
=============================================================================
