--------------------------- MODULE MCCapabilityGate ---------------------------
(* CapabilityGate on a small instance: three calls over two keys, an        *)
(* authority that is granted one of two targets and one that is granted     *)
(* nothing.                                                                 *)
EXTENDS CapabilityGate, TLC

CONSTANTS k1, k2, readme, notes, local, other

MCKeys == {k1, k2}
MCTargets == {readme, notes}
MCAuthorities == {local, other}
MCGrants == {<<local, readme>>}

Symmetry == Permutations(MCKeys)
=============================================================================
