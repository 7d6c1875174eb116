-------------------------- MODULE MCLifeContinuity --------------------------
(* LifeContinuity on a small instance: two inputs, one new dialogue context *)
(* and one capability use, served by up to two processes.                 *)
EXTENDS LifeContinuity, TLC

CONSTANTS i1, i2, c1, k1

MCInputs == {i1, i2}
MCContexts == {c1}
MCKeys == {k1}

\* The inputs differ in nothing but their identity.
Symmetry == Permutations(MCInputs)
=============================================================================
