-------------------------- MODULE MCTaskLifecycle --------------------------
(* Values for the constants of TaskLifecycle.                              *)
EXTENDS TaskLifecycle, TLC

CONSTANTS t1, t2, k1, k2
Symmetry == Permutations(Workers)
=============================================================================
