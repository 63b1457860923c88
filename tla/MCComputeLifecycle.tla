-------------------------- MODULE MCComputeLifecycle --------------------------
(* Small instances of ComputeLifecycle for TLC.  Handlers differ in nothing *)
(* but their name.                                                          *)
EXTENDS ComputeLifecycle, TLC

Symmetry == Permutations(Workers)
===============================================================================
