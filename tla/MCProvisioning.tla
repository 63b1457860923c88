---------------------------- MODULE MCProvisioning ----------------------------
(* Small instances of Provisioning for TLC.  Handlers differ in nothing but *)
(* their name.                                                              *)
EXTENDS Provisioning, TLC

Symmetry == Permutations(Workers)
===============================================================================
