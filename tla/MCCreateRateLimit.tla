--------------------------- MODULE MCCreateRateLimit ---------------------------
(* Small instances of CreateRateLimit for TLC.  Users, and handlers, differ *)
(* in nothing but their name.                                               *)
EXTENDS CreateRateLimit, TLC

Symmetry == Permutations(Users) \cup Permutations(Workers)
================================================================================
