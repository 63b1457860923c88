----------------------------- MODULE MCClientPanels -----------------------------
(* The panels of the client for TLC. *)
EXTENDS ClientPanels, TLC

Symmetry == Permutations(Providers)
================================================================================
