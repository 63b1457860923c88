------------------------------ MODULE MCAgentRelay ------------------------------
(* AgentRelay for TLC: sessions and handlers are interchangeable. *)
EXTENDS AgentRelay, TLC

Symmetry == Permutations(Sessions) \cup Permutations(Workers)
================================================================================
