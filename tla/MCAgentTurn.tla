---------------------------- MODULE MCAgentTurn -----------------------------
(* Instances of AgentTurn for TLC. *)
EXTENDS AgentTurn, TLC

Symmetry == Permutations(Sockets) \cup Permutations(Tabs)
=============================================================================
