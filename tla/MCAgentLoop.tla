---------------------------- MODULE MCAgentLoop ----------------------------
(* Instances of AgentLoop for TLC. *)
EXTENDS AgentLoop, TLC

Symm == Permutations(Items) \cup Permutations(Stops)
=============================================================================
