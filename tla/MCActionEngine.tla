-------------------------- MODULE MCActionEngine --------------------------
(* Instances of ActionEngine for TLC. *)
EXTENDS ActionEngine, TLC

Symm == Permutations(Asks) \cup Permutations(Posts)
=============================================================================
