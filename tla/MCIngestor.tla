----------------------------- MODULE MCIngestor -----------------------------
(* Instances of Ingestor for TLC. *)
EXTENDS Ingestor, TLC

Symm == Permutations(Tasks) \cup Permutations(Msgs) \cup Permutations(Workers)
=============================================================================
