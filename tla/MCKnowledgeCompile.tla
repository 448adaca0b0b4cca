------------------------- MODULE MCKnowledgeCompile -------------------------
(* Instances of KnowledgeCompile for TLC. *)
EXTENDS KnowledgeCompile, TLC

Symm == Permutations(Docs) \cup Permutations(Workers)
=============================================================================
