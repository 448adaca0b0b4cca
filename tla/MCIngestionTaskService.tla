----------------------- MODULE MCIngestionTaskService -----------------------
(* Instances of IngestionTaskService for TLC. *)
EXTENDS IngestionTaskService, TLC

\* Every task id is for the same document: its row can be created, deleted
\* and created again under another id.
OneDocOf == [t \in Tasks |-> CHOOSE d \in Docs : TRUE]

Symm == Permutations(Users) \cup Permutations(Procs) \cup Permutations(Tasks)
=============================================================================
