----------------------------- MODULE MCWorkerPool -----------------------------
(* Instances of WorkerPool for TLC.                                            *)
EXTENDS WorkerPool, TLC

Symm == Permutations(Jobs) \cup Permutations(InitWorkers)
            \cup Permutations(Workers \ InitWorkers)

===============================================================================
