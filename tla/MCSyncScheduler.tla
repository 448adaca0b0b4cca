-------------------------- MODULE MCSyncScheduler --------------------------
(* Instances of SyncScheduler for TLC: all links belong to one connector.   *)
EXTENDS SyncScheduler, TLC

OneConnector == [l \in Links |-> CHOOSE c \in Conns : TRUE]

\* One link: its jobs are its sync and its prune tasks.
OneLink == [j \in Jobs |-> CHOOSE l \in Links : TRUE]

\* A process with two workers whose users rebuild, and cancel, link and unlink or
\* configure; and two processes with one worker each, one of which may exit.
Users ==
    {[rows |-> Tasks, procs |-> {p}, workers |-> Workers,
      userOps |-> {"rebuild", op}, pruning |-> TRUE, frequency |-> FALSE,
      maxFaults |-> 0, maxExits |-> 0] :
          p \in Procs, op \in {"cancel", "link", "configure"}}
Rivals ==
    {[rows |-> Tasks \ {t}, procs |-> Procs, workers |-> Workers \ {w},
      userOps |-> {}, pruning |-> TRUE, frequency |-> FALSE,
      maxFaults |-> 0, maxExits |-> 1] : t \in Tasks, w \in Workers}
UsersAndRivals == Users \cup Rivals

\* Syncing only, with an exit, a failure and users who resume, or without these
\* and with frequencies; syncing and pruning by users who configure; or syncing
\* left alone.
Server(rows, ops, pruning, frequency, bound) ==
    [rows |-> rows, procs |-> Procs, workers |-> Workers, userOps |-> ops,
     pruning |-> pruning, frequency |-> frequency, maxFaults |-> bound, maxExits |-> bound]
TwoRows == Tasks \ {CHOOSE t \in Tasks : TRUE}
Resumed    == {Server(TwoRows, {"resume"}, FALSE, FALSE, 1)}
Frequent   == {Server(TwoRows, {"resume"}, FALSE, TRUE, 0)}
Configured == {Server(Tasks, {"configure"}, TRUE, FALSE, 0)}
LiveDeployments == Resumed \cup Configured \cup Frequent
LeftAlone == {Server(Tasks, {}, FALSE, FALSE, 0)}

Symm == Permutations(Tasks) \cup Permutations(Jobs) \cup Permutations(Procs)
            \cup Permutations(Workers)
=============================================================================
