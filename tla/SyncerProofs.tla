---------------------------- MODULE SyncerProofs ----------------------------
(* What holds of the syncer.                                                  *)
(*                                                                            *)
(* Of its schedule, for every number of connectors, links, jobs, rows,        *)
(* processes and workers, every queue size and any number of failures and     *)
(* crashes: types, no chain lost, one run of a connector in a process, and    *)
(* one holder of a row.                                                       *)
(*                                                                            *)
(* Of what a run reads and writes, for every number of documents, versions,   *)
(* storage keys and pages, failing calls and crashes: types, objects that     *)
(* follow the rows, a waterline that passes no change, prunes that delete     *)
(* only what is gone, and skipped documents that are complete.                *)
EXTENDS SyncScheduler, SyncRun, FiniteSetTheorems, TLAPS

-----------------------------------------------------------------------------
(* The schedule (SyncScheduler).                                           *)

LogType == [st : Statuses \cup {"unused", "gone"}, job : Jobs \cup {NoJob}]

\* The tables: their types, a row that was ever used belongs to a job, only
\* running rows expire, and no chain is lost.
Named == \A t \in Tasks : row[t] = Unused \/ (row[t].st # "unused" /\ row[t].job \in Jobs)
Tables ==
    /\ row \in [Tasks -> LogType]
    /\ conn \in [Conns -> Statuses]
    /\ linked \subseteq Links
    /\ expired \subseteq {t \in Tasks : row[t].st = "running"}
    /\ broken \subseteq Jobs
    /\ Named
    /\ ChainAlive

\* A used row keeps its job.
Kept ==
    \A t \in Tasks : row[t].st # "unused" =>
        row'[t].st # "unused" /\ row'[t].job = row[t].job

LEMMA UnusedRow == Unused.st = "unused" /\ Unused.job = NoJob /\ Unused \in LogType
  BY DEF Unused, LogType, Statuses

LEMMA DeploymentTypes ==
    deployment \in Deployments =>
        Rows \subseteq Tasks /\ MaxExits \in Nat /\ MaxFaults \in Nat
  BY SyncAssumption DEF Rows, MaxExits, MaxFaults

\* What a transaction that creates scheduled rows leaves: rows that differ
\* from r were unused, and every job of js has a scheduled row.
LEMMA ScheduledRows ==
    ASSUME deployment \in Deployments, NEW r, r \in [Tasks -> LogType], NEW js, js \subseteq Jobs,
           NEW s, s \in Scheduled(r, js)
    PROVE  /\ s \in [Tasks -> LogType]
           /\ \A t \in Tasks :
                 \/ s[t] = r[t]
                 \/ r[t] = Unused /\ s[t].st = "schedule" /\ s[t].job \in js
           /\ \A j \in js : \E t \in Tasks : s[t] = [st |-> "schedule", job |-> j]
  <1> DEFINE need == {j \in js : ~HasScheduled(r, j)}
             unused == {t \in Rows : r[t] = Unused}
             Table(f) == [t \in Tasks |-> IF \E j \in need : f[j] = t
                             THEN [st |-> "schedule",
                                   job |-> CHOOSE j \in need : f[j] = t]
                             ELSE r[t]]
  <1>1. PICK f \in [need -> unused] :
            /\ \A i, j \in need : i # j => f[i] # f[j]
            /\ s = Table(f)
    BY DEF Scheduled
  <1>2. ASSUME NEW t \in Tasks
        PROVE  /\ s[t] \in LogType
               /\ \/ s[t] = r[t]
                  \/ r[t] = Unused /\ s[t].st = "schedule" /\ s[t].job \in js
    <2>1. CASE \E j \in need : f[j] = t
      <3>1. PICK j \in need : f[j] = t
        BY <2>1
      <3>2. (CHOOSE i \in need : f[i] = t) \in need
        BY <2>1
      <3>3. s[t] = [st |-> "schedule", job |-> CHOOSE i \in need : f[i] = t]
        BY <1>1, <2>1
      <3>4. r[t] = Unused
        BY <3>1, <1>1
      <3> QED
        BY <3>2, <3>3, <3>4 DEF LogType, Statuses
    <2>2. CASE ~\E j \in need : f[j] = t
      BY <1>1, <2>2
    <2> QED
      BY <2>1, <2>2
  <1>3. s \in [Tasks -> LogType]
    <2>1. s = [t \in Tasks |-> s[t]]
      BY <1>1
    <2> QED
      BY <2>1, <1>2
  <1>4. ASSUME NEW j \in js
        PROVE  \E t \in Tasks : s[t] = [st |-> "schedule", job |-> j]
    <2>1. CASE HasScheduled(r, j)
      <3>1. PICK t \in Tasks : r[t] = [st |-> "schedule", job |-> j]
        BY <2>1 DEF HasScheduled
      <3>2. r[t] # Unused
        BY <3>1, UnusedRow
      <3> QED
        BY <3>1, <3>2, <1>2
    <2>2. CASE ~HasScheduled(r, j)
      <3>1. j \in need /\ f[j] \in Tasks
        BY <2>2, <1>1, DeploymentTypes
      <3>2. (CHOOSE i \in need : f[i] = f[j]) = j
        BY <3>1, <1>1
      <3>3. s[f[j]] = [st |-> "schedule", job |-> j]
        BY <3>1, <3>2, <1>1
      <3> QED
        BY <3>1, <3>3
    <2> QED
      BY <2>1, <2>2
  <1> QED
    BY <1>2, <1>3, <1>4
-----------------------------------------------------------------------------
(* Transactions.                                                            *)

\* A chain survives a step that gives its job a scheduled row or leaves the
\* live rows of the job alive.
LEMMA ChainKept ==
    ASSUME Tables,
           \A j \in Jobs :
               LinkOf[j] \in linked' /\ j \notin broken' =>
                 \/ \E t \in Tasks : row'[t].st = "schedule" /\ row'[t].job = j
                 \/ /\ LinkOf[j] \in linked /\ j \notin broken
                    /\ \A t \in Tasks : Live(t) /\ JobOf(t) = j =>
                          row'[t].st \in {"schedule", "running"} /\ row'[t].job = j
    PROVE  ChainAlive'
  BY DEF Tables, ChainAlive, Live, JobOf

LEMMA SameTables == Tables /\ UNCHANGED dbVars => Tables' /\ Kept
  BY DEF Tables, dbVars, Named, Kept, ChainAlive, Live, JobOf

LEMMA ReschedulesTables ==
    ASSUME Tables, NEW t \in Tasks, RescheduleClaimed(t)
    PROVE  Tables' /\ Kept
  <1>1. CASE row[t].st # "running"
    BY <1>1, SameTables DEF RescheduleClaimed
  <1>2. CASE row[t].st = "running"
    <2>1. /\ row' = WithStatus(t, "schedule")
          /\ conn' = [conn EXCEPT ![ConnOfTask(t)] =
                        IF @ = "running" THEN "schedule" ELSE @]
          /\ expired' = expired \ {t} /\ linked' = linked /\ broken' = broken
      BY <1>2 DEF RescheduleClaimed
    <2>2. /\ row' \in [Tasks -> LogType]
          /\ \A u \in Tasks \ {t} : row'[u] = row[u]
          /\ row'[t].st = "schedule" /\ row'[t].job = row[t].job
      BY <2>1 DEF WithStatus, Tables, LogType, Statuses
    <2>3. conn' \in [Conns -> Statuses]
      BY <2>1 DEF Tables, Statuses
    <2>4. Named' /\ Kept
      BY <2>2, <1>2, UnusedRow DEF Tables, Named, Kept
    <2>5. ChainAlive'
      BY <2>1, <2>2, ChainKept DEF Live, JobOf
    <2> QED
      BY <2>1, <2>2, <2>3, <2>4, <2>5 DEF Tables
  <1> QED
    BY <1>1, <1>2

LEMMA FailTables ==
    ASSUME Tables, NEW t \in Tasks, NEW b \in BOOLEAN, FailTask(t, b)
    PROVE  Tables' /\ Kept
  <1>1. conn' \in [Conns -> Statuses] /\ linked' = linked
    BY DEF FailTask, Tables, Statuses
  <1>2. CASE ~IsRow(t)
    <2>1. UNCHANGED <<row, broken, expired>>
      BY <1>2 DEF FailTask
    <2> QED
      BY <1>1, <2>1 DEF Tables, Named, Kept, ChainAlive, Live, JobOf
  <1>3. CASE IsRow(t)
    <2>1. /\ row' = WithStatus(t, "fail") /\ broken' = broken \cup {JobOf(t)}
          /\ expired' = expired \ {t}
      BY <1>3 DEF FailTask
    <2>2. /\ row' \in [Tasks -> LogType]
          /\ \A u \in Tasks \ {t} : row'[u] = row[u]
          /\ row'[t].st = "fail" /\ row'[t].job = row[t].job
      BY <2>1 DEF WithStatus, Tables, LogType, Statuses
    <2>3. JobOf(t) \in Jobs
      BY <1>3, UnusedRow DEF Tables, Named, IsRow, JobOf, Statuses
    <2>4. Named' /\ Kept
      BY <2>2, <2>3, UnusedRow DEF Tables, Named, Kept, JobOf
    <2>5. ChainAlive'
      BY <1>1, <2>1, <2>2, ChainKept DEF Live, JobOf
    <2> QED
      BY <1>1, <2>1, <2>2, <2>3, <2>4, <2>5 DEF Tables
  <1> QED
    BY <1>2, <1>3

\* A step that first turns the rows of some jobs into rows that are not live
\* and then creates a scheduled row for each job of on.
LEMMA CreatesTables ==
    ASSUME Tables, deployment \in Deployments, NEW js, js \subseteq Jobs,
           NEW on, on \subseteq js,
           NEW r, r \in [Tasks -> LogType],
           \A t \in Tasks : \/ r[t] = row[t]
                            \/ /\ row[t].st # "unused" /\ row[t].job \in js
                               /\ r[t].st # "unused" /\ r[t].job = row[t].job,
           row' \in Scheduled(r, on), broken' = (broken \cup js) \ on,
           conn' \in [Conns -> Statuses], linked' \subseteq Links,
           \A j \in Jobs \ js : LinkOf[j] \in linked' => LinkOf[j] \in linked,
           expired' \subseteq {t \in expired : r[t] = row[t]}
    PROVE  Tables' /\ Kept
  <1>1. /\ row' \in [Tasks -> LogType]
        /\ \A t \in Tasks :
              \/ row'[t] = r[t]
              \/ r[t] = Unused /\ row'[t].st = "schedule" /\ row'[t].job \in on
        /\ \A j \in on : \E t \in Tasks : row'[t] = [st |-> "schedule", job |-> j]
    BY ScheduledRows
  <1>2. Named'
    BY <1>1, UnusedRow DEF Tables, Named
  <1>3. Kept
    BY <1>1, UnusedRow DEF Kept
  <1>4. expired' \subseteq {t \in Tasks : row'[t].st = "running"}
    BY <1>1, UnusedRow DEF Tables
  <1>5. ASSUME NEW j \in Jobs, LinkOf[j] \in linked', j \notin broken'
        PROVE  \/ \E t \in Tasks : row'[t].st = "schedule" /\ row'[t].job = j
               \/ /\ LinkOf[j] \in linked /\ j \notin broken
                  /\ \A t \in Tasks : Live(t) /\ JobOf(t) = j =>
                        row'[t].st \in {"schedule", "running"} /\ row'[t].job = j
    <2>1. j \in on \/ j \notin js
      BY <1>5
    <2>2. CASE j \in on
      <3>1. PICK t \in Tasks : row'[t] = [st |-> "schedule", job |-> j]
        BY <2>2, <1>1
      <3>2. row'[t].st = "schedule" /\ row'[t].job = j
        BY <3>1
      <3> QED
        BY <3>2
    <2>3. CASE j \notin js
      <3>1. LinkOf[j] \in linked /\ j \notin broken
        BY <2>3, <1>5
      <3>2. ASSUME NEW t \in Tasks, Live(t), JobOf(t) = j
            PROVE  row'[t].st \in {"schedule", "running"} /\ row'[t].job = j
        <4>1. r[t] = row[t]
          BY <2>3, <3>2 DEF JobOf
        <4>2. r[t] # Unused
          BY <3>2, <4>1, UnusedRow DEF Live
        <4> QED
          BY <1>1, <3>2, <4>1, <4>2 DEF Live, JobOf
      <3> QED
        BY <3>1, <3>2
    <2> QED
      BY <2>1, <2>2, <2>3
  <1>6. ChainAlive'
    BY <1>5, ChainKept
  <1> QED
    BY <1>1, <1>2, <1>4, <1>3, <1>6 DEF Tables

LEMMA CompletesTables ==
    ASSUME Tables, deployment \in Deployments, NEW t \in Tasks,
           row[t].st # "unused", CompleteTask(t)
    PROVE  Tables' /\ Kept
  <1> DEFINE done == IF IsRow(t) THEN WithStatus(t, "done") ELSE row
             js   == {JobOf(t)}
  <1>1. /\ row' \in Scheduled(done, js)
        /\ conn' = [conn EXCEPT ![ConnOfTask(t)] = "done"]
        /\ broken' = (broken \cup js) \ js
        /\ expired' = expired \ {t} /\ linked' = linked
    BY DEF CompleteTask
  <1>2. js \subseteq Jobs
    BY UnusedRow DEF Tables, Named, JobOf
  <1>3. /\ done \in [Tasks -> LogType]
        /\ \A u \in Tasks : u # t => done[u] = row[u]
        /\ done[t].st # "unused" /\ done[t].job = row[t].job
    BY DEF Tables, WithStatus, LogType, Statuses
  <1>4. \A u \in Tasks : \/ done[u] = row[u]
                         \/ /\ row[u].st # "unused" /\ row[u].job \in js
                            /\ done[u].st # "unused" /\ done[u].job = row[u].job
    BY <1>3 DEF JobOf
  <1>5. conn' \in [Conns -> Statuses] /\ linked' \subseteq Links
    BY <1>1 DEF Tables, Statuses
  <1>6. expired' \subseteq {u \in expired : done[u] = row[u]}
    BY <1>1, <1>3 DEF Tables
  <1>7. \A j \in Jobs : LinkOf[j] \in linked' => LinkOf[j] \in linked
    BY <1>1
  <1>8. js \subseteq js
    OBVIOUS
  <1> HIDE DEF done, js
  <1> QED
    BY <1>1, <1>2, <1>3, <1>4, <1>5, <1>6, <1>7, <1>8, CreatesTables

LEMMA CompletesLastTables ==
    ASSUME Tables, NEW t \in Tasks, row[t].st # "unused", CompleteLast(t)
    PROVE  Tables' /\ Kept
  <1>1. /\ row' = IF IsRow(t) THEN WithStatus(t, "done") ELSE row
        /\ conn' = [conn EXCEPT ![ConnOfTask(t)] = "done"]
        /\ broken' = broken \cup {JobOf(t)}
        /\ expired' = expired \ {t} /\ linked' = linked
    BY DEF CompleteLast
  <1>2. /\ row' \in [Tasks -> LogType]
        /\ \A u \in Tasks : u # t => row'[u] = row[u]
        /\ row'[t].st # "unused" /\ row'[t].job = row[t].job
    BY <1>1 DEF Tables, WithStatus, LogType, Statuses
  <1>3. JobOf(t) \in Jobs
    BY UnusedRow DEF Tables, Named, JobOf
  <1>4. Named' /\ Kept
    BY <1>2, <1>3, UnusedRow DEF Tables, Named, Kept, JobOf
  <1>5. ChainAlive'
    BY <1>1, <1>2, ChainKept DEF Live, JobOf
  <1>6. conn' \in [Conns -> Statuses] /\ linked' \subseteq Links
    BY <1>1 DEF Tables, Statuses
  <1>7. expired' \subseteq {u \in Tasks : row'[u].st = "running"}
    BY <1>1, <1>2 DEF Tables
  <1>8. broken' \subseteq Jobs
    BY <1>1, <1>3 DEF Tables
  <1> QED
    BY <1>2, <1>4, <1>5, <1>6, <1>7, <1>8 DEF Tables

\* A step that cancels the live rows of some jobs.
LEMMA CancelsTables ==
    ASSUME Tables, NEW js, js \subseteq Jobs,
           row' = [t \in Tasks |-> IF Live(t) /\ JobOf(t) \in js
                                   THEN [row[t] EXCEPT !.st = "cancel"]
                                   ELSE row[t]],
           broken' = broken \cup js,
           expired' = {t \in expired : JobOf(t) \notin js},
           linked' \subseteq linked, conn' = conn
    PROVE  Tables' /\ Kept
  <1>1. ASSUME NEW t \in Tasks
        PROVE  /\ row'[t] \in LogType
               /\ row'[t] = row[t] \/ (Live(t) /\ row'[t].st = "cancel")
               /\ row'[t].job = row[t].job
               /\ JobOf(t) \notin js => row'[t] = row[t]
    BY DEF Tables, LogType, Statuses
  <1>2. row' \in [Tasks -> LogType]
    BY <1>1
  <1>3. Named' /\ Kept
    BY <1>1, UnusedRow DEF Tables, Named, Kept, Live
  <1>4. ChainAlive'
    BY <1>1, ChainKept DEF Live, JobOf
  <1>5. expired' \subseteq {t \in Tasks : row'[t].st = "running"}
    BY <1>1 DEF Tables
  <1> QED
    BY <1>2, <1>3, <1>4, <1>5 DEF Tables

LEMMA ConnTables ==
    ASSUME Tables, conn' \in [Conns -> Statuses], UNCHANGED <<row, linked, broken>>,
           expired' \subseteq {t \in Tasks : row[t].st = "running"}
    PROVE  Tables' /\ Kept
  BY DEF Tables, Named, Kept, ChainAlive, Live, JobOf

LEMMA JobsOfType == \A x : JobsOf(x) \subseteq Jobs /\ JobsAt(x) \subseteq Jobs
  BY DEF JobsOf, JobsAt

LEMMA UserTables ==
    ASSUME Tables, deployment \in Deployments, UserStep
    PROVE  Tables' /\ Kept
  <1>1. ASSUME NEW c \in Conns, CancelRunningOrScheduledLogs(c)
        PROVE  Tables' /\ Kept
    BY <1>1, CancelsTables, JobsOfType DEF CancelRunningOrScheduledLogs
  <1>2. ASSUME NEW c \in Conns, CancelConnector(c)
        PROVE  Tables' /\ Kept
    <2>1. conn' \in [Conns -> Statuses]
      BY <1>2 DEF CancelConnector, Tables, Statuses
    <2> QED
      BY <1>2, <2>1, ConnTables DEF CancelConnector, Tables
  <1>3. ASSUME NEW c \in Conns, ScheduleConnectorTasks(c)
        PROVE  Tables' /\ Kept
    <2> DEFINE js == {j \in JobsOf(c) : LinkOf[j] \in linked /\ ~Off(j)}
    <2>1. js \subseteq Jobs /\ row \in [Tasks -> LogType]
      BY JobsOfType DEF Tables
    <2>2. row' \in Scheduled(row, js) /\ broken' = (broken \cup js) \ js
      BY <1>3 DEF ScheduleConnectorTasks
    <2>3. conn' \in [Conns -> Statuses] /\ linked' = linked /\ linked \subseteq Links
      BY <1>3 DEF ScheduleConnectorTasks, Tables, Statuses
    <2>4. expired' \subseteq {t \in expired : row[t] = row[t]}
      BY <1>3 DEF ScheduleConnectorTasks
    <2> HIDE DEF js
    <2> QED
      BY <2>1, <2>2, <2>3, <2>4, CreatesTables
  <1>4. ASSUME NEW l \in Links, RebuildConnector(l)
        PROVE  Tables' /\ Kept
    <2> DEFINE js   == JobsAt(l)
               on   == {j \in js : ~Off(j)}
               kept == [t \in Tasks |-> IF JobOf(t) \in js
                                        THEN [row[t] EXCEPT !.st = "gone"] ELSE row[t]]
    <2>1. row' \in Scheduled(kept, on) /\ broken' = (broken \cup js) \ on
      BY <1>4 DEF RebuildConnector
    <2>2. js \subseteq Jobs /\ on \subseteq js
      BY JobsOfType
    <2>3. ASSUME NEW t \in Tasks
          PROVE  /\ kept[t] \in LogType
                 /\ \/ kept[t] = row[t]
                    \/ /\ row[t].st # "unused" /\ row[t].job \in js
                       /\ kept[t].st # "unused" /\ kept[t].job = row[t].job
                 /\ JobOf(t) \notin js => kept[t] = row[t]
      <3>1. JobOf(t) \in js => row[t].st # "unused"
        BY <2>2, UnusedRow, SyncAssumption DEF Tables, Named, JobOf
      <3> QED
        BY <3>1 DEF Tables, LogType, Statuses, JobOf
    <2>4. kept \in [Tasks -> LogType]
      BY <2>3
    <2>5. conn' \in [Conns -> Statuses] /\ linked' = linked /\ linked \subseteq Links
      BY <1>4 DEF RebuildConnector, Tables, Statuses
    <2>6. expired' \subseteq {t \in expired : kept[t] = row[t]}
      BY <1>4, <2>3 DEF RebuildConnector, Tables
    <2> HIDE DEF kept, on, js
    <2> QED
      BY <2>1, <2>2, <2>3, <2>4, <2>5, <2>6, CreatesTables
  <1>5. ASSUME NEW l \in Links, Link(l)
        PROVE  Tables' /\ Kept
    <2> DEFINE on == {j \in JobsAt(l) : ~Off(j)}
    <2>1. JobsAt(l) \subseteq Jobs /\ row \in [Tasks -> LogType] /\ on \subseteq JobsAt(l)
      BY JobsOfType DEF Tables
    <2>2. row' \in Scheduled(row, on) /\ broken' = (broken \cup JobsAt(l)) \ on
      BY <1>5 DEF Link
    <2>3. conn' \in [Conns -> Statuses] /\ linked' \subseteq Links
      BY <1>5 DEF Link, Tables
    <2>4. \A j \in Jobs \ JobsAt(l) : LinkOf[j] \in linked' => LinkOf[j] \in linked
      BY <1>5 DEF Link, JobsAt
    <2>5. expired' \subseteq {t \in expired : row[t] = row[t]}
      BY <1>5 DEF Link
    <2> HIDE DEF on
    <2> QED
      BY <2>1, <2>2, <2>3, <2>4, <2>5, CreatesTables
  <1>6. ASSUME NEW l \in Links, Unlink(l)
        PROVE  Tables' /\ Kept
    <2>1. linked' \subseteq linked
      BY <1>6 DEF Unlink
    <2> QED
      BY <1>6, <2>1, CancelsTables, JobsOfType DEF Unlink
  <1> QED
    BY <1>1, <1>2, <1>3, <1>4, <1>5, <1>6 DEF UserStep
-----------------------------------------------------------------------------
(* Processes.                                                               *)

ScanStates   == [pc : {"idle", "recover", "claim", "mark", "push"},
                 todo : SUBSET Tasks, conns : SUBSET Conns, task : Tasks \cup {NoTask}]
WorkerStates == [pc : {"idle", "get", "lock", "run"}, task : Tasks \cup {NoTask}]

Memory ==
    /\ deployment \in Deployments
    /\ stopping \subseteq Conns /\ reissued \subseteq Tasks
    /\ mode \in [Procs -> {"up", "draining", "down"}]
    /\ scan \in [Procs -> ScanStates]
    /\ queue \in [Procs -> Seq(Tasks)]
    /\ \A p \in Procs : Len(queue[p]) <= QueueSize
    /\ worker \in [Procs -> [Workers -> WorkerStates]]
    /\ locked \in [Procs -> SUBSET Conns]
    /\ last \in [Procs -> SUBSET Workers]
    /\ faults \in 0..MaxFaults /\ exits \in 0..MaxExits

\* Nobody holds a row that was never used, and who is at work holds one.
Used == {t \in Tasks : row[t].st # "unused"}
HeldScan(p)  == /\ scan[p].todo \subseteq Used
                /\ IF scan[p].pc \in {"mark", "push"} THEN scan[p].task \in Used
                   ELSE scan[p].task = NoTask
HeldQueue(p) == \A i \in 1..Len(queue[p]) : queue[p][i] \in Used
HeldWorker(p, w) == IF worker[p][w].pc = "idle" THEN worker[p][w] = IdleWorker
                    ELSE worker[p][w].task \in Used
Held == \A p \in Procs : HeldScan(p) /\ HeldQueue(p) /\ \A w \in Workers : HeldWorker(p, w)

\* A worker that runs a row has locked its connector.
Locks == \A p \in Procs : \A w \in Workers :
            worker[p][w].pc = "run" => ConnOfTask(Task(p, w)) \in locked[p]

LEMMA ConnOfUsed == Tables => \A t \in Used : ConnOfTask(t) \in Conns
  BY UnusedRow, SyncAssumption DEF Tables, Named, Used, ConnOfTask, LinkOfTask, JobOf

LEMMA KeptUsed == Kept => Used \subseteq Used'
  BY DEF Kept, Used

LEMMA KeptConn == Kept => \A t \in Used : ConnOfTask(t)' = ConnOfTask(t)
  BY DEF Kept, Used, ConnOfTask, LinkOfTask, JobOf

LEMMA ClaimsTables ==
    ASSUME Tables, NEW t \in Tasks, row[t].st = "schedule",
           row' = WithStatus(t, "running"), expired' = expired \ {t},
           UNCHANGED <<conn, linked, broken>>
    PROVE  Tables' /\ Kept
  <1>1. /\ row' \in [Tasks -> LogType]
        /\ \A u \in Tasks \ {t} : row'[u] = row[u]
        /\ row'[t].st = "running" /\ row'[t].job = row[t].job
    BY DEF WithStatus, Tables, LogType, Statuses
  <1>2. Named' /\ Kept
    BY <1>1, UnusedRow DEF Tables, Named, Kept
  <1>3. ChainAlive'
    BY <1>1, ChainKept DEF Live, JobOf
  <1> QED
    BY <1>1, <1>2, <1>3 DEF Tables

LEMMA ScanTables ==
    ASSUME Tables, Memory, Held, NEW p \in Procs, ScanStep(p)
    PROVE  Tables' /\ Kept
  <1>1. CASE UNCHANGED dbVars
    BY <1>1, SameTables
  <1>2. CASE Recover(p)
    BY <1>2, ReschedulesTables DEF Recover, Memory, ScanStates
  <1>3. CASE RecoverConnectors(p)
    <2>1. conn' \in [Conns -> Statuses]
      BY <1>3 DEF RecoverConnectors, Tables, Statuses
    <2> QED
      BY <1>3, <2>1, ConnTables DEF RecoverConnectors, Tables
  <1>4. CASE ClaimTask(p)
    <2>1. PICK t \in scan[p].todo :
            IF row[t].st = "schedule"
            THEN row' = WithStatus(t, "running") /\ expired' = expired \ {t}
            ELSE UNCHANGED <<row, expired>>
      BY <1>4 DEF ClaimTask
    <2>2. t \in Tasks
      BY DEF Memory, ScanStates
    <2>3. UNCHANGED <<conn, linked, broken>>
      BY <1>4 DEF ClaimTask
    <2>4. CASE row[t].st = "schedule"
      BY <2>1, <2>2, <2>3, <2>4, ClaimsTables
    <2>5. CASE row[t].st # "schedule"
      BY <2>1, <2>3, <2>5, SameTables DEF dbVars
    <2> QED
      BY <2>4, <2>5
  <1>5. CASE MarkConnectorRunning(p)
    <2>1. conn' \in [Conns -> Statuses]
      BY <1>5 DEF MarkConnectorRunning, Tables, Statuses
    <2> QED
      BY <1>5, <2>1, ConnTables DEF MarkConnectorRunning, Tables
  <1> QED
    BY <1>1, <1>2, <1>3, <1>4, <1>5
    DEF ScanStep, RecoverStaleRunning, ListDueTasks, Push, EndScan, ScanFails

LEMMA HoldsUsed ==
    ASSUME Memory, Held, NEW p \in Procs, NEW w \in Workers, worker[p][w].pc # "idle"
    PROVE  Task(p, w) \in Tasks /\ row[Task(p, w)].st # "unused"
  BY DEF Held, HeldWorker, Used, Task

LEMMA WorkerTables ==
    ASSUME Tables, Memory, Held, NEW p \in Procs, NEW w \in Workers, WorkerStep(p, w)
    PROVE  Tables' /\ Kept
  <1>1. CASE UNCHANGED dbVars
    BY <1>1, SameTables
  <1>2. CASE \E b \in BOOLEAN : FailTask(Task(p, w), b) /\ worker[p][w].pc # "idle"
    BY <1>2, HoldsUsed, FailTables
  <1>3. CASE RescheduleClaimed(Task(p, w)) /\ worker[p][w].pc # "idle"
    BY <1>3, HoldsUsed, ReschedulesTables
  <1>4. CASE CompleteTask(Task(p, w)) /\ worker[p][w].pc # "idle"
    BY <1>4, HoldsUsed, CompletesTables DEF Memory
  <1>5. CASE CompleteLast(Task(p, w)) /\ worker[p][w].pc # "idle"
    BY <1>5, HoldsUsed, CompletesLastTables
  <1> QED
    BY <1>1, <1>2, <1>3, <1>4, <1>5
    DEF WorkerStep, Take, GetContext, GetContextFails, TryLock, Complete, Fail,
        FinalWriteFails, At

LEMMA NextTables ==
    ASSUME Tables, Memory, Held, [Next]_vars
    PROVE  Tables' /\ Kept
  <1>1. CASE UserStep
    BY <1>1, UserTables DEF Memory
  <1>2. ASSUME NEW t \in Tasks, Expire(t)
        PROVE  Tables' /\ Kept
    <2>1. expired' \subseteq {u \in Tasks : row[u].st = "running"}
      BY <1>2 DEF Expire, Tables
    <2>2. conn' \in [Conns -> Statuses] /\ UNCHANGED <<row, linked, broken>>
      BY <1>2 DEF Expire, Tables
    <2> QED
      BY <2>1, <2>2, ConnTables
  <1>3. ASSUME NEW p \in Procs, ScanStep(p)
        PROVE  Tables' /\ Kept
    BY <1>3, ScanTables
  <1>4. ASSUME NEW p \in Procs, ProcessStep(p)
        PROVE  Tables' /\ Kept
    BY <1>4, SameTables DEF ProcessStep, Stop, Exit, Crash, Restart, LoseMemory
  <1>5. ASSUME NEW p \in Procs, NEW w \in Workers, WorkerStep(p, w)
        PROVE  Tables' /\ Kept
    BY <1>5, WorkerTables
  <1>6. CASE \/ UNCHANGED vars
             \/ \E c \in Conns : UpdateConnector(c)
             \/ \E t \in Tasks : Mature(t)
    <2>1. UNCHANGED dbVars
      BY <1>6 DEF vars, dbVars, UpdateConnector, Mature
    <2> QED
      BY <2>1, SameTables
  <1> QED
    BY <1>1, <1>2, <1>3, <1>4, <1>5, <1>6 DEF Next, Step

Crews == Memory /\ Held /\ Locks /\ OneRunPerConnector

\* A step that changes nothing of a worker or of a lock.
LEMMA SameWorkers ==
    ASSUME Tables, Kept, Crews, UNCHANGED <<worker, locked>>
    PROVE  /\ \A q \in Procs : \A v \in Workers : HeldWorker(q, v)'
           /\ Locks' /\ OneRunPerConnector'
  <1>1. \A q \in Procs : \A v \in Workers : HeldWorker(q, v)'
    BY KeptUsed DEF Crews, Held, HeldWorker
  <1>2. \A q \in Procs : \A v \in Workers : worker[q][v].pc # "idle" =>
            ConnOfTask(Task(q, v))' = ConnOfTask(Task(q, v))
    <2> SUFFICES ASSUME NEW q \in Procs, NEW v \in Workers, worker[q][v].pc # "idle"
                 PROVE  ConnOfTask(Task(q, v))' = ConnOfTask(Task(q, v))
      OBVIOUS
    <2>1. Task(q, v) \in Used /\ Task(q, v)' = Task(q, v)
      BY DEF Crews, Held, HeldWorker, Task
    <2> QED
      BY <2>1, KeptConn DEF ConnOfTask, LinkOfTask, JobOf, Kept, Used
  <1>3. Locks'
    BY <1>2 DEF Crews, Locks
  <1>4. OneRunPerConnector'
    BY <1>2 DEF Crews, OneRunPerConnector
  <1> QED
    BY <1>1, <1>3, <1>4

\* A step of the scheduler goroutine of p.
LEMMA ScanChanges ==
    ASSUME Tables, Kept, Crews, NEW p \in Procs, UNCHANGED <<worker, locked>>,
           scan' \in [Procs -> ScanStates], \A q \in Procs \ {p} : scan'[q] = scan[q],
           HeldScan(p)', \A q \in Procs : HeldQueue(q)'
    PROVE  Held' /\ Locks' /\ OneRunPerConnector'
  <1>1. \A q \in Procs \ {p} : HeldScan(q)'
    BY KeptUsed DEF HeldScan, Crews, Held
  <1> QED
    BY <1>1, SameWorkers DEF Held

\* A step of worker w of p.
LEMMA WorkerChanges ==
    ASSUME Tables, Kept, Crews, NEW p \in Procs, NEW w \in Workers,
           UNCHANGED scan, \A q \in Procs : HeldQueue(q)',
           \A q \in Procs : \A v \in Workers :
               q # p \/ v # w => worker'[q][v] = worker[q][v],
           HeldWorker(p, w)',
           \A q \in Procs \ {p} : locked'[q] = locked[q],
           \A v \in Workers \ {w} : worker[p][v].pc = "run" =>
               /\ ConnOfTask(Task(p, v)) \in locked'[p]
               /\ worker'[p][w].pc = "run" =>
                     ConnOfTask(Task(p, v)) # ConnOfTask(Task(p, w))',
           worker'[p][w].pc = "run" => ConnOfTask(Task(p, w))' \in locked'[p]
    PROVE  Held' /\ Locks' /\ OneRunPerConnector'
  <1>1. \A q \in Procs : HeldScan(q)'
    BY KeptUsed DEF HeldScan, Crews, Held
  <1>2. ASSUME NEW q \in Procs, NEW v \in Workers, q # p \/ v # w
        PROVE  /\ HeldWorker(q, v)'
               /\ worker[q][v].pc # "idle" =>
                     ConnOfTask(Task(q, v))' = ConnOfTask(Task(q, v))
    <2>1. worker'[q][v] = worker[q][v]
      BY <1>2
    <2>2. HeldWorker(q, v)'
      BY <2>1, KeptUsed DEF Crews, Held, HeldWorker
    <2>3. ASSUME worker[q][v].pc # "idle"
          PROVE  ConnOfTask(Task(q, v))' = ConnOfTask(Task(q, v))
      <3>1. Task(q, v) \in Used /\ Task(q, v)' = Task(q, v)
        BY <2>1, <2>3 DEF Crews, Held, HeldWorker, Task
      <3> QED
        BY <3>1, KeptConn DEF ConnOfTask, LinkOfTask, JobOf, Kept, Used
    <2> QED
      BY <2>2, <2>3
  <1>3. Held'
    BY <1>1, <1>2 DEF Held
  <1>4. Locks'
    <2> SUFFICES ASSUME NEW q \in Procs, NEW v \in Workers, worker'[q][v].pc = "run"
                 PROVE  ConnOfTask(Task(q, v))' \in locked'[q]
      BY DEF Locks
    <2>1. CASE q = p /\ v = w
      BY <2>1
    <2>2. CASE q # p
      BY <2>2, <1>2 DEF Crews, Locks
    <2>3. CASE q = p /\ v # w
      BY <2>3, <1>2
    <2> QED
      BY <2>1, <2>2, <2>3
  <1>5. OneRunPerConnector'
    <2> SUFFICES ASSUME NEW q \in Procs, NEW u \in Workers, NEW v \in Workers, u # v,
                        worker'[q][u].pc = "run", worker'[q][v].pc = "run"
                 PROVE  ConnOfTask(Task(q, u))' # ConnOfTask(Task(q, v))'
      BY DEF OneRunPerConnector
    <2>1. CASE q # p \/ (u # w /\ v # w)
      BY <2>1, <1>2 DEF Crews, OneRunPerConnector
    <2>2. CASE q = p /\ u = w
      BY <2>2, <1>2
    <2>3. CASE q = p /\ v = w
      BY <2>3, <1>2
    <2> QED
      BY <2>1, <2>2, <2>3
  <1> QED
    BY <1>3, <1>4, <1>5

LEMMA SameQueues ==
    ASSUME Kept, Held, UNCHANGED queue
    PROVE  \A q \in Procs : HeldQueue(q)'
  BY KeptUsed DEF Held, HeldQueue

LEMMA ScanCrews ==
    ASSUME Tables, Kept, Crews, NEW p \in Procs, ScanStep(p)
    PROVE  Crews'
  <1> USE SyncAssumption
  <1>1. /\ UNCHANGED <<worker, last, locked, mode, exits, stopping, deployment>>
        /\ UNCHANGED <<MaxExits, MaxFaults>>
    BY DEF ScanStep, RecoverStaleRunning, Recover, RecoverConnectors, ListDueTasks,
           ClaimTask, MarkConnectorRunning, Push, EndScan, ScanFails, quietVars, otherVars,
           MaxExits, MaxFaults
  <1>2. \A q \in Procs \ {p} : scan'[q] = scan[q]
    BY DEF ScanStep, RecoverStaleRunning, Recover, RecoverConnectors, ListDueTasks,
           ClaimTask, MarkConnectorRunning, Push, EndScan, ScanFails, Crews, Memory
  <1>3. faults' \in 0..MaxFaults
    <2>1. faults' = faults \/ (faults < MaxFaults /\ faults' = faults + 1)
      BY DEF ScanStep, RecoverStaleRunning, Recover, RecoverConnectors, ListDueTasks,
             ClaimTask, MarkConnectorRunning, Push, EndScan, ScanFails
    <2> QED
      BY <2>1, DeploymentTypes DEF Crews, Memory
  <1>4. reissued' \subseteq Tasks
    <2>1. reissued' = reissued \/ \E t \in scan[p].todo : reissued' = reissued \cup {t}
      BY DEF ScanStep, RecoverStaleRunning, Recover, RecoverConnectors, ListDueTasks,
             ClaimTask, MarkConnectorRunning, Push, EndScan, ScanFails, quietVars
    <2>2. scan[p].todo \subseteq Tasks /\ reissued \subseteq Tasks
      BY DEF Crews, Memory, ScanStates
    <2> QED
      BY <2>1, <2>2
  <1>5. scan[p] \in ScanStates /\ HeldScan(p) /\ HeldQueue(p) /\ IdleScan \in ScanStates
    BY DEF Crews, Memory, Held, ScanStates, IdleScan
  <1>6. SUFFICES /\ scan'[p] \in ScanStates /\ DOMAIN scan' = Procs
                 /\ scan' = [q \in Procs |-> scan'[q]] /\ HeldScan(p)'
                 /\ queue' \in [Procs -> Seq(Tasks)]
                 /\ \A q \in Procs : Len(queue'[q]) <= QueueSize /\ HeldQueue(q)'
    <2>1. scan' \in [Procs -> ScanStates]
      BY <1>2, <1>6 DEF Crews, Memory
    <2>2. Held' /\ Locks' /\ OneRunPerConnector'
      BY <1>1, <1>2, <1>6, <2>1, ScanChanges
    <2> QED
      BY <1>1, <1>3, <1>4, <1>6, <2>1, <2>2 DEF Crews, Memory
  <1>7. \A t \in expired : t \in Used /\ t \in Tasks /\ ConnOfTask(t) \in Conns
    BY ConnOfUsed DEF Tables, Used
  <1>8. CASE UNCHANGED queue /\ scan' = [scan EXCEPT ![p] = scan'[p]]
               /\ scan'[p] \in ScanStates /\ HeldScan(p)'
    BY <1>8, SameQueues DEF Crews, Memory
  <1>9. CASE RecoverStaleRunning(p)
    <2>1. /\ UNCHANGED queue /\ UNCHANGED row
          /\ scan'[p].todo \subseteq expired /\ scan'[p].pc = "recover"
          /\ scan'[p].task = NoTask
          /\ scan'[p].conns \subseteq {ConnOfTask(t) : t \in expired}
          /\ scan'[p] = [pc |-> "recover", todo |-> scan'[p].todo,
                         conns |-> scan'[p].conns, task |-> NoTask]
          /\ scan' = [scan EXCEPT ![p] = scan'[p]]
      BY <1>9 DEF RecoverStaleRunning, dbVars, IdleScan, Crews, Memory
    <2>2. scan'[p] \in ScanStates
      BY <2>1, <1>7 DEF ScanStates
    <2>3. HeldScan(p)'
      BY <2>1, <1>7 DEF HeldScan, Used
    <2> QED
      BY <2>1, <2>2, <2>3, <1>8
  <1>10. CASE Recover(p)
    <2>1. PICK t \in scan[p].todo : scan' = [scan EXCEPT ![p].todo = @ \ {t}]
      BY <1>10 DEF Recover
    <2>2. /\ scan'[p] = [scan[p] EXCEPT !.todo = @ \ {t}]
          /\ scan' = [scan EXCEPT ![p] = scan'[p]] /\ UNCHANGED queue
      BY <1>10, <2>1 DEF Recover, Crews, Memory
    <2>3. scan'[p] \in ScanStates
      BY <2>2, <1>5 DEF ScanStates
    <2>4. HeldScan(p)'
      BY <2>2, <1>5, KeptUsed DEF HeldScan, ScanStates
    <2> QED
      BY <2>2, <2>3, <2>4, <1>8
  <1>11. CASE RecoverConnectors(p)
    <2>1. /\ scan'[p] = [scan[p] EXCEPT !.conns = {}]
          /\ scan' = [scan EXCEPT ![p] = scan'[p]] /\ UNCHANGED queue
      BY <1>11 DEF RecoverConnectors, Crews, Memory
    <2>2. scan'[p] \in ScanStates
      BY <2>1, <1>5 DEF ScanStates
    <2>3. HeldScan(p)'
      BY <2>1, <1>5, KeptUsed DEF HeldScan, ScanStates
    <2> QED
      BY <2>1, <2>2, <2>3, <1>8
  <1>12. CASE ListDueTasks(p)
    <2>1. PICK due \in SUBSET {t \in Tasks : Due(t)} :
            scan' = [scan EXCEPT ![p] = [IdleScan EXCEPT !.pc = "claim", !.todo = due]]
      BY <1>12 DEF ListDueTasks, NewestOf, Due
    <2>2. /\ scan'[p] = [pc |-> "claim", todo |-> due, conns |-> {}, task |-> NoTask]
          /\ scan' = [scan EXCEPT ![p] = scan'[p]] /\ UNCHANGED <<queue, row>>
      BY <1>12, <2>1 DEF ListDueTasks, Crews, Memory, dbVars, IdleScan
    <2>3. scan'[p] \in ScanStates
      BY <2>2 DEF ScanStates
    <2>4. HeldScan(p)'
      <3>1. due \subseteq Used'
        BY <2>2 DEF Used, Due, Waiting
      <3> QED
        BY <2>2, <3>1 DEF HeldScan
    <2> QED
      BY <2>2, <2>3, <2>4, <1>8
  <1>13. CASE ClaimTask(p)
    <2>1. PICK t \in scan[p].todo :
            scan' = IF row[t].st = "schedule"
                    THEN [scan EXCEPT ![p].pc = "mark", ![p].task = t, ![p].todo = @ \ {t}]
                    ELSE [scan EXCEPT ![p].todo = @ \ {t}]
      BY <1>13 DEF ClaimTask
    <2>2. /\ scan'[p] = IF row[t].st = "schedule"
                        THEN [scan[p] EXCEPT !.pc = "mark", !.task = t, !.todo = @ \ {t}]
                        ELSE [scan[p] EXCEPT !.todo = @ \ {t}]
          /\ scan' = [scan EXCEPT ![p] = scan'[p]] /\ UNCHANGED queue
      BY <1>13, <2>1 DEF ClaimTask, Crews, Memory
    <2>3. scan'[p] \in ScanStates
      <3>1. t \in Tasks /\ scan[p].todo \ {t} \in SUBSET Tasks
        BY <1>5 DEF ScanStates
      <3>2. CASE row[t].st = "schedule"
        BY <2>2, <3>1, <3>2, <1>5 DEF ScanStates
      <3>3. CASE row[t].st # "schedule"
        BY <2>2, <3>1, <3>3, <1>5 DEF ScanStates
      <3> QED
        BY <3>2, <3>3
    <2>4. HeldScan(p)'
      <3>1. t \in Used' /\ scan[p].todo \subseteq Used'
        BY <1>5, KeptUsed DEF HeldScan
      <3>2. scan[p].pc = "claim" /\ scan[p].task = NoTask
        BY <1>13, <1>5 DEF ClaimTask, HeldScan
      <3> QED
        BY <2>2, <1>5, <3>1, <3>2 DEF HeldScan, ScanStates
    <2> QED
      BY <2>2, <2>3, <2>4, <1>8
  <1>14. CASE MarkConnectorRunning(p)
    <2>1. /\ \/ scan'[p] = [scan[p] EXCEPT !.pc = "push"]
             \/ scan'[p] = [scan[p] EXCEPT !.pc = "claim", !.task = NoTask]
          /\ scan' = [scan EXCEPT ![p] = scan'[p]] /\ UNCHANGED queue
      BY <1>14 DEF MarkConnectorRunning, Crews, Memory
    <2>2. scan'[p] \in ScanStates
      BY <2>1, <1>5 DEF ScanStates
    <2>3. scan[p].pc = "mark"
      BY <1>14 DEF MarkConnectorRunning
    <2>4. HeldScan(p)'
      BY <2>1, <2>3, <1>5, KeptUsed DEF HeldScan, ScanStates
    <2> QED
      BY <2>1, <2>2, <2>4, <1>8
  <1>15. CASE Push(p)
    <2>1. /\ scan'[p] = [scan[p] EXCEPT !.pc = "claim", !.task = NoTask]
          /\ scan' = [scan EXCEPT ![p] = scan'[p]] /\ scan[p].pc = "push"
          /\ Len(queue[p]) < QueueSize
          /\ queue' = [queue EXCEPT ![p] = Append(queue[p], scan[p].task)]
      BY <1>15 DEF Push, Crews, Memory
    <2>2. scan'[p] \in ScanStates
      BY <2>1, <1>5 DEF ScanStates
    <2>3. HeldScan(p)'
      BY <2>1, <1>5, KeptUsed DEF HeldScan, ScanStates
    <2>4. scan[p].task \in Used /\ scan[p].task \in Tasks
      BY <2>1, <1>5 DEF HeldScan, Used
    <2>5. queue[p] \in Seq(Tasks)
      BY DEF Crews, Memory
    <2>6. /\ Append(queue[p], scan[p].task) \in Seq(Tasks)
          /\ Len(Append(queue[p], scan[p].task)) = Len(queue[p]) + 1
          /\ Len(queue[p]) \in Nat
          /\ \A i \in 1..Len(queue[p]) + 1 :
                Append(queue[p], scan[p].task)[i] =
                    IF i <= Len(queue[p]) THEN queue[p][i] ELSE scan[p].task
      BY <2>4, <2>5
    <2>7. queue'[p] = Append(queue[p], scan[p].task) /\ \A q \in Procs \ {p} : queue'[q] = queue[q]
      BY <2>1 DEF Crews, Memory
    <2>8. queue' \in [Procs -> Seq(Tasks)]
      BY <2>1, <2>6 DEF Crews, Memory
    <2>9. \A q \in Procs : Len(queue'[q]) <= QueueSize
      BY <2>1, <2>6, <2>7 DEF Crews, Memory
    <2>10. HeldQueue(p)'
      <3> SUFFICES ASSUME NEW i \in 1..Len(queue'[p]) PROVE queue'[p][i] \in Used'
        BY DEF HeldQueue
      <3>1. CASE i <= Len(queue[p])
        BY <3>1, <2>6, <2>7, <1>5, KeptUsed DEF HeldQueue
      <3>2. CASE ~(i <= Len(queue[p]))
        BY <3>2, <2>4, <2>6, <2>7, KeptUsed
      <3> QED
        BY <3>1, <3>2
    <2>11. \A q \in Procs \ {p} : HeldQueue(q)'
      BY <2>7, KeptUsed DEF HeldQueue, Crews, Held
    <2> QED
      BY <2>1, <2>2, <2>3, <2>8, <2>9, <2>10, <2>11 DEF Crews, Memory
  <1>16. CASE EndScan(p) \/ ScanFails(p)
    <2>1. /\ \/ scan'[p] = IdleScan
             \/ scan[p].pc = "claim" /\ \E t \in scan[p].todo :
                   scan'[p] = [scan[p] EXCEPT !.todo = @ \ {t}]
             \/ scan'[p] = [scan[p] EXCEPT !.pc = "claim", !.task = NoTask]
          /\ scan' = [scan EXCEPT ![p] = scan'[p]] /\ UNCHANGED queue
      BY <1>16 DEF EndScan, ScanFails, Crews, Memory
    <2>2. scan'[p] \in ScanStates
      BY <2>1, <1>5 DEF ScanStates
    <2>3. HeldScan(p)'
      <3>1. CASE scan'[p] = IdleScan
        BY <3>1 DEF HeldScan, IdleScan
      <3>2. CASE scan'[p] = [scan[p] EXCEPT !.pc = "claim", !.task = NoTask]
        BY <3>2, <1>5, KeptUsed DEF HeldScan, ScanStates
      <3>3. ASSUME scan[p].pc = "claim", NEW t \in scan[p].todo,
                   scan'[p] = [scan[p] EXCEPT !.todo = @ \ {t}]
            PROVE  HeldScan(p)'
        BY <3>3, <1>5, KeptUsed DEF HeldScan, ScanStates
      <3> QED
        BY <2>1, <3>1, <3>2, <3>3
    <2> QED
      BY <2>1, <2>2, <2>3, <1>8
  <1> QED
    BY <1>9, <1>10, <1>11, <1>12, <1>13, <1>14, <1>15, <1>16 DEF ScanStep

\* How a step of a worker changes it: it takes the head of the queue, goes on
\* to its next pc, or ends.
LEMMA WorkerMoves ==
    ASSUME Crews, NEW p \in Procs, NEW w \in Workers, WorkerStep(p, w)
    PROVE  /\ UNCHANGED <<mode, scan, exits, stopping, reissued, deployment>>
           /\ faults' = faults \/ (faults < MaxFaults /\ faults' = faults + 1)
           /\ \/ /\ worker[p][w].pc = "idle" /\ queue[p] # <<>>
                 /\ worker' = [worker EXCEPT ![p][w] =
                                  [pc |-> "get", task |-> Head(queue[p])]]
                 /\ queue' = [queue EXCEPT ![p] = Tail(queue[p])] /\ UNCHANGED locked
              \/ /\ worker[p][w].pc = "get" /\ UNCHANGED <<queue, locked>>
                 /\ worker' = [worker EXCEPT ![p][w] =
                                  [pc |-> "lock", task |-> Task(p, w)]]
              \/ /\ worker[p][w].pc = "lock" /\ UNCHANGED queue
                 /\ ConnOfTask(Task(p, w)) \notin locked[p]
                 /\ locked' = [locked EXCEPT ![p] = @ \cup {ConnOfTask(Task(p, w))}]
                 /\ worker' = [worker EXCEPT ![p][w] =
                                  [pc |-> "run", task |-> Task(p, w)]]
              \/ /\ worker[p][w].pc # "idle" /\ UNCHANGED queue
                 /\ worker' = [worker EXCEPT ![p][w] = IdleWorker]
                 /\ IF worker[p][w].pc = "run"
                    THEN locked' = [locked EXCEPT ![p] = @ \ {ConnOfTask(Task(p, w))}]
                    ELSE UNCHANGED locked
  <1>1. /\ UNCHANGED <<mode, scan, exits, stopping, reissued, deployment>>
        /\ faults' = faults \/ (faults < MaxFaults /\ faults' = faults + 1)
    BY DEF WorkerStep, Take, GetContext, GetContextFails, TryLock, Complete, Fail,
           FinalWriteFails
  <1>2. worker[p][w] \in WorkerStates
    BY DEF Crews, Memory
  <1>3. \A x : WorkerTo(p, w, x) =>
           worker' = [worker EXCEPT ![p][w] = [pc |-> x, task |-> Task(p, w)]]
    <2> SUFFICES ASSUME NEW x, WorkerTo(p, w, x)
                 PROVE  worker' = [worker EXCEPT ![p][w] = [pc |-> x, task |-> Task(p, w)]]
      OBVIOUS
    <2>1. [worker[p][w] EXCEPT !.pc = x] = [pc |-> x, task |-> Task(p, w)]
      BY <1>2 DEF WorkerStates, Task
    <2>2. worker' = [worker EXCEPT ![p][w] = [worker[p][w] EXCEPT !.pc = x]]
      BY DEF WorkerTo
    <2> QED
      BY <2>1, <2>2
  <1> QED
    BY <1>1, <1>3
    DEF WorkerStep, Take, GetContext, GetContextFails, TryLock, Complete, Fail,
        FinalWriteFails, At, EndHandle, Unlock

LEMMA WorkerCrews ==
    ASSUME Tables, Kept, Crews, NEW p \in Procs, NEW w \in Workers, WorkerStep(p, w)
    PROVE  Crews'
  <1> USE SyncAssumption
  <1>1. /\ UNCHANGED <<mode, scan, exits, stopping, reissued, deployment, MaxExits>>
        /\ MaxFaults' = MaxFaults
        /\ faults' = faults \/ (faults < MaxFaults /\ faults' = faults + 1)
    BY WorkerMoves DEF MaxExits, MaxFaults
  <1>2. faults' \in 0..MaxFaults /\ last' \in [Procs -> SUBSET Workers]
    <2>1. ASSUME UNCHANGED last
          PROVE  last' \in [Procs -> SUBSET Workers]
      BY <2>1 DEF Crews, Memory
    <2>2. ASSUME GetContext(p, w)
          PROVE  last' \in [Procs -> SUBSET Workers]
      <3>1. \/ last' = [last EXCEPT ![p] = @ \cup {w}]
            \/ last' = [last EXCEPT ![p] = @ \ {w}]
        BY <2>2 DEF GetContext
      <3>2. last \in [Procs -> SUBSET Workers]
        BY DEF Crews, Memory
      <3> QED
        BY <3>1, <3>2
    <2>3. last' \in [Procs -> SUBSET Workers]
      BY <2>1, <2>2
      DEF WorkerStep, Take, GetContextFails, TryLock, Complete, Fail, FinalWriteFails
    <2> QED
      BY <1>1, <2>3, DeploymentTypes DEF Crews, Memory
  <1>3. IdleWorker \in WorkerStates
    BY DEF IdleWorker, WorkerStates
  <1>4. worker[p][w] \in WorkerStates /\ HeldWorker(p, w)
    BY DEF Crews, Memory, Held
  <1>5. worker[p][w].pc # "idle" =>
            /\ Task(p, w) \in Used /\ Task(p, w) \in Tasks
            /\ ConnOfTask(Task(p, w)) \in Conns
    BY <1>4, ConnOfUsed DEF HeldWorker, Task, Used
  <1>6. ASSUME NEW x \in WorkerStates, worker' = [worker EXCEPT ![p][w] = x]
        PROVE  /\ worker' \in [Procs -> [Workers -> WorkerStates]]
               /\ worker'[p][w] = x
               /\ \A q \in Procs : \A v \in Workers :
                     q # p \/ v # w => worker'[q][v] = worker[q][v]
    BY <1>6 DEF Crews, Memory
  <1>7. \A v \in Workers : worker[p][v].pc = "run" =>
            /\ ConnOfTask(Task(p, v)) \in locked[p]
            /\ worker[p][w].pc = "run" /\ v # w =>
                  ConnOfTask(Task(p, v)) # ConnOfTask(Task(p, w))
    BY DEF Crews, Locks, OneRunPerConnector
  <1>8. CASE /\ worker[p][w].pc = "idle" /\ queue[p] # <<>>
             /\ worker' = [worker EXCEPT ![p][w] = [pc |-> "get", task |-> Head(queue[p])]]
             /\ queue' = [queue EXCEPT ![p] = Tail(queue[p])] /\ UNCHANGED locked
    <2>1. queue[p] \in Seq(Tasks) /\ Len(queue[p]) <= QueueSize
      BY DEF Crews, Memory
    <2>2. /\ Head(queue[p]) = queue[p][1] /\ 1 \in 1..Len(queue[p])
          /\ Head(queue[p]) \in Tasks
          /\ Tail(queue[p]) \in Seq(Tasks) /\ Len(Tail(queue[p])) <= QueueSize
          /\ \A i \in 1..Len(Tail(queue[p])) :
                i + 1 \in 1..Len(queue[p]) /\ Tail(queue[p])[i] = queue[p][i + 1]
      BY <1>8, <2>1
    <2>3. /\ queue'[p] = Tail(queue[p]) /\ \A q \in Procs \ {p} : queue'[q] = queue[q]
          /\ queue' \in [Procs -> Seq(Tasks)]
          /\ \A q \in Procs : Len(queue'[q]) <= QueueSize
      BY <1>8, <2>2 DEF Crews, Memory
    <2>4. \A q \in Procs : HeldQueue(q)'
      <3>1. HeldQueue(p)'
        BY <2>2, <2>3, KeptUsed DEF HeldQueue, Crews, Held
      <3>2. \A q \in Procs \ {p} : HeldQueue(q)'
        BY <2>3, KeptUsed DEF HeldQueue, Crews, Held
      <3> QED
        BY <3>1, <3>2
    <2> DEFINE x == [pc |-> "get", task |-> Head(queue[p])]
    <2>5. x \in WorkerStates /\ x.pc = "get" /\ x.task = Head(queue[p])
      BY <2>2 DEF WorkerStates
    <2>6. Head(queue[p]) \in Used'
      BY <2>2, KeptUsed DEF HeldQueue, Crews, Held
    <2> HIDE DEF x
    <2>7. worker' = [worker EXCEPT ![p][w] = x]
      BY <1>8 DEF x
    <2>8. HeldWorker(p, w)' /\ worker'[p][w].pc # "run"
      BY <2>5, <2>6, <2>7, <1>6 DEF HeldWorker
    <2>9. Held' /\ Locks' /\ OneRunPerConnector'
      BY <1>1, <1>6, <1>7, <1>8, <2>4, <2>5, <2>7, <2>8, WorkerChanges
    <2> QED
      BY <1>1, <1>2, <1>6, <1>8, <2>3, <2>5, <2>7, <2>9 DEF Crews, Memory
  <1>9. CASE UNCHANGED queue /\ worker[p][w].pc # "idle"
    <2>1. \A q \in Procs : HeldQueue(q)'
      BY <1>9, SameQueues DEF Crews
    <2>2. ASSUME worker[p][w].pc = "get", UNCHANGED locked,
                 worker' = [worker EXCEPT ![p][w] = [pc |-> "lock", task |-> Task(p, w)]]
          PROVE  Crews'
      <3>1. [pc |-> "lock", task |-> Task(p, w)] \in WorkerStates
        BY <1>5, <1>9 DEF WorkerStates
      <3>2. HeldWorker(p, w)' /\ worker'[p][w].pc # "run"
        BY <2>2, <3>1, <1>5, <1>6, KeptUsed DEF HeldWorker
      <3>3. Held' /\ Locks' /\ OneRunPerConnector'
        BY <1>1, <1>6, <1>7, <2>1, <2>2, <3>1, <3>2, WorkerChanges
      <3> QED
        BY <1>1, <1>2, <1>6, <1>9, <2>2, <3>1, <3>3 DEF Crews, Memory
    <2>3. ASSUME worker[p][w].pc = "lock", ConnOfTask(Task(p, w)) \notin locked[p],
                 locked' = [locked EXCEPT ![p] = @ \cup {ConnOfTask(Task(p, w))}],
                 worker' = [worker EXCEPT ![p][w] = [pc |-> "run", task |-> Task(p, w)]]
          PROVE  Crews'
      <3>1. [pc |-> "run", task |-> Task(p, w)] \in WorkerStates
        BY <1>5, <1>9 DEF WorkerStates
      <3>2. HeldWorker(p, w)' /\ Task(p, w)' = Task(p, w)
        BY <2>3, <3>1, <1>5, <1>6, KeptUsed DEF HeldWorker, Task
      <3>3. ConnOfTask(Task(p, w))' = ConnOfTask(Task(p, w))
        BY <3>2, <1>5, <1>9, KeptConn DEF ConnOfTask, LinkOfTask, JobOf, Kept, Used
      <3>4. /\ locked' \in [Procs -> SUBSET Conns]
            /\ \A q \in Procs \ {p} : locked'[q] = locked[q]
            /\ locked'[p] = locked[p] \cup {ConnOfTask(Task(p, w))}
        BY <2>3, <1>5 DEF Crews, Memory
      <3>5. \A v \in Workers \ {w} : worker[p][v].pc = "run" =>
               /\ ConnOfTask(Task(p, v)) \in locked'[p]
               /\ worker'[p][w].pc = "run" =>
                     ConnOfTask(Task(p, v)) # ConnOfTask(Task(p, w))'
        BY <1>7, <2>3, <3>3, <3>4
      <3>6. Held' /\ Locks' /\ OneRunPerConnector'
        BY <1>1, <1>6, <2>1, <2>3, <3>1, <3>2, <3>3, <3>4, <3>5, WorkerChanges
      <3> QED
        BY <1>1, <1>2, <1>6, <1>9, <2>3, <3>1, <3>4, <3>6 DEF Crews, Memory
    <2>4. ASSUME worker' = [worker EXCEPT ![p][w] = IdleWorker],
                 IF worker[p][w].pc = "run"
                 THEN locked' = [locked EXCEPT ![p] = @ \ {ConnOfTask(Task(p, w))}]
                 ELSE UNCHANGED locked
          PROVE  Crews'
      <3>1. HeldWorker(p, w)' /\ worker'[p][w].pc # "run"
        BY <2>4, <1>3, <1>6 DEF HeldWorker, IdleWorker
      <3>2. /\ locked' \in [Procs -> SUBSET Conns]
            /\ \A q \in Procs \ {p} : locked'[q] = locked[q]
            /\ locked'[p] = IF worker[p][w].pc = "run"
                            THEN locked[p] \ {ConnOfTask(Task(p, w))} ELSE locked[p]
        <4>1. locked \in [Procs -> SUBSET Conns]
          BY DEF Crews, Memory
        <4>2. CASE worker[p][w].pc = "run"
          BY <2>4, <4>1, <4>2
        <4>3. CASE worker[p][w].pc # "run"
          BY <2>4, <4>1, <4>3
        <4> QED
          BY <4>2, <4>3
      <3>3. \A v \in Workers \ {w} : worker[p][v].pc = "run" =>
               ConnOfTask(Task(p, v)) \in locked'[p]
        BY <1>7, <3>2
      <3>4. Held' /\ Locks' /\ OneRunPerConnector'
        BY <1>1, <1>3, <1>6, <2>1, <2>4, <3>1, <3>2, <3>3, WorkerChanges
      <3> QED
        BY <1>1, <1>2, <1>3, <1>6, <1>9, <2>4, <3>2, <3>4 DEF Crews, Memory
    <2> QED
      BY <1>9, <2>2, <2>3, <2>4, WorkerMoves
  <1> QED
    BY <1>8, <1>9, WorkerMoves

LEMMA ProcessCrews ==
    ASSUME Tables, Kept, Crews, NEW p \in Procs, ProcessStep(p)
    PROVE  Crews'
  <1> USE SyncAssumption
  <1>1. CASE Stop(p) \/ Restart(p)
    <2>1. /\ UNCHANGED <<scan, queue, worker, last, locked, faults, stopping, reissued,
                        deployment>>
          /\ exits' = exits \/ (exits < MaxExits /\ exits' = exits + 1)
          /\ mode' \in [Procs -> {"up", "draining", "down"}]
      BY <1>1 DEF Stop, Restart, Crews, Memory
    <2>2. exits' \in 0..MaxExits /\ MaxExits' = MaxExits /\ MaxFaults' = MaxFaults
      BY <2>1, DeploymentTypes DEF Crews, Memory, MaxExits, MaxFaults
    <2>3. HeldScan(p)' /\ \A q \in Procs : HeldQueue(q)'
      BY <2>1, KeptUsed, SameQueues DEF Crews, Held, HeldScan
    <2>4. Held' /\ Locks' /\ OneRunPerConnector'
      BY <2>1, <2>3, ScanChanges DEF Crews, Memory
    <2> QED
      BY <2>1, <2>2, <2>4 DEF Crews, Memory
  <1>2. CASE LoseMemory(p) /\ (exits' = exits \/ (exits < MaxExits /\ exits' = exits + 1))
    <2>1. IdleScan \in ScanStates /\ IdleWorker \in WorkerStates
      BY DEF IdleScan, ScanStates, IdleWorker, WorkerStates
    <2>2. /\ UNCHANGED <<faults, stopping, reissued, deployment>>
          /\ exits' \in 0..MaxExits /\ MaxExits' = MaxExits /\ MaxFaults' = MaxFaults
      BY <1>2, DeploymentTypes DEF LoseMemory, Crews, Memory, MaxExits, MaxFaults
    <2>3. /\ mode' \in [Procs -> {"up", "draining", "down"}]
          /\ scan' \in [Procs -> ScanStates]
          /\ queue' \in [Procs -> Seq(Tasks)]
          /\ worker' \in [Procs -> [Workers -> WorkerStates]]
          /\ locked' \in [Procs -> SUBSET Conns] /\ last' \in [Procs -> SUBSET Workers]
      BY <1>2, <2>1 DEF LoseMemory, Crews, Memory
    <2>4. /\ scan'[p] = IdleScan /\ queue'[p] = <<>>
          /\ \A w \in Workers : worker'[p][w] = IdleWorker
          /\ \A q \in Procs \ {p} : /\ scan'[q] = scan[q] /\ queue'[q] = queue[q]
                                    /\ worker'[q] = worker[q] /\ locked'[q] = locked[q]
      BY <1>2 DEF LoseMemory, Crews, Memory
    <2>5. \A q \in Procs : Len(queue'[q]) <= QueueSize
      <3>1. Len(queue'[p]) = 0
        BY <2>4
      <3>2. \A q \in Procs \ {p} : Len(queue'[q]) <= QueueSize
        BY <2>4 DEF Crews, Memory
      <3> QED
        BY <3>1, <3>2
    <2>6. HeldScan(p)' /\ HeldQueue(p)' /\ \A w \in Workers : HeldWorker(p, w)'
      BY <2>4 DEF HeldScan, HeldQueue, HeldWorker, IdleScan, IdleWorker
    <2>7. ASSUME NEW q \in Procs \ {p}
          PROVE  HeldScan(q)' /\ HeldQueue(q)' /\ \A w \in Workers : HeldWorker(q, w)'
      <3>1. HeldScan(q)'
        BY <2>4, KeptUsed DEF Crews, Held, HeldScan
      <3>2. HeldQueue(q)'
        BY <2>4, KeptUsed DEF Crews, Held, HeldQueue
      <3>3. \A w \in Workers : HeldWorker(q, w)'
        BY <2>4, KeptUsed DEF Crews, Held, HeldWorker
      <3> QED
        BY <3>1, <3>2, <3>3
    <2>8. \A q \in Procs \ {p} : \A w \in Workers : worker[q][w].pc = "run" =>
              ConnOfTask(Task(q, w))' = ConnOfTask(Task(q, w))
      <3> SUFFICES ASSUME NEW q \in Procs \ {p}, NEW w \in Workers,
                          worker[q][w].pc = "run"
                   PROVE  ConnOfTask(Task(q, w))' = ConnOfTask(Task(q, w))
        OBVIOUS
      <3>1. Task(q, w) \in Used /\ Task(q, w)' = Task(q, w)
        BY <2>4 DEF Crews, Held, HeldWorker, Task
      <3> QED
        BY <3>1, KeptConn DEF ConnOfTask, LinkOfTask, JobOf, Kept, Used
    <2>9. Locks'
      BY <2>4, <2>8 DEF Crews, Locks, IdleWorker
    <2>10. OneRunPerConnector'
      BY <2>4, <2>8 DEF Crews, OneRunPerConnector, IdleWorker
    <2>11. Held'
      BY <2>6, <2>7 DEF Held
    <2> QED
      BY <2>2, <2>3, <2>5, <2>9, <2>10, <2>11 DEF Crews, Memory
  <1> QED
    BY <1>1, <1>2 DEF ProcessStep, Exit, Crash

LEMMA QuietCrews ==
    ASSUME Tables, Kept, Crews, stopping' \subseteq Conns,
           UNCHANGED <<procVars, faults, reissued, deployment>>
    PROVE  Crews'
  <1>1. UNCHANGED <<mode, scan, queue, worker, last, locked, exits, faults, reissued,
                    deployment>>
    BY DEF procVars
  <1>2. Held'
    <2>1. \A q \in Procs : HeldScan(q)'
      BY <1>1, KeptUsed DEF Crews, Held, HeldScan
    <2>2. \A q \in Procs : HeldQueue(q)'
      BY <1>1, SameQueues DEF Crews
    <2> QED
      BY <1>1, <2>1, <2>2, SameWorkers DEF Held
  <1>3. Memory'
    BY <1>1 DEF Crews, Memory, MaxExits, MaxFaults
  <1> QED
    BY <1>1, <1>2, <1>3, SameWorkers DEF Crews

\* Steps that leave the rows as they are.
TimeStep ==
    \/ \E t \in Tasks : Expire(t) \/ Mature(t)
    \/ \E c \in Conns : UpdateConnector(c)

LEMMA NextCrews ==
    ASSUME Tables, Kept, Crews, [Next]_vars
    PROVE  Crews'
  <1>1. CASE UserStep
    <2>1. stopping' \subseteq Conns
      BY <1>1 DEF UserStep, CancelRunningOrScheduledLogs, CancelConnector,
                  ScheduleConnectorTasks, RebuildConnector, Link, Unlink, Crews, Memory
    <2>2. UNCHANGED procRest
      BY <1>1 DEF UserStep, CancelRunningOrScheduledLogs, CancelConnector,
                  ScheduleConnectorTasks, RebuildConnector, Link, Unlink
    <2> QED
      BY <2>1, <2>2, QuietCrews DEF procRest, procVars
  <1>2. CASE TimeStep \/ UNCHANGED vars
    <2>1. stopping' \subseteq Conns
      BY <1>2 DEF TimeStep, Expire, Mature, UpdateConnector, vars, Crews, Memory
    <2> QED
      BY <1>2, <2>1, QuietCrews
      DEF TimeStep, Expire, Mature, UpdateConnector, procRest, vars, procVars
  <1> QED
    BY <1>1, <1>2, ScanCrews, WorkerCrews, ProcessCrews DEF Next, Step, TimeStep

\* The order and the age of rows and the configuration.
Stamps ==
    /\ off \subseteq Conns
    /\ newer \in [Tasks -> SUBSET Tasks]
    /\ early \subseteq {t \in Tasks : row[t].st = "schedule"}

LEMMA NextStamps == Stamps /\ [Next]_vars => Stamps'
  <1> SUFFICES ASSUME Stamps, [Next]_vars PROVE Stamps'
    OBVIOUS
  <1>1. CASE Stamp
    <2>1. off' = off
      BY <1>1 DEF Stamp
    <2>2. newer' \in [Tasks -> SUBSET Tasks]
      BY <1>1 DEF Stamp, Stamps
    <2>3. early' \subseteq {t \in Tasks : row'[t].st = "schedule"}
      BY <1>1 DEF Stamp
    <2> QED
      BY <2>1, <2>2, <2>3 DEF Stamps
  <1>2. ASSUME NEW c \in Conns, UpdateConnector(c)
        PROVE  Stamps'
    BY <1>2 DEF UpdateConnector, dbVars, Stamps
  <1>3. ASSUME NEW t \in Tasks, Mature(t)
        PROVE  Stamps'
    BY <1>3 DEF Mature, dbVars, Stamps
  <1>4. CASE UNCHANGED vars
    BY <1>4 DEF vars, Stamps
  <1> QED
    BY <1>1, <1>2, <1>3, <1>4 DEF Next

IInv == Tables /\ Crews /\ Stamps

LEMMA InitIInv == Init => IInv
  <1> SUFFICES ASSUME Init PROVE IInv
    OBVIOUS
  <1> USE SyncAssumption
  <1>1. \A t \in Tasks : \/ row[t] = Unused
                         \/ row[t].st = "schedule" /\ row[t].job \in Jobs /\ row[t] \in LogType
    BY DEF Init, LogType, Statuses
  <1>2. row \in [Tasks -> LogType] /\ Named
    BY <1>1, UnusedRow DEF Init, Named
  <1>3. \A j \in Jobs : Off(j) \/ \E t \in Tasks : row[t].job = j
    <2> SUFFICES ASSUME NEW j \in Jobs, ~Off(j), \A t \in Tasks : row[t].job # j
                 PROVE  FALSE
      OBVIOUS
    <2>1. {t \in Tasks : row[t].job = j} = {}
      OBVIOUS
    <2>2. Cardinality({t \in Tasks : row[t].job = j}) = 1
      BY DEF Init
    <2>3. Cardinality({t \in Tasks : row[t].job = j}) = 0
      BY <2>1, FS_EmptySet, Zenon
    <2> QED
      BY <2>2, <2>3
  <1>4. ChainAlive
    <2> SUFFICES ASSUME NEW j \in Jobs, j \notin broken
                 PROVE  \E t \in Tasks : Live(t) /\ JobOf(t) = j
      BY DEF ChainAlive
    <2>1. PICK t \in Tasks : row[t].job = j
      BY <1>3 DEF Init
    <2>2. row[t].st = "schedule"
      BY <1>1, <2>1, UnusedRow
    <2> QED
      BY <2>1, <2>2 DEF Live, JobOf
  <1>5. Tables
    BY <1>2, <1>4 DEF Init, Tables, Statuses
  <1>6. IdleScan \in ScanStates /\ IdleWorker \in WorkerStates
    BY DEF IdleScan, ScanStates, IdleWorker, WorkerStates
  <1>7. Memory
    BY <1>6, DeploymentTypes DEF Init, Memory
  <1>8. Held
    BY DEF Init, Held, HeldScan, HeldQueue, HeldWorker, IdleScan, IdleWorker
  <1>9. Locks /\ OneRunPerConnector
    BY DEF Init, Locks, OneRunPerConnector, IdleWorker
  <1>10. Stamps
    BY <1>1 DEF Init, Stamps
  <1> QED
    BY <1>5, <1>7, <1>8, <1>9, <1>10 DEF IInv, Crews

LEMMA NextIInv == IInv /\ [Next]_vars => IInv'
  BY NextTables, NextCrews, NextStamps DEF IInv, Crews

LEMMA SpecIInv == Spec => []IInv
  BY InitIInv, NextIInv, PTL DEF Spec

\* Every variable keeps its type, queues stay within QueueSize, only running
\* rows expire and only scheduled rows wait to be due, for any deployment.
THEOREM Types == Spec => []TypeOK
  <1>1. IInv => TypeOK
    BY DEF IInv, Tables, Crews, Memory, Stamps, TypeOK, LogType, ScanStates, WorkerStates
  <1> QED
    BY <1>1, SpecIInv, PTL

\* ConnectorLock works: two workers of a process never run the same connector,
\* whatever users do to the rows they hold.
THEOREM RunsAreSerial == Spec => []OneRunPerConnector
  BY SpecIInv, PTL DEF IInv, Crews

\* No interleaving of users, scans, workers, failures and crashes loses the
\* chain of a linked job.
THEOREM ChainsSurvive == Spec => []ChainAlive
  BY SpecIInv, PTL DEF IInv, Tables
-----------------------------------------------------------------------------
(* One holder of a row.                                                     *)

InScan(p, t)     == scan[p].task = t
InQueue(p, i, t) == i \in 1..Len(queue[p]) /\ queue[p][i] = t
InWork(p, w, t)  == worker[p][w].task = t

Free(t) ==
    \A p \in Procs : /\ ~InScan(p, t)
                     /\ \A i \in Nat : ~InQueue(p, i, t)
                     /\ \A w \in Workers : ~InWork(p, w, t)

OneHolder(t) ==
    \A p, q \in Procs :
        /\ InScan(p, t) /\ InScan(q, t) => p = q
        /\ \A i, j \in Nat : InQueue(p, i, t) /\ InQueue(q, j, t) => p = q /\ i = j
        /\ \A v, w \in Workers : InWork(p, v, t) /\ InWork(q, w, t) => p = q /\ v = w
        /\ \A i \in Nat : ~(InScan(p, t) /\ InQueue(q, i, t))
        /\ \A w \in Workers : ~(InScan(p, t) /\ InWork(q, w, t))
        /\ \A i \in Nat, w \in Workers : ~(InQueue(p, i, t) /\ InWork(q, w, t))

\* A row that can still be claimed is held by nobody.
Claimable == {"schedule", "unused"}
Exclusive ==
    \A t \in Tasks \ reissued :
        OneHolder(t) /\ (row[t].st \in Claimable => Free(t))

LEMMA ExclusiveCounts == Exclusive => ExclusiveClaim
  <1> SUFFICES ASSUME Exclusive, NEW t \in Tasks, t \notin reissued
               PROVE  Cardinality({p \in Procs : scan[p].task = t})
                        + Cardinality({h \in Procs \X (1..QueueSize) :
                              h[2] <= Len(queue[h[1]]) /\ queue[h[1]][h[2]] = t})
                        + Cardinality({h \in Procs \X Workers : Task(h[1], h[2]) = t}) <= 1
    BY DEF ExclusiveClaim
  <1> DEFINE S == {p \in Procs : scan[p].task = t}
             Q == {h \in Procs \X (1..QueueSize) :
                     h[2] <= Len(queue[h[1]]) /\ queue[h[1]][h[2]] = t}
             W == {h \in Procs \X Workers : Task(h[1], h[2]) = t}
  <1>1. OneHolder(t)
    BY DEF Exclusive
  <1>2. \A p \in S : p \in Procs /\ InScan(p, t)
    BY DEF InScan
  <1>3. \A h \in Q : /\ h[1] \in Procs /\ h[2] \in Nat /\ InQueue(h[1], h[2], t)
                     /\ h = <<h[1], h[2]>>
    BY SyncAssumption DEF InQueue
  <1>4. \A h \in W : /\ h[1] \in Procs /\ h[2] \in Workers /\ InWork(h[1], h[2], t)
                     /\ h = <<h[1], h[2]>>
    BY DEF InWork, Task
  <1> HIDE DEF S, Q, W
  <1>5. \A p, q \in S : p = q
    BY <1>1, <1>2 DEF OneHolder
  <1>6. \A g, h \in Q : g = h
    BY <1>1, <1>3 DEF OneHolder
  <1>7. \A g, h \in W : g = h
    BY <1>1, <1>4 DEF OneHolder
  <1>8. (S = {} \/ Q = {}) /\ (S = {} \/ W = {}) /\ (Q = {} \/ W = {})
    BY <1>1, <1>2, <1>3, <1>4 DEF OneHolder
  <1>9. ASSUME NEW A, \A x, y \in A : x = y
        PROVE  Cardinality(A) = 0 \/ Cardinality(A) = 1
    <2>1. CASE A = {}
      BY <2>1, FS_EmptySet
    <2>2. CASE A # {}
      <3>1. PICK x : x \in A
        BY <2>2
      <3>2. A = {x}
        BY <3>1, <1>9
      <3> QED
        BY <3>2, FS_Singleton
    <2> QED
      BY <2>1, <2>2
  <1>10. Cardinality({}) = 0
    BY FS_EmptySet
  <1>11. Cardinality(S) + Cardinality(Q) + Cardinality(W) <= 1
    <2>1. /\ Cardinality(S) \in {0, 1} /\ Cardinality(Q) \in {0, 1}
          /\ Cardinality(W) \in {0, 1}
      BY <1>5, <1>6, <1>7, <1>9
    <2>2. /\ Cardinality(S) = 0 \/ Cardinality(Q) = 0
          /\ Cardinality(S) = 0 \/ Cardinality(W) = 0
          /\ Cardinality(Q) = 0 \/ Cardinality(W) = 0
      BY <1>8, <1>10
    <2> QED
      BY <2>1, <2>2
  <1> QED
    BY <1>11 DEF S, Q, W

\* A step after which nobody holds a row that they did not hold before.
NoNewHolder(t) ==
    \A p \in Procs : /\ InScan(p, t)' => InScan(p, t)
                     /\ \A i \in Nat : InQueue(p, i, t)' => InQueue(p, i, t)
                     /\ \A w \in Workers : InWork(p, w, t)' => InWork(p, w, t)

LEMMA FewerHolders ==
    ASSUME NEW t, NoNewHolder(t)
    PROVE  /\ OneHolder(t) => OneHolder(t)'
           /\ Free(t) => Free(t)'
  <1>1. OneHolder(t) => OneHolder(t)'
    BY DEF NoNewHolder, OneHolder
  <1>2. Free(t) => Free(t)'
    BY DEF NoNewHolder, Free
  <1> QED
    BY <1>1, <1>2

\* What becomes claimable: nothing, but for a row that its worker gives back.
LEMMA CreatesClaimable ==
    ASSUME deployment \in Deployments, NEW js, js \subseteq Jobs,
           NEW r, r \in [Tasks -> LogType], row' \in Scheduled(r, js),
           \A t \in Tasks : r[t].st \in Claimable => row[t].st \in Claimable
    PROVE  \A t \in Tasks : row'[t].st \in Claimable => row[t].st \in Claimable
  <1>1. \A t \in Tasks : row'[t] = r[t] \/ r[t] = Unused
    BY ScheduledRows
  <1> QED
    BY <1>1, UnusedRow DEF Claimable

LEMMA UserClaimable ==
    ASSUME Tables, deployment \in Deployments, UserStep
    PROVE  \A t \in Tasks : row'[t].st \in Claimable => row[t].st \in Claimable
  <1>1. ASSUME NEW js,
               row' = [t \in Tasks |-> IF Live(t) /\ JobOf(t) \in js
                                       THEN [row[t] EXCEPT !.st = "cancel"] ELSE row[t]]
        PROVE  \A t \in Tasks : row'[t].st \in Claimable => row[t].st \in Claimable
    BY <1>1 DEF Claimable, Tables, LogType
  <1>2. ASSUME NEW c \in Conns, ScheduleConnectorTasks(c)
        PROVE  \A t \in Tasks : row'[t].st \in Claimable => row[t].st \in Claimable
    <2> DEFINE js == {j \in JobsOf(c) : LinkOf[j] \in linked /\ ~Off(j)}
    <2>1. js \subseteq Jobs /\ row \in [Tasks -> LogType]
      BY JobsOfType DEF Tables
    <2>2. row' \in Scheduled(row, js)
      BY <1>2 DEF ScheduleConnectorTasks
    <2> HIDE DEF js
    <2> QED
      BY <2>1, <2>2, CreatesClaimable
  <1>3. ASSUME NEW l \in Links, RebuildConnector(l)
        PROVE  \A t \in Tasks : row'[t].st \in Claimable => row[t].st \in Claimable
    <2> DEFINE js   == JobsAt(l)
               on   == {j \in js : ~Off(j)}
               kept == [t \in Tasks |-> IF JobOf(t) \in js
                                        THEN [row[t] EXCEPT !.st = "gone"] ELSE row[t]]
    <2>1. row' \in Scheduled(kept, on) /\ js \subseteq Jobs /\ on \subseteq Jobs
      BY <1>3, JobsOfType DEF RebuildConnector
    <2>2. kept \in [Tasks -> LogType]
      BY DEF Tables, LogType, Statuses
    <2>3. \A t \in Tasks : kept[t].st \in Claimable => row[t].st \in Claimable
      BY DEF Tables, LogType, Claimable
    <2> HIDE DEF kept, on, js
    <2> QED
      BY <2>1, <2>2, <2>3, CreatesClaimable
  <1>4. ASSUME NEW l \in Links, Link(l)
        PROVE  \A t \in Tasks : row'[t].st \in Claimable => row[t].st \in Claimable
    <2> DEFINE on == {j \in JobsAt(l) : ~Off(j)}
    <2>1. on \subseteq Jobs /\ row \in [Tasks -> LogType]
      BY JobsOfType DEF Tables
    <2>2. row' \in Scheduled(row, on)
      BY <1>4 DEF Link
    <2> HIDE DEF on
    <2> QED
      BY <2>1, <2>2, CreatesClaimable
  <1>5. ASSUME NEW c \in Conns, CancelConnector(c)
        PROVE  \A t \in Tasks : row'[t].st \in Claimable => row[t].st \in Claimable
    BY <1>5 DEF CancelConnector
  <1>6. ASSUME NEW c \in Conns, CancelRunningOrScheduledLogs(c)
        PROVE  \A t \in Tasks : row'[t].st \in Claimable => row[t].st \in Claimable
    BY <1>6, <1>1 DEF CancelRunningOrScheduledLogs
  <1>7. ASSUME NEW l \in Links, Unlink(l)
        PROVE  \A t \in Tasks : row'[t].st \in Claimable => row[t].st \in Claimable
    BY <1>7, <1>1 DEF Unlink
  <1> QED
    BY <1>2, <1>3, <1>4, <1>5, <1>6, <1>7 DEF UserStep

LEMMA WorkerClaimable ==
    ASSUME Tables, Memory, Held, NEW p \in Procs, NEW w \in Workers, WorkerStep(p, w),
           NEW t \in Tasks, row'[t].st \in Claimable, row[t].st \notin Claimable
    PROVE  t = Task(p, w) /\ worker' = [worker EXCEPT ![p][w] = IdleWorker]
  <1> DEFINE u == Task(p, w)
  <1>1. CASE RescheduleClaimed(u) /\ EndHandle(p, w)
    BY <1>1 DEF RescheduleClaimed, WithStatus, EndHandle, dbVars, Tables
  <1>2. CASE \E b \in BOOLEAN : FailTask(u, b)
    BY <1>2 DEF FailTask, WithStatus, Claimable, Tables, LogType
  <1>3. CASE CompleteTask(u) /\ worker[p][w].pc # "idle"
    <2>1. u \in Tasks /\ row[u].st # "unused"
      BY <1>3, HoldsUsed
    <2> DEFINE done == IF IsRow(u) THEN WithStatus(u, "done") ELSE row
    <2>2. row' \in Scheduled(done, {JobOf(u)}) /\ {JobOf(u)} \subseteq Jobs
      BY <1>3, <2>1, UnusedRow DEF CompleteTask, Tables, Named, JobOf
    <2>3. done \in [Tasks -> LogType]
      BY <2>1 DEF Tables, WithStatus, LogType, Statuses
    <2>4. \A v \in Tasks : done[v].st \in Claimable => row[v].st \in Claimable
      BY DEF WithStatus, Claimable, Tables, LogType
    <2> HIDE DEF done
    <2> QED
      BY <2>2, <2>3, <2>4, CreatesClaimable DEF Memory
  <1>4. ~UNCHANGED dbVars
    BY DEF dbVars
  <1>5. CASE CompleteLast(u)
    BY <1>5 DEF CompleteLast, WithStatus, Claimable, Tables, LogType
  <1> QED
    BY <1>1, <1>2, <1>3, <1>4, <1>5
    DEF WorkerStep, Take, GetContext, GetContextFails, TryLock, Complete, Fail,
        FinalWriteFails, At

\* A step that adds no holder and makes no row claimable.
LEMMA QuietHolders ==
    ASSUME Exclusive, reissued \subseteq reissued', \A t \in Tasks : NoNewHolder(t),
           \A t \in Tasks \ reissued' : row'[t].st \in Claimable => row[t].st \in Claimable
    PROVE  Exclusive'
  BY FewerHolders DEF Exclusive

LEMMA NoTaskHeld ==
    ASSUME Crews, NEW t \in Tasks
    PROVE  /\ \A p \in Procs : scan[p].pc \notin {"mark", "push"} => ~InScan(p, t)
           /\ \A p \in Procs : \A w \in Workers :
                 worker[p][w].pc = "idle" => ~InWork(p, w, t)
           /\ IdleScan.task # t /\ IdleWorker.task # t
  BY SyncAssumption
  DEF Crews, Held, HeldScan, HeldWorker, InScan, InWork, IdleScan, IdleWorker

LEMMA ScanExclusive ==
    ASSUME Tables, Crews, Exclusive, NEW p \in Procs, ScanStep(p)
    PROVE  Exclusive'
  <1>1. /\ UNCHANGED worker /\ reissued \subseteq reissued'
        /\ \A q \in Procs \ {p} : scan'[q] = scan[q]
    BY DEF ScanStep, RecoverStaleRunning, Recover, RecoverConnectors, ListDueTasks,
           ClaimTask, MarkConnectorRunning, Push, EndScan, ScanFails, Crews, Memory,
           quietVars, otherVars
  <1>2. ASSUME NEW t \in Tasks \ reissued', ~(ClaimTask(p) /\ row[t].st \in Claimable),
               row'[t].st \in Claimable
        PROVE  row[t].st \in Claimable
    <2>1. CASE Recover(p)
      <3>1. PICK u \in scan[p].todo :
              /\ RescheduleClaimed(u)
              /\ reissued' = IF row[u].st = "running" THEN reissued \cup {u} ELSE reissued
        BY <2>1 DEF Recover
      <3>2. t # u \/ row[u].st # "running"
        BY <3>1
      <3> QED
        BY <1>2, <3>1, <3>2 DEF RescheduleClaimed, WithStatus, dbVars, Tables
    <2>2. CASE ClaimTask(p)
      BY <1>2, <2>2 DEF ClaimTask, WithStatus, Claimable, Tables, LogType
    <2> QED
      BY <1>2, <2>1, <2>2
      DEF ScanStep, RecoverStaleRunning, RecoverConnectors, ListDueTasks,
          MarkConnectorRunning, Push, EndScan, ScanFails, dbVars
  <1>3. CASE UNCHANGED queue /\ (\A t \in Tasks : InScan(p, t)' => InScan(p, t))
    <2>1. \A t \in Tasks : NoNewHolder(t)
      BY <1>1, <1>3 DEF NoNewHolder, InScan, InQueue, InWork
    <2> QED
      BY <1>1, <1>2, <2>1, QuietHolders
  <1>4. CASE RecoverStaleRunning(p) \/ ListDueTasks(p) \/ EndScan(p)
    <2>1. ASSUME RecoverStaleRunning(p)
          PROVE  UNCHANGED queue /\ scan'[p].task = NoTask
      BY <2>1 DEF RecoverStaleRunning, IdleScan, Crews, Memory
    <2>2. ASSUME ListDueTasks(p)
          PROVE  UNCHANGED queue /\ scan'[p].task = NoTask
      BY <2>2 DEF ListDueTasks, IdleScan, Crews, Memory
    <2>3. ASSUME EndScan(p)
          PROVE  UNCHANGED queue /\ scan'[p].task = NoTask
      BY <2>3 DEF EndScan, IdleScan, Crews, Memory
    <2>4. UNCHANGED queue /\ scan'[p].task = NoTask
      BY <1>4, <2>1, <2>2, <2>3
    <2> QED
      BY <2>4, <1>3, SyncAssumption DEF InScan
  <1>5. CASE Recover(p) \/ RecoverConnectors(p)
    <2>1. UNCHANGED queue /\ scan'[p].task = scan[p].task
      BY <1>5 DEF Recover, RecoverConnectors, Crews, Memory, ScanStates
    <2> QED
      BY <2>1, <1>3 DEF InScan
  <1>6. CASE MarkConnectorRunning(p) \/ ScanFails(p)
    <2>1. UNCHANGED queue /\ scan'[p].task \in {scan[p].task, NoTask}
      BY <1>6 DEF MarkConnectorRunning, ScanFails, IdleScan, Crews, Memory, ScanStates
    <2> QED
      BY <2>1, <1>3, SyncAssumption DEF InScan
  <1>7. CASE ClaimTask(p)
    <2>1. PICK t \in scan[p].todo :
            IF row[t].st = "schedule"
            THEN /\ row' = WithStatus(t, "running")
                 /\ scan' = [scan EXCEPT ![p].pc = "mark", ![p].task = t, ![p].todo = @ \ {t}]
            ELSE scan' = [scan EXCEPT ![p].todo = @ \ {t}] /\ UNCHANGED row
      BY <1>7 DEF ClaimTask
    <2>2. UNCHANGED <<queue, reissued>> /\ scan[p].pc = "claim" /\ t \in Tasks
      BY <1>7 DEF ClaimTask, quietVars, Crews, Memory, ScanStates
    <2>3. CASE row[t].st # "schedule"
      <3>1. scan'[p].task = scan[p].task
        BY <2>1, <2>3 DEF Crews, Memory, ScanStates
      <3> QED
        BY <2>2, <3>1, <1>3 DEF InScan
    <2>4. CASE row[t].st = "schedule"
      <3>1. scan'[p].task = t /\ row'[t].st = "running"
            /\ \A u \in Tasks \ {t} : row'[u] = row[u]
        BY <2>1, <2>2, <2>4 DEF Crews, Memory, ScanStates, WithStatus, Tables, LogType
      <3>2. SUFFICES ASSUME NEW u \in Tasks, u \notin reissued
                     PROVE  /\ OneHolder(u)'
                            /\ row'[u].st \in Claimable => Free(u)'
        BY <2>2 DEF Exclusive
      <3>3. OneHolder(u) /\ (row[u].st \in Claimable => Free(u))
        BY <3>2 DEF Exclusive
      <3>4. CASE u # t
        <4>1. NoNewHolder(u)
          BY <1>1, <2>2, <3>1, <3>4 DEF NoNewHolder, InScan, InQueue, InWork
        <4> QED
          BY <3>1, <3>3, <3>4, <4>1, FewerHolders
      <3>5. CASE u = t
        <4>1. Free(t)
          BY <3>3, <3>5, <2>4 DEF Claimable
        <4>2. /\ \A q \in Procs : InScan(q, t)' => q = p
              /\ \A q \in Procs : \A i \in Nat : ~InQueue(q, i, t)'
              /\ \A q \in Procs : \A w \in Workers : ~InWork(q, w, t)'
          BY <4>1, <1>1, <2>2 DEF Free, InScan, InQueue, InWork
        <4>3. OneHolder(t)'
          BY <4>2 DEF OneHolder
        <4> QED
          BY <4>3, <3>1, <3>5 DEF Claimable
      <3> QED
        BY <3>4, <3>5
    <2> QED
      BY <2>3, <2>4
  <1>8. CASE Push(p)
    <2> DEFINE t == scan[p].task
               n == Len(queue[p])
    <2>1. /\ scan'[p].task = NoTask /\ scan[p].pc = "push"
          /\ queue' = [queue EXCEPT ![p] = Append(queue[p], t)]
          /\ UNCHANGED <<row, reissued>>
      BY <1>8 DEF Push, Crews, Memory, ScanStates, dbVars, quietVars
    <2>2. queue[p] \in Seq(Tasks) /\ t \in Tasks
      BY <2>1 DEF Crews, Memory, Held, HeldScan, Used
    <2>3. /\ n \in Nat /\ Len(queue'[p]) = n + 1
          /\ \A i \in 1..n : queue'[p][i] = queue[p][i]
          /\ queue'[p][n + 1] = t
          /\ \A q \in Procs \ {p} : queue'[q] = queue[q]
      BY <2>1, <2>2 DEF Crews, Memory
    <2>4. SUFFICES ASSUME NEW u \in Tasks, u \notin reissued
                   PROVE  OneHolder(u)' /\ (row'[u].st \in Claimable => Free(u)')
      BY <2>1 DEF Exclusive
    <2>5. OneHolder(u) /\ (row[u].st \in Claimable => Free(u))
      BY <2>4 DEF Exclusive
    <2>6. /\ \A q \in Procs : InScan(q, u)' => InScan(q, u) /\ q # p
          /\ \A q \in Procs : \A i \in Nat : InQueue(q, i, u)' =>
                InQueue(q, i, u) \/ (q = p /\ i = n + 1 /\ u = t)
          /\ \A q \in Procs : \A w \in Workers : InWork(q, w, u)' => InWork(q, w, u)
      <3>1. \A q \in Procs : InScan(q, u)' => InScan(q, u) /\ q # p
        BY <1>1, <2>1, SyncAssumption DEF InScan
      <3>2. \A i \in Nat : InQueue(p, i, u)' => InQueue(p, i, u) \/ (i = n + 1 /\ u = t)
        BY <2>3 DEF InQueue
      <3>3. \A q \in Procs \ {p} : \A i \in Nat : InQueue(q, i, u)' => InQueue(q, i, u)
        BY <2>3 DEF InQueue
      <3>4. \A q \in Procs : \A w \in Workers : InWork(q, w, u)' => InWork(q, w, u)
        BY <1>1 DEF InWork
      <3> QED
        BY <3>1, <3>2, <3>3, <3>4
    <2>7. CASE u # t
      <3>1. NoNewHolder(u)
        BY <2>6, <2>7 DEF NoNewHolder
      <3> QED
        BY <2>1, <2>5, <3>1, FewerHolders
    <2>8. CASE u = t
      <3>1. InScan(p, u)
        BY <2>8 DEF InScan
      <3>2. \A q \in Procs : InScan(q, u) => q = p
        BY <2>5, <3>1 DEF OneHolder
      <3>3. \A q \in Procs : /\ \A i \in Nat : ~InQueue(q, i, u)
                             /\ \A w \in Workers : ~InWork(q, w, u)
        BY <2>5, <3>1 DEF OneHolder
      <3>4. /\ \A q \in Procs : ~InScan(q, u)'
            /\ \A q \in Procs : \A i \in Nat : InQueue(q, i, u)' => q = p /\ i = n + 1
            /\ \A q \in Procs : \A w \in Workers : ~InWork(q, w, u)'
        BY <2>6, <3>2, <3>3
      <3>5. OneHolder(u)'
        BY <3>4 DEF OneHolder
      <3>6. row'[u].st \notin Claimable
        BY <2>1, <2>5, <3>1 DEF Free
      <3> QED
        BY <3>5, <3>6
    <2> QED
      BY <2>7, <2>8
  <1> QED
    BY <1>4, <1>5, <1>6, <1>7, <1>8 DEF ScanStep

LEMMA WorkerExclusive ==
    ASSUME Tables, Crews, Exclusive, NEW p \in Procs, NEW w \in Workers, WorkerStep(p, w)
    PROVE  Exclusive'
  <1>1. UNCHANGED <<scan, reissued>>
    BY WorkerMoves
  <1>2. ASSUME NEW x \in WorkerStates, worker' = [worker EXCEPT ![p][w] = x]
        PROVE  /\ worker'[p][w] = x
               /\ \A q \in Procs : \A v \in Workers :
                     q # p \/ v # w => worker'[q][v] = worker[q][v]
    BY <1>2 DEF Crews, Memory
  <1>3. IdleWorker \in WorkerStates
    BY DEF IdleWorker, WorkerStates
  <1>4. CASE worker' = [worker EXCEPT ![p][w] = IdleWorker] /\ UNCHANGED queue
             /\ worker[p][w].pc # "idle"
    <2>1. SUFFICES ASSUME NEW t \in Tasks, t \notin reissued
                   PROVE  OneHolder(t)' /\ (row'[t].st \in Claimable => Free(t)')
      BY <1>1 DEF Exclusive
    <2>2. OneHolder(t) /\ (row[t].st \in Claimable => Free(t))
      BY <2>1 DEF Exclusive
    <2>3. \A q \in Procs : \A v \in Workers :
              InWork(q, v, t)' => InWork(q, v, t) /\ (q # p \/ v # w)
      <3>1. /\ worker'[p][w] = IdleWorker
            /\ \A q \in Procs : \A v \in Workers :
                  q # p \/ v # w => worker'[q][v] = worker[q][v]
        BY <1>2, <1>3, <1>4
      <3>2. IdleWorker.task # t
        BY NoTaskHeld
      <3> QED
        BY <3>1, <3>2 DEF InWork
    <2>4. NoNewHolder(t)
      BY <1>1, <1>4, <2>3 DEF NoNewHolder, InScan, InQueue
    <2>5. OneHolder(t)' /\ (Free(t) => Free(t)')
      BY <2>2, <2>4, FewerHolders
    <2>6. CASE row[t].st \notin Claimable /\ row'[t].st \in Claimable
      <3>1. t = Task(p, w)
        BY <2>6, WorkerClaimable DEF Crews
      <3>2. InWork(p, w, t)
        BY <3>1 DEF InWork, Task
      <3>3. /\ \A q \in Procs : ~InScan(q, t) /\ \A i \in Nat : ~InQueue(q, i, t)
            /\ \A q \in Procs : \A v \in Workers : InWork(q, v, t) => q = p /\ v = w
        BY <2>2, <3>2 DEF OneHolder
      <3>4. Free(t)'
        BY <2>3, <2>4, <3>3 DEF Free, NoNewHolder
      <3> QED
        BY <2>5, <3>4
    <2> QED
      BY <2>2, <2>5, <2>6
  <1>5. ASSUME worker' # [worker EXCEPT ![p][w] = IdleWorker]
        PROVE  \A t \in Tasks \ reissued' : row'[t].st \in Claimable => row[t].st \in Claimable
    BY <1>5, WorkerClaimable DEF Crews
  <1>6. ASSUME NEW x, x \in {"lock", "run"}, worker[p][w].pc # "idle", UNCHANGED queue,
               worker' = [worker EXCEPT ![p][w] = [pc |-> x, task |-> Task(p, w)]]
        PROVE  Exclusive'
    <2>1. Task(p, w) \in Tasks
      BY <1>6, HoldsUsed DEF Crews
    <2>2. [pc |-> x, task |-> Task(p, w)] \in WorkerStates
      BY <1>6, <2>1 DEF WorkerStates
    <2>3. \A t \in Tasks : NoNewHolder(t)
      BY <1>1, <1>2, <1>6, <2>2 DEF NoNewHolder, InScan, InQueue, InWork, Task
    <2>4. worker' # [worker EXCEPT ![p][w] = IdleWorker]
      <3>1. worker'[p][w] = [pc |-> x, task |-> Task(p, w)]
        BY <1>2, <1>6, <2>2
      <3>2. worker'[p][w].pc # IdleWorker.pc
        BY <1>6, <3>1 DEF IdleWorker
      <3> QED
        BY <1>2, <1>3, <3>2
    <2> QED
      BY <1>1, <1>5, <2>3, <2>4, QuietHolders
  <1>7. CASE /\ worker[p][w].pc = "idle" /\ queue[p] # <<>>
             /\ worker' = [worker EXCEPT ![p][w] = [pc |-> "get", task |-> Head(queue[p])]]
             /\ queue' = [queue EXCEPT ![p] = Tail(queue[p])]
    <2> DEFINE t == Head(queue[p])
    <2>1. queue[p] \in Seq(Tasks)
      BY DEF Crews, Memory
    <2>2. /\ t = queue[p][1] /\ 1 \in 1..Len(queue[p]) /\ t \in Tasks
          /\ \A i \in Nat : i \in 1..Len(Tail(queue[p])) =>
                i + 1 \in 1..Len(queue[p]) /\ Tail(queue[p])[i] = queue[p][i + 1]
      BY <1>7, <2>1
    <2>3. queue'[p] = Tail(queue[p]) /\ \A q \in Procs \ {p} : queue'[q] = queue[q]
      BY <1>7 DEF Crews, Memory
    <2>4. [pc |-> "get", task |-> t] \in WorkerStates
      BY <2>2 DEF WorkerStates
    <2>5. /\ worker'[p][w] = [pc |-> "get", task |-> t]
          /\ \A q \in Procs : \A v \in Workers :
                q # p \/ v # w => worker'[q][v] = worker[q][v]
      BY <1>2, <1>7, <2>4
    <2>6. worker' # [worker EXCEPT ![p][w] = IdleWorker]
      BY <1>2, <1>3, <2>5 DEF IdleWorker
    <2>7. SUFFICES ASSUME NEW u \in Tasks, u \notin reissued
                   PROVE  OneHolder(u)' /\ (row'[u].st \in Claimable => Free(u)')
      BY <1>1 DEF Exclusive
    <2>8. /\ OneHolder(u) /\ (row[u].st \in Claimable => Free(u))
          /\ row'[u].st \in Claimable => row[u].st \in Claimable
      BY <1>1, <1>5, <2>6, <2>7 DEF Exclusive
    <2>9. \A q \in Procs : InScan(q, u)' => InScan(q, u)
      BY <1>1 DEF InScan
    <2>10. /\ \A i \in Nat : InQueue(p, i, u)' => InQueue(p, i + 1, u)
           /\ \A q \in Procs \ {p} : \A i \in Nat : InQueue(q, i, u)' => InQueue(q, i, u)
      BY <2>2, <2>3 DEF InQueue
    <2>11. \A q \in Procs : \A v \in Workers :
              InWork(q, v, u)' => InWork(q, v, u) \/ (q = p /\ v = w /\ u = t)
      BY <2>5 DEF InWork
    <2>12. \A q \in Procs : \A i \in Nat :
              InQueue(q, i, u)' => \E j \in Nat : j > 0 /\ InQueue(q, j, u)
      BY <2>10 DEF InQueue
    <2>13. CASE u # t
      <3>1. \A q, r \in Procs : \A i, j \in Nat :
                InQueue(q, i, u)' /\ InQueue(r, j, u)' => q = r /\ i = j
        <4> SUFFICES ASSUME NEW q \in Procs, NEW r \in Procs, NEW i \in Nat, NEW j \in Nat,
                            InQueue(q, i, u)', InQueue(r, j, u)'
                     PROVE  q = r /\ i = j
          OBVIOUS
        <4>1. InQueue(q, IF q = p THEN i + 1 ELSE i, u)
          BY <2>10
        <4>2. InQueue(r, IF r = p THEN j + 1 ELSE j, u)
          BY <2>10
        <4>3. q = r /\ (IF q = p THEN i + 1 ELSE i) = (IF r = p THEN j + 1 ELSE j)
          BY <4>1, <4>2, <2>8 DEF OneHolder
        <4> QED
          BY <4>3
      <3>2. OneHolder(u)'
        BY <2>8, <2>9, <2>11, <2>12, <2>13, <3>1 DEF OneHolder
      <3>3. Free(u) => Free(u)'
        BY <2>9, <2>11, <2>12, <2>13 DEF Free
      <3> QED
        BY <2>8, <3>2, <3>3
    <2>14. CASE u = t
      <3>1. InQueue(p, 1, u)
        BY <2>2, <2>14 DEF InQueue
      <3>2. \A q \in Procs : ~InScan(q, u) /\ \A v \in Workers : ~InWork(q, v, u)
        BY <2>8, <3>1 DEF OneHolder
      <3>3. \A q \in Procs : \A j \in Nat : InQueue(q, j, u) => q = p /\ j = 1
        BY <2>8, <3>1 DEF OneHolder
      <3>4. \A q \in Procs : \A i \in Nat : ~InQueue(q, i, u)'
        <4> SUFFICES ASSUME NEW q \in Procs, NEW i \in Nat, InQueue(q, i, u)'
                     PROVE  FALSE
          OBVIOUS
        <4>1. CASE q = p
          <5>1. i + 1 = 1 /\ i \in Nat
            BY <4>1, <2>10, <3>3
          <5>2. i >= 1
            BY DEF InQueue
          <5> QED
            BY <5>1, <5>2
        <4>2. CASE q # p
          BY <4>2, <2>10, <3>3
        <4> QED
          BY <4>1, <4>2
      <3>5. OneHolder(u)'
        BY <2>9, <2>11, <3>2, <3>4 DEF OneHolder
      <3>6. row'[u].st \notin Claimable
        BY <2>8, <3>1 DEF Free
      <3> QED
        BY <3>5, <3>6
    <2> QED
      BY <2>13, <2>14
  <1> QED
    BY <1>4, <1>6, <1>7, WorkerMoves

LEMMA NextExclusive ==
    ASSUME Tables, Crews, Exclusive, [Next]_vars
    PROVE  Exclusive'
  <1>1. CASE UserStep
    <2>1. UNCHANGED procRest
      BY <1>1 DEF UserStep, CancelRunningOrScheduledLogs, CancelConnector,
                  ScheduleConnectorTasks, RebuildConnector, Link, Unlink
    <2>2. \A t \in Tasks : NoNewHolder(t)
      BY <2>1 DEF procRest, procVars, NoNewHolder, InScan, InQueue, InWork
    <2> QED
      BY <1>1, <2>1, <2>2, UserClaimable, QuietHolders DEF procRest, procVars, Crews, Memory
  <1>2. CASE TimeStep \/ UNCHANGED vars
    <2>1. UNCHANGED <<row, scan, queue, worker, reissued>>
      BY <1>2 DEF TimeStep, Expire, Mature, UpdateConnector, procRest, vars, dbVars, procVars
    <2>2. \A t \in Tasks : NoNewHolder(t)
      BY <2>1 DEF NoNewHolder, InScan, InQueue, InWork
    <2> QED
      BY <2>1, <2>2, QuietHolders
  <1>3. ASSUME NEW p \in Procs, ProcessStep(p)
        PROVE  Exclusive'
    <2>1. UNCHANGED <<row, reissued>>
      BY <1>3 DEF ProcessStep, Stop, Restart, Exit, Crash, LoseMemory, dbVars
    <2>2. CASE UNCHANGED <<scan, queue, worker>>
      <3>1. \A t \in Tasks : NoNewHolder(t)
        BY <2>2 DEF NoNewHolder, InScan, InQueue, InWork
      <3> QED
        BY <2>1, <3>1, QuietHolders
    <2>3. CASE LoseMemory(p)
      <3>1. /\ scan'[p] = IdleScan /\ queue'[p] = <<>>
            /\ \A w \in Workers : worker'[p][w] = IdleWorker
            /\ \A q \in Procs \ {p} :
                  scan'[q] = scan[q] /\ queue'[q] = queue[q] /\ worker'[q] = worker[q]
        BY <2>3 DEF LoseMemory, Crews, Memory
      <3>2. ASSUME NEW t \in Tasks PROVE NoNewHolder(t)
        <4>1. /\ ~InScan(p, t)' /\ \A i \in Nat : ~InQueue(p, i, t)'
              /\ \A w \in Workers : ~InWork(p, w, t)'
          BY <3>1, NoTaskHeld DEF InScan, InQueue, InWork
        <4> QED
          BY <3>1, <4>1 DEF NoNewHolder, InScan, InQueue, InWork
      <3> QED
        BY <2>1, <3>2, QuietHolders
    <2> QED
      BY <1>3, <2>2, <2>3 DEF ProcessStep, Stop, Restart, Exit, Crash
  <1> QED
    BY <1>1, <1>2, <1>3, ScanExclusive, WorkerExclusive DEF Next, Step, TimeStep

LEMMA InitExclusive == Init => Exclusive
  <1> SUFFICES ASSUME Init, NEW t \in Tasks
               PROVE  OneHolder(t) /\ Free(t)
    BY DEF Exclusive
  <1>1. Free(t)
    BY SyncAssumption DEF Init, Free, InScan, InQueue, InWork, IdleScan, IdleWorker
  <1> QED
    BY <1>1 DEF Free, OneHolder

\* A row has at most one holder among the scans, queues and workers of all
\* processes, however they crash and restart, until a recovery takes it for
\* stale.
THEOREM ClaimsExclude == Spec => []ExclusiveClaim
  <1>1. Init => IInv /\ Exclusive
    BY InitIInv, InitExclusive
  <1>2. IInv /\ Exclusive /\ [Next]_vars => IInv' /\ Exclusive'
    BY NextIInv, NextExclusive DEF IInv
  <1>3. Exclusive => ExclusiveClaim
    BY ExclusiveCounts
  <1> QED
    BY <1>1, <1>2, <1>3, PTL DEF Spec

-----------------------------------------------------------------------------
(* The runs (SyncRun).                                                     *)

(* Finite sets of numbers, pages. *)

\* A transitive relation without loops has a last element in every finite set.
LEMMA LastOfFinite ==
    ASSUME NEW S, IsFiniteSet(S), S # {}, NEW R,
           \A i \in S : <<i, i>> \notin R,
           \A i, j, k \in S : <<i, j>> \in R /\ <<j, k>> \in R => <<i, k>> \in R
    PROVE  \E i \in S : \A j \in S : <<i, j>> \notin R
  <1> DEFINE Follow(i) == {j \in S : <<i, j>> \in R}
             Follows   == {Follow(i) : i \in S}
  <1>1. Follows \subseteq SUBSET S /\ Follows # {}
    <2>1. PICK i \in S : TRUE
      OBVIOUS
    <2>2. Follow(i) \in Follows
      BY <2>1
    <2>3. \A j \in S : Follow(j) \in SUBSET S
      OBVIOUS
    <2> HIDE DEF Follow
    <2>4. Follows \subseteq SUBSET S
      BY <2>3
    <2> QED
      BY <2>2, <2>4
  <1>2. FiniteSubsetsOf(S) = SUBSET S
    BY FS_FiniteSubsetsOfFinite
  <1>3. IsWellFoundedOn(StrictSubsetOrdering(S), SUBSET S)
    BY <1>2, FS_StrictSubsetOrderingWellFounded
  <1>4. PICK X \in Follows : \A Y \in Follows : <<Y, X>> \notin StrictSubsetOrdering(S)
    BY <1>1, <1>3, WFMin
  <1>5. PICK i \in S : X = Follow(i)
    OBVIOUS
  <1>6. ASSUME NEW j \in S, <<i, j>> \in R PROVE FALSE
    <2>1. /\ Follow(j) \in Follows /\ Follow(j) \subseteq Follow(i)
          /\ j \in Follow(i) /\ j \notin Follow(j)
      BY <1>6
    <2>2. Follow(j) \in SUBSET S /\ Follow(i) \in SUBSET S /\ Follow(j) # Follow(i)
      BY <2>1
    <2> HIDE DEF Follow, Follows
    <2>3. <<Follow(j), Follow(i)>> \in StrictSubsetOrdering(S)
      BY <2>1, <2>2 DEF StrictSubsetOrdering
    <2> QED
      BY <1>4, <1>5, <2>1, <2>3
  <1> QED
    BY <1>6

\* Max and Min of a finite set of numbers are what they are called.
LEMMA MaxOfNumbers ==
    ASSUME NEW S, S \subseteq Nat, IsFiniteSet(S), S # {}
    PROVE  Max(S) \in S /\ \A n \in S : n <= Max(S)
  <1>1. PICK R : R = {p \in S \X S : p[1] < p[2]}
    OBVIOUS
  <1>2. \A i, j \in S : <<i, j>> \in R <=> i < j
    BY <1>1
  <1>3. /\ \A i \in S : <<i, i>> \notin R
        /\ \A i, j, k \in S : <<i, j>> \in R /\ <<j, k>> \in R => <<i, k>> \in R
    BY <1>2
  <1>4. PICK i \in S : \A j \in S : <<i, j>> \notin R
    BY <1>3, LastOfFinite
  <1>5. \A j \in S : ~(i < j)
    BY <1>2, <1>4
  <1>6. \A j \in S : i >= j
    BY <1>5
  <1> QED
    BY <1>6 DEF Max

LEMMA MinOfNumbers ==
    ASSUME NEW S, S \subseteq Nat, IsFiniteSet(S), S # {}
    PROVE  Min(S) \in S
  <1>1. PICK R : R = {p \in S \X S : p[1] > p[2]}
    OBVIOUS
  <1>2. \A i, j \in S : <<i, j>> \in R <=> i > j
    BY <1>1
  <1>3. /\ \A i \in S : <<i, i>> \notin R
        /\ \A i, j, k \in S : <<i, j>> \in R /\ <<j, k>> \in R => <<i, k>> \in R
    BY <1>2
  <1>4. PICK i \in S : \A j \in S : <<i, j>> \notin R
    BY <1>3, LastOfFinite
  <1>5. \A j \in S : ~(i > j)
    BY <1>2, <1>4
  <1>6. \A j \in S : i <= j
    BY <1>5
  <1> QED
    BY <1>6 DEF Min

\* A rank that is not before a page is on it or behind it.
LEMMA PageOfRank ==
    ASSUME NEW r \in Nat, NEW p \in Nat \ {0}, NEW n \in Nat, r >= n * p
    PROVE  /\ r \div p \in Nat /\ r \div p >= n
           /\ r \div p > n => r >= (n + 1) * p
           /\ r \div p = n => r < (n + 1) * p
  <1>1. PICK q \in Nat : q = r \div p /\ q * p <= r /\ r < q * p + p
    OBVIOUS
  <1>2. ASSUME NEW a \in Nat, NEW b \in Nat, a < b
        PROVE  a * p + p <= b * p
    <2>1. PICK c \in Nat : b = a + 1 + c
      BY <1>2
    <2>2. b * p = a * p + p + c * p /\ c * p >= 0
      BY <2>1
    <2> QED
      BY <2>2
  <1>3. n * p \in Nat /\ q * p \in Nat
    OBVIOUS
  <1>4. q >= n
    <2>1. CASE q < n
      <3>1. q * p + p <= n * p
        BY <1>2, <2>1
      <3> QED
        BY <1>1, <1>3, <3>1
    <2> QED
      BY <2>1
  <1>5. CASE q > n
    <2>1. n * p + p <= q * p
      BY <1>2, <1>5
    <2>2. (n + 1) * p = n * p + p
      OBVIOUS
    <2> QED
      BY <1>1, <1>3, <1>4, <2>1, <2>2
  <1>6. CASE q = n
    <2>1. (n + 1) * p = q * p + p
      BY <1>6
    <2> QED
      BY <1>1, <2>1
  <1> QED
    BY <1>1, <1>4, <1>5, <1>6

-----------------------------------------------------------------------------
(* Types, by what changes together. *)

ConnectorType == [maxVer : Nat, maxObjs : Nat, pageSize : Nat \ {0},
                  kinds : SUBSET {"sync", "prune"}, sourceOps : SUBSET {"edit", "remove"},
                  fingerprinted : BOOLEAN, slowParse : BOOLEAN,
                  failAt : SUBSET Steps, maxFaults : Nat]
RowType    == [exists : BOOLEAN, hash : 0..MaxVer, loc : {0} \cup Keys]
RunType    == [kind : {"none"} \cup Kinds, pc : {"idle", "list", "items", "delete"},
               start : 0..clock, end : 0..clock, cand : 0..clock, page : Nat,
               eof : BOOLEAN, seen : SUBSET Docs, stale : SUBSET Docs]
ItemType   == [pc : {"idle", "begin", "failed"} \cup Steps, ver : 0..MaxVer,
               key : {0} \cup Keys, mode : {"none", "insert", "update", "ensure"}]
Changes    == [ver : 0..MaxVer, at : 0..clock]

Objects    == {"none", "staged", "published", "leaked"}

SourceTypes ==
    /\ connector \in Connectors /\ clock \in Nat
    /\ src \in [Docs -> Changes] /\ here \subseteq Docs /\ water \in 0..clock
RowTypes   == docRow \in [Docs -> RowType]
OtherTypes ==
    /\ file \in [Docs -> {0} \cup Keys]
    /\ pending \in [Docs -> SUBSET {"meta", "parse"}]
    /\ task \in [Docs -> {"none", "created", "running", "done"}]
StoreTypes == store \in [Docs -> [Keys -> Objects]]
ItemTypes  == item \in [Docs -> ItemType]
Counts     == failures \in 0..MaxFailures /\ crashes \in 0..MaxCrashes

LEMMA TypeParts ==
    RunTypeOK <=> /\ SourceTypes /\ RowTypes /\ OtherTypes /\ StoreTypes
                  /\ run \in RunType /\ ItemTypes /\ Counts
  BY DEF RunTypeOK, SourceTypes, RowTypes, OtherTypes, StoreTypes, ItemTypes, Counts,
         Changes, RowType, RunType, ItemType, Objects

LEMMA TypePartsNext ==
    SourceTypes' /\ RowTypes' /\ OtherTypes' /\ StoreTypes' /\ run' \in RunType'
    /\ ItemTypes' /\ Counts' => RunTypeOK'
  BY DEF RunTypeOK, SourceTypes, RowTypes, OtherTypes, StoreTypes, ItemTypes, Counts,
         Changes, RowType, RunType, ItemType, Objects

\* The sets depend on the connector, and those of dates on the clock.
LEMMA SameSets ==
    ASSUME UNCHANGED connector
    PROVE  /\ RowType' = RowType /\ ItemType' = ItemType /\ Keys' = Keys
           /\ MaxFailures' = MaxFailures /\ MaxVer' = MaxVer /\ Kinds' = Kinds
           /\ clock' = clock => RunType' = RunType /\ Changes' = Changes
  BY DEF RowType, ItemType, RunType, Changes, Keys, MaxFailures, MaxVer, Kinds

LEMMA SameSource == SourceTypes /\ UNCHANGED <<sourceVars, water>> => SourceTypes'
  BY SameSets DEF SourceTypes, sourceVars
LEMMA SameRows == RowTypes /\ UNCHANGED <<connector, docRow>> => RowTypes'
  BY SameSets DEF RowTypes
LEMMA SameOthers == OtherTypes /\ UNCHANGED <<connector, file, pending, task>> => OtherTypes'
  BY SameSets DEF OtherTypes
LEMMA SameStore == StoreTypes /\ UNCHANGED <<connector, store>> => StoreTypes'
  BY SameSets DEF StoreTypes
LEMMA SameItems == ItemTypes /\ UNCHANGED <<connector, item>> => ItemTypes'
  BY SameSets DEF ItemTypes
LEMMA SameCounts == Counts /\ UNCHANGED <<connector, failures, crashes>> => Counts'
  BY SameSets DEF Counts
LEMMA SameRun == run \in RunType /\ UNCHANGED <<connector, clock, run>> => run' \in RunType'
  BY SameSets
LEMMA NoItemTyped == MaxVer \in Nat => NoItem \in ItemType
  BY DEF NoItem, ItemType

LEMMA ConnectorTypes ==
    ASSUME connector \in Connectors
    PROVE  /\ MaxVer \in Nat /\ Keys \subseteq Nat /\ IsFiniteSet(Keys)
           /\ PageSize \in Nat \ {0}
           /\ Kinds \subseteq {"sync", "prune"} /\ Fingerprinted \in BOOLEAN
           /\ SlowParse \in BOOLEAN /\ FailAt \subseteq Steps /\ MaxFailures \in Nat
  <1>1. connector \in ConnectorType
    BY RunAssumption DEF ConnectorType
  <1>2. IsFiniteSet(Keys) /\ Keys \subseteq Nat
    BY <1>1, FS_Interval DEF Keys, ConnectorType
  <1> QED
    BY <1>1, <1>2 DEF ConnectorType, MaxVer, PageSize, Kinds, Fingerprinted, SlowParse, FailAt, MaxFailures

\* A document that is put gets a key of its own.
LEMMA FreshKey ==
    ASSUME RunTypeOK, NEW d \in Docs, Fresh(d) # {}
    PROVE  Min(Fresh(d)) \in Fresh(d) /\ Min(Fresh(d)) \in Keys /\ Min(Fresh(d)) # 0
  <1>1. Fresh(d) \subseteq Keys /\ Keys \subseteq Nat /\ IsFiniteSet(Keys)
    BY ConnectorTypes DEF RunTypeOK, Fresh
  <1>2. IsFiniteSet(Fresh(d))
    BY <1>1, FS_Subset
  <1>3. Min(Fresh(d)) \in Fresh(d)
    BY <1>1, <1>2, MinOfNumbers
  <1>4. 0 \notin Keys
    BY DEF Keys
  <1> QED
    BY <1>1, <1>3, <1>4

\* The documents of a page that a sync run starts, and the last change among
\* them and before.
Listing   == {d \in PageOf(run.page) : ~BeforeOrAtWindowStart(d) /\ ~AfterWindowEnd(d)}
StartOf(d) == [NoItem EXCEPT !.pc = "begin", !.ver = src[d].ver]
Candidate == Max({run.cand} \cup {src[d].at : d \in Listing})

LEMMA CandidateSeen ==
    ASSUME RunTypeOK
    PROVE  /\ Candidate \in {run.cand} \cup {src[d].at : d \in Listing}
           /\ run.cand <= Candidate /\ \A d \in Listing : src[d].at <= Candidate
           /\ Candidate \in 0..clock
  <1> DEFINE S == {run.cand} \cup {src[d].at : d \in Listing}
  <1>1. Listing \subseteq Docs
    BY DEF RunTypeOK, Listing, PageOf
  <1>2. run.cand \in 0..clock /\ \A d \in Docs : src[d].at \in 0..clock
    BY DEF RunTypeOK
  <1>3. S \subseteq 0..clock /\ S # {} /\ clock \in Nat
    <2>1. \A n \in S : n \in 0..clock
      BY ONLY <1>1, <1>2
    <2>2. clock \in Nat
      BY DEF RunTypeOK
    <2>3. run.cand \in S
      OBVIOUS
    <2> HIDE DEF S
    <2> QED
      BY ONLY <2>1, <2>2, <2>3
  <1>4. S \subseteq Nat /\ IsFiniteSet(S)
    <2>0. 0 \in Int /\ clock \in Int
      BY ONLY <1>3
    <2>1. IsFiniteSet(0..clock)
      BY ONLY <2>0, FS_Interval
    <2>2. S \subseteq Nat /\ S \in SUBSET (0..clock)
      BY <1>3
    <2> HIDE DEF S
    <2> QED
      BY <2>1, <2>2, FS_Subset
  <1>5. Max(S) \in S /\ \A n \in S : n <= Max(S)
    <2> HIDE DEF S
    <2> QED
      BY <1>3, <1>4, MaxOfNumbers
  <1> QED
    BY <1>3, <1>5 DEF Candidate

\* What NextBatch does, by name.
LEMMA BatchShape ==
    ASSUME NextBatch
    PROVE  /\ run.kind = "sync" /\ run.pc = "list" /\ ~run.eof
           /\ run' = [run EXCEPT !.pc = "items", !.cand = Candidate, !.page = @ + 1,
                        !.eof = \/ \E d \in PageOf(run.page) : BeforeOrAtWindowStart(d)
                                \/ ~HasNextPage(run.page)]
           /\ item' = [d \in Docs |-> IF d \in Listing THEN StartOf(d) ELSE NoItem]
           /\ UNCHANGED <<sourceVars, water, docVars, failures, crashes>>
  BY DEF NextBatch, Candidate, Listing, StartOf

LEMMA RunTypesInit == RunInit => RunTypeOK
  <1> SUFFICES ASSUME RunInit PROVE RunTypeOK
    OBVIOUS
  <1>1. MaxVer \in Nat /\ MaxFailures \in Nat /\ MaxCrashes \in Nat
    BY ConnectorTypes, RunAssumption DEF RunInit
  <1>2. SourceTypes
    BY <1>1 DEF RunInit, SourceTypes, Changes
  <1>3. RowTypes
    BY <1>1 DEF RunInit, RowTypes, RowType, Absent
  <1>4. OtherTypes /\ StoreTypes
    BY DEF RunInit, OtherTypes, StoreTypes, Objects
  <1>5. run \in RunType
    BY DEF RunInit, NoRun, RunType
  <1>6. ItemTypes /\ Counts
    BY <1>1, NoItemTyped DEF RunInit, ItemTypes, Counts
  <1> QED
    BY <1>2, <1>3, <1>4, <1>5, <1>6, TypeParts

\* What a goroutine of a document may change.
LEMMA ItemStepTypes ==
    ASSUME RunTypeOK, UNCHANGED <<sourceVars, water, run, crashes>>,
           docRow' \in [Docs -> RowType], OtherTypes', 
           store' \in [Docs -> [Keys -> Objects]],
           item' \in [Docs -> ItemType], failures' \in 0..MaxFailures
    PROVE  RunTypeOK'
  <1>1. UNCHANGED connector /\ SourceTypes' /\ run' \in RunType'
    BY TypeParts, SameSource, SameRun DEF sourceVars
  <1>2. RowTypes' /\ StoreTypes' /\ ItemTypes' /\ Counts'
    BY <1>1, TypeParts, SameSets DEF RowTypes, StoreTypes, ItemTypes, Counts
  <1> QED
    BY <1>1, <1>2, TypePartsNext

\* What a step of a run may change otherwise.
LEMMA RunStepTypes ==
    ASSUME RunTypeOK, UNCHANGED <<sourceVars, docVars>>, water' \in 0..clock,
           run' \in RunType, item' \in [Docs -> ItemType],
           failures' \in 0..MaxFailures, crashes' \in 0..MaxCrashes
    PROVE  RunTypeOK'
  <1>1. UNCHANGED <<connector, clock>> /\ RowTypes' /\ OtherTypes' /\ StoreTypes'
    BY TypeParts, SameRows, SameOthers, SameStore DEF sourceVars, docVars
  <1>2. SourceTypes' /\ run' \in RunType' /\ ItemTypes' /\ Counts'
    BY <1>1, TypeParts, SameSets DEF SourceTypes, ItemTypes, Counts, sourceVars
  <1> QED
    BY <1>1, <1>2, TypePartsNext

LEMMA ItemTypesNext ==
    ASSUME RunTypeOK, NEW d \in Docs, ItemStep(d) PROVE RunTypeOK'
  <1>0. /\ docRow \in [Docs -> RowType] /\ item \in [Docs -> ItemType] /\ OtherTypes
        /\ store \in [Docs -> [Keys -> Objects]]
        /\ failures \in 0..MaxFailures /\ connector \in Connectors
        /\ MaxVer \in Nat /\ MaxFailures \in Nat
    BY TypeParts, ConnectorTypes DEF RowTypes, ItemTypes, StoreTypes, Counts, SourceTypes
  <1>n. NoItem \in ItemType
    BY <1>0, NoItemTyped
  <1> USE DEF itemRest, docVars
  <1>1. CASE Begin(d)
    <2>1. item' \in [Docs -> ItemType]
      BY <1>0, <1>n, <1>1 DEF Begin, ItemType, Steps
    <2> QED
      BY <1>0, <1>1, <2>1, SameOthers, ItemStepTypes DEF Begin, sourceVars
  <1>2. CASE Put(d)
    <2>1. Min(Fresh(d)) \in Keys
      BY <1>2, FreshKey DEF Put
    <2>2. PICK k \in Keys, how \in {"insert", "update"} :
              item' = [item EXCEPT ![d] = [@ EXCEPT !.key = k, !.pc = how, !.mode = how]]
      BY <1>2, <2>1 DEF Put
    <2>4. item' \in [Docs -> ItemType]
      BY <1>0, <2>2 DEF ItemType, Steps
    <2>3. store' \in [Docs -> [Keys -> Objects]]
      BY <1>0, <1>2, <2>1 DEF Put, SetKey, Objects
    <2> QED
      BY <1>0, <1>2, <2>3, <2>4, SameOthers, ItemStepTypes DEF Put, sourceVars
  <1>3. CASE Insert(d)
    <2>1. item' \in [Docs -> ItemType]
      BY <1>0, <1>3 DEF Insert, ItemTo, ItemType, Steps
    <2>2. docRow' \in [Docs -> RowType]
      BY <1>0, <1>3 DEF Insert, SetRow, RowType, ItemType
    <2>3. OtherTypes'
      BY <1>0, <1>3, SameSets DEF Insert, OtherTypes, sourceVars
    <2> QED
      BY <1>0, <1>3, <2>1, <2>2, <2>3, ItemStepTypes DEF Insert, sourceVars
  <1>4. CASE Update(d)
    <2>1. item' \in [Docs -> ItemType]
      BY <1>0, <1>4 DEF Update, ItemTo, ItemType, Steps
    <2> QED
      BY <1>0, <1>4, <2>1, SameOthers, ItemStepTypes DEF Update, sourceVars
  <1>5. CASE Publish(d)
    <2>1. item' \in [Docs -> ItemType]
      BY <1>0, <1>5 DEF Publish, ItemTo, ItemType, Steps
    <2>2. docRow' \in [Docs -> RowType]
      BY <1>0, <1>5 DEF Publish, SetRow, RowType, ItemType
    <2>3. store' \in [Docs -> [Keys -> Objects]]
      BY <1>0, <1>5 DEF Publish, SetKey, Objects
    <2>4. OtherTypes'
      BY <1>0, <1>5, SameSets DEF Publish, OtherTypes, sourceVars
    <2> QED
      BY <1>0, <1>5, <2>1, <2>2, <2>3, <2>4, ItemStepTypes DEF Publish, sourceVars
  <1>6. CASE WriteFile(d)
    <2>1. item' \in [Docs -> ItemType]
      BY <1>0, <1>6 DEF WriteFile, ItemTo, ItemType, Steps
    <2>2. docRow[d].loc \in {0} \cup Keys
      BY <1>0 DEF RowType
    <2>3. OtherTypes'
      BY <1>0, <1>6, <2>2, SameSets DEF WriteFile, OtherTypes, sourceVars
    <2> QED
      BY <1>0, <1>6, <2>1, <2>3, ItemStepTypes DEF WriteFile, sourceVars
  <1>7. CASE WriteMeta(d)
    <2>1. item' \in [Docs -> ItemType]
      BY <1>0, <1>7 DEF WriteMeta, ItemTo, ItemType, Steps
    <2>2. OtherTypes'
      BY <1>0, <1>7, SameSets DEF WriteMeta, OtherTypes, sourceVars
    <2> QED
      BY <1>0, <1>7, <2>1, <2>2, ItemStepTypes DEF WriteMeta, sourceVars
  <1>8. CASE StartParse(d)
    <2>1. item' \in [Docs -> ItemType]
      BY <1>0, <1>n, <1>8 DEF StartParse
    <2>2. OtherTypes'
      <3>1. /\ pending' = pending \/ pending' = [pending EXCEPT ![d] = @ \ {"parse"}]
            /\ task' = task \/ task' = [task EXCEPT ![d] = "created"]
            /\ UNCHANGED <<file, connector>>
        BY <1>8 DEF StartParse, sourceVars
      <3>2. pending' \in [Docs -> SUBSET {"meta", "parse"}]
        BY <1>0, <3>1 DEF OtherTypes
      <3>3. task' \in [Docs -> {"none", "created", "running", "done"}]
        BY <1>0, <3>1 DEF OtherTypes
      <3> QED
        BY <1>0, <3>1, <3>2, <3>3, SameSets DEF OtherTypes
    <2> QED
      BY <1>0, <1>8, <2>1, <2>2, ItemStepTypes DEF StartParse, sourceVars
  <1>k. ASSUME NEW leaks \in BOOLEAN, Cleanup(d, leaks) PROVE store' \in [Docs -> [Keys -> Objects]]
    <2>1. item[d].key \in {0} \cup Keys
      BY <1>0 DEF ItemType
    <2>2. PICK k \in {0} \cup Keys : k = item[d].key
      BY <2>1
    <2>3. CASE k = 0
      BY <1>0, <1>k, <2>2, <2>3 DEF Cleanup
    <2>4. CASE k # 0
      <3>1. k \in Keys /\ store[d][k] \in Objects
        BY <1>0, <2>4
      <3>2. PICK v \in Objects : store' = [store EXCEPT ![d][k] = v]
        BY <1>k, <2>2, <2>4, <3>1 DEF Cleanup, SetKey, Objects
      <3> QED
        BY <1>0, <3>1, <3>2
    <2> QED
      BY <2>3, <2>4
  <1>p. ASSUME PutFails(d) PROVE store' \in [Docs -> [Keys -> Objects]]
    <2>1. CASE UNCHANGED store
      BY <1>0, <2>1
    <2>2. CASE Fresh(d) # {} /\ SetKey(d, Min(Fresh(d)), "leaked")
      BY <1>0, <2>2, FreshKey DEF SetKey, Objects
    <2> QED
      BY <1>p, <2>1, <2>2 DEF PutFails
  <1>c. \A failed \in BOOLEAN : Count(failed) \in Nat
    BY DEF Count
  <1>9. CASE StepFails(d)
    <2>1. item' \in [Docs -> ItemType]
      BY <1>0, <1>9 DEF StepFails, ItemTo, ItemType
    <2>2. PICK kept \in BOOLEAN, leaks \in BOOLEAN :
            /\ failures' = failures + 1 + Count(kept) + Count(leaks)
            /\ docRow' = docRow \/ SetRow(d, Absent)
            /\ PutFails(d) \/ Cleanup(d, leaks)
      BY <1>9 DEF StepFails
    <2>3. docRow' \in [Docs -> RowType]
      <3>1. Absent \in RowType
        BY <1>0 DEF Absent, RowType
      <3>2. docRow' = docRow \/ docRow' = [docRow EXCEPT ![d] = Absent]
        BY <2>2 DEF SetRow
      <3> QED
        BY <1>0, <3>1, <3>2
    <2>4. failures' \in 0..MaxFailures
      <3>1. failures' <= MaxFailures
        BY <1>9 DEF StepFails
      <3> QED
        BY <1>0, <1>c, <2>2, <3>1
    <2>5. OtherTypes'
      BY <1>0, <1>9, SameSets DEF StepFails, OtherTypes, sourceVars
    <2>6. UNCHANGED <<sourceVars, water, run, crashes>>
      BY <1>9 DEF StepFails
    <2> QED
      BY <1>0, <1>k, <1>p, <2>1, <2>2, <2>3, <2>4, <2>5, <2>6, ItemStepTypes
  <1>10. CASE ParseRefused(d)
    <2>1. item' \in [Docs -> ItemType]
      BY <1>0, <1>10 DEF ParseRefused, ItemTo, ItemType
    <2>2. PICK leaks \in BOOLEAN : failures' = failures + Count(leaks) /\ Cleanup(d, leaks)
      BY <1>10 DEF ParseRefused
    <2>3. failures' \in 0..MaxFailures
      <3>1. failures' <= MaxFailures
        BY <1>10 DEF ParseRefused
      <3> QED
        BY <1>0, <1>c, <2>2, <3>1
    <2> QED
      BY <1>0, <1>k, <1>10, <2>1, <2>2, <2>3, SameOthers, ItemStepTypes DEF ParseRefused, sourceVars
  <1> QED
    BY <1>1, <1>2, <1>3, <1>4, <1>5, <1>6, <1>7, <1>8, <1>9, <1>10 DEF ItemStep

\* How far the deletion of a document comes.
DeleteCalls(d, calls) ==
    /\ failures' = failures + Count(calls < 4)
    /\ task' = IF calls >= 1 THEN [task EXCEPT ![d] = "none"] ELSE task
    /\ IF calls >= 2
       THEN SetRow(d, Absent) /\ pending' = [pending EXCEPT ![d] = {}]
       ELSE UNCHANGED <<docRow, pending>>
    /\ file' = IF calls >= 3 THEN [file EXCEPT ![d] = 0] ELSE file
    /\ IF calls = 4 /\ file[d] # 0
       THEN SetKey(d, file[d], "none") ELSE UNCHANGED store
    /\ run' = IF calls >= 3 THEN [run EXCEPT !.stale = @ \ {d}] ELSE NoRun

LEMMA RunStepTypesNext ==
    ASSUME RunTypeOK, RunStep PROVE RunTypeOK'
  <1>0. /\ run \in RunType /\ item \in [Docs -> ItemType]
        /\ failures \in 0..MaxFailures /\ crashes \in 0..MaxCrashes /\ MaxCrashes \in Nat
        /\ connector \in Connectors /\ clock \in Nat /\ water \in 0..clock /\ here \subseteq Docs
        /\ MaxVer \in Nat /\ MaxFailures \in Nat /\ src \in [Docs -> Changes]
    BY TypeParts, ConnectorTypes, RunAssumption DEF ItemTypes, Counts, SourceTypes
  <1>n. NoItem \in ItemType /\ NoRun \in RunType /\ [d \in Docs |-> NoItem] \in [Docs -> ItemType]
    BY <1>0, NoItemTyped DEF NoRun, RunType
  <1>1. CASE OpenSync
    <2>1. run' \in RunType
      <3>1. PICK start \in {water, 0} :
                run' = [NoRun EXCEPT !.kind = "sync", !.pc = "list", !.start = start,
                                     !.end = clock, !.cand = start]
        BY <1>1 DEF OpenSync
      <3>2. "sync" \in Kinds
        BY <1>1 DEF OpenSync
      <3> QED
        <4>1. start \in 0..clock /\ clock \in 0..clock
          BY <1>0, <3>1
        <4>2. run' = [kind |-> "sync", pc |-> "list", start |-> start, end |-> clock,
                      cand |-> start, page |-> 0, eof |-> FALSE, seen |-> {}, stale |-> {}]
          BY <3>1 DEF NoRun
        <4> QED
          BY <3>2, <4>1, <4>2 DEF RunType
    <2> QED
      BY <1>0, <1>1, <2>1, RunStepTypes DEF OpenSync
  <1>2. CASE NextBatch
    <2>1. Candidate \in 0..clock
      BY CandidateSeen
    <2>2. run' \in RunType
      <3>1. PICK eof \in BOOLEAN :
                run' = [run EXCEPT !.pc = "items", !.cand = Candidate, !.page = @ + 1, !.eof = eof]
        BY <1>2, BatchShape
      <3>2. run' = [kind |-> run.kind, pc |-> "items", start |-> run.start, end |-> run.end,
                    cand |-> Candidate, page |-> run.page + 1, eof |-> eof,
                    seen |-> run.seen, stale |-> run.stale]
        BY <1>0, <3>1 DEF RunType
      <3> QED
        BY <1>0, <2>1, <3>2 DEF RunType
    <2>3. \A d \in Docs : StartOf(d) \in ItemType
      BY <1>0 DEF StartOf, NoItem, ItemType, Changes
    <2>4. item' \in [Docs -> ItemType]
      BY <1>n, <1>2, <2>3, BatchShape
    <2> QED
      BY <1>0, <1>2, <2>2, <2>4, BatchShape, RunStepTypes
  <1>3. CASE EndBatch
    <2>1. run' \in RunType
      BY <1>0, <1>n, <1>3 DEF EndBatch, RunTo, RunType
    <2> QED
      BY <1>0, <1>n, <1>3, <2>1, RunStepTypes DEF EndBatch
  <1>4. CASE CompleteSync
    <2>1. water' \in 0..clock
      BY <1>0, <1>4 DEF CompleteSync, RunType
    <2> QED
      BY <1>0, <1>n, <1>4, <2>1, RunStepTypes DEF CompleteSync, sourceVars
  <1>5. CASE SourceFails
    <2>1. failures' \in 0..MaxFailures
      BY <1>0, <1>5 DEF SourceFails
    <2> QED
      BY <1>0, <1>n, <1>5, <2>1, RunStepTypes DEF SourceFails
  <1>6. CASE OpenPrune
    <2>1. run' \in RunType
      BY <1>0, <1>6 DEF OpenPrune, NoRun, RunType
    <2> QED
      BY <1>0, <1>6, <2>1, RunStepTypes DEF OpenPrune
  <1>7. CASE NextSlimBatch
    <2>1. run' \in RunType
      <3>1. PICK eof \in BOOLEAN :
                run' = [run EXCEPT !.seen = @ \cup PageOf(run.page), !.page = @ + 1, !.eof = eof]
        BY <1>7 DEF NextSlimBatch
      <3>2. PageOf(run.page) \subseteq Docs
        BY <1>0 DEF PageOf
      <3>3. run' = [kind |-> run.kind, pc |-> run.pc, start |-> run.start, end |-> run.end,
                    cand |-> run.cand, page |-> run.page + 1, eof |-> eof,
                    seen |-> run.seen \cup PageOf(run.page), stale |-> run.stale]
        BY <1>0, <3>1 DEF RunType
      <3> QED
        BY <1>0, <3>2, <3>3 DEF RunType
    <2> QED
      BY <1>0, <1>7, <2>1, RunStepTypes DEF NextSlimBatch
  <1>8. CASE ListStale
    <2>1. run' \in RunType
      BY <1>0, <1>8 DEF ListStale, RunType
    <2> QED
      BY <1>0, <1>8, <2>1, RunStepTypes DEF ListStale
  <1>9. CASE DeleteDocument
    <2>1. UNCHANGED <<sourceVars, water, item, crashes>>
      BY <1>9 DEF DeleteDocument
    <2>2. UNCHANGED connector /\ SourceTypes' /\ ItemTypes'
      BY <2>1, TypeParts, SameSource, SameItems DEF sourceVars
    <2>d. run.stale \subseteq Docs
      BY <1>0 DEF RunType
    <2>o. /\ docRow \in [Docs -> RowType] /\ OtherTypes
          /\ store \in [Docs -> [Keys -> Objects]] /\ 0 \notin Keys
      BY TypeParts DEF RowTypes, StoreTypes, Keys
    <2>p. PICK d \in run.stale : \/ run' = NoRun /\ UNCHANGED <<docVars, failures>>
                                 \/ \E calls \in 0..4 : DeleteCalls(d, calls)
      BY <1>9 DEF DeleteDocument, DeleteCalls
    <2>3. run' \in RunType'
      <3>1. run' \in RunType
        BY <1>0, <1>n, <2>p DEF DeleteCalls, RunType
      <3> QED
        BY <2>1, <3>1, SameSets DEF sourceVars
    <2>4. RowTypes'
      <3>1. Absent \in RowType
        BY <1>0 DEF Absent, RowType
      <3>2. docRow' = docRow \/ docRow' = [docRow EXCEPT ![d] = Absent]
        BY <2>p DEF DeleteCalls, SetRow, docVars
      <3>3. docRow' \in [Docs -> RowType]
        BY <2>o, <3>1, <3>2
      <3> QED
        BY <2>2, <3>3, SameSets DEF RowTypes
    <2>5. OtherTypes'
      <3>1. /\ file' = file \/ file' = [file EXCEPT ![d] = 0]
            /\ task' = task \/ task' = [task EXCEPT ![d] = "none"]
            /\ pending' = pending \/ pending' = [pending EXCEPT ![d] = {}]
        BY <2>p DEF DeleteCalls, docVars
      <3> QED
        BY <2>2, <2>o, <3>1, SameSets DEF OtherTypes
    <2>6. StoreTypes'
      <3>1. store' = store \/ (file[d] # 0 /\ store' = [store EXCEPT ![d][file[d]] = "none"])
        BY <2>p DEF DeleteCalls, SetKey, docVars
      <3>2. d \in Docs /\ file[d] \in {0} \cup Keys
        BY <2>d, <2>o DEF OtherTypes
      <3>3. store' \in [Docs -> [Keys -> Objects]]
        BY <2>o, <3>1, <3>2 DEF Objects
      <3> QED
        BY <2>2, <3>3, SameSets DEF StoreTypes
    <2>7. Counts'
      <3>1. failures' \in Nat
        BY <1>0, <2>p DEF DeleteCalls, Count
      <3>2. failures' <= MaxFailures
        BY <1>9 DEF DeleteDocument
      <3> QED
        BY <1>0, <2>1, <2>2, <3>1, <3>2, SameSets DEF Counts
    <2> QED
      BY <2>2, <2>3, <2>4, <2>5, <2>6, <2>7, TypePartsNext
  <1>10. CASE CompletePrune
    BY <1>0, <1>n, <1>10, RunStepTypes DEF CompletePrune
  <1>11. CASE RunCrash
    <2>1. crashes' \in 0..MaxCrashes /\ failures' \in 0..MaxFailures
      BY <1>0, <1>11 DEF RunCrash
    <2> QED
      BY <1>0, <1>n, <1>11, <2>1, RunStepTypes DEF RunCrash
  <1> QED
    BY <1>1, <1>2, <1>3, <1>4, <1>5, <1>6, <1>7, <1>8, <1>9, <1>10, <1>11 DEF RunStep

LEMMA WorldTypesNext ==
    ASSUME RunTypeOK, NEW d \in Docs, Edit(d) \/ SourceRemove(d) \/ ParserStep(d)
    PROVE  RunTypeOK'
  <1>1. CASE Edit(d)
    <2>1. UNCHANGED <<connector, water, docVars, run, item, failures, crashes>>
      BY <1>1 DEF Edit
    <2>2. RowTypes' /\ OtherTypes' /\ StoreTypes' /\ ItemTypes' /\ Counts'
      BY <2>1, TypeParts, SameRows, SameOthers, SameStore, SameItems, SameCounts DEF docVars
    <2>3. clock' \in Nat /\ clock <= clock' /\ MaxVer \in Nat
      BY <1>1, ConnectorTypes DEF Edit, RunTypeOK
    <2>4. run' \in RunType'
      BY <2>1, <2>3, TypeParts, SameSets DEF RunType, SourceTypes
    <2>5. src' \in [Docs -> Changes']
      <3>1. [ver |-> src[d].ver + 1, at |-> clock'] \in Changes'
        BY <1>1, <2>1, <2>3, SameSets DEF Edit, RunTypeOK, Changes
      <3>2. src \in [Docs -> Changes']
        BY <2>1, <2>3, SameSets, TypeParts DEF SourceTypes, Changes
      <3> QED
        BY <1>1, <3>1, <3>2 DEF Edit
    <2>6. SourceTypes'
      BY <1>1, <2>1, <2>3, <2>5, TypeParts DEF Edit, SourceTypes
    <2> QED
      BY <2>2, <2>4, <2>6, TypePartsNext
  <1>2. CASE SourceRemove(d)
    <2>1. UNCHANGED <<connector, clock, src, water, docVars, run, item, failures, crashes>>
      BY <1>2 DEF SourceRemove
    <2>2. RowTypes' /\ OtherTypes' /\ StoreTypes' /\ ItemTypes' /\ Counts' /\ run' \in RunType'
      BY <2>1, TypeParts, SameRows, SameOthers, SameStore, SameItems, SameCounts, SameRun
      DEF docVars
    <2>3. SourceTypes'
      BY <1>2, <2>1, TypeParts, SameSets DEF SourceRemove, SourceTypes
    <2> QED
      BY <2>2, <2>3, TypePartsNext
  <1>3. CASE ParserStep(d)
    <2>1. OtherTypes'
      BY <1>3, TypeParts, SameSets DEF ParserStep, OtherTypes, sourceVars
    <2>2. UNCHANGED <<sourceVars, water, run, crashes, docRow, store, item, failures>>
      BY <1>3 DEF ParserStep
    <2> QED
      BY <2>1, <2>2, TypeParts, ItemStepTypes DEF RowTypes, StoreTypes, ItemTypes, Counts
  <1> QED
    BY <1>1, <1>2, <1>3

LEMMA RunTypesNext == RunTypeOK /\ [RunNext]_runVars => RunTypeOK'
  <1> SUFFICES ASSUME RunTypeOK, [RunNext]_runVars PROVE RunTypeOK'
    OBVIOUS
  <1>1. CASE UNCHANGED runVars
    <2>1. UNCHANGED <<sourceVars, water, run, crashes, docRow, file, pending, task, store,
                      item, failures>>
      BY <1>1 DEF runVars, sourceVars
    <2> QED
      BY <2>1, TypeParts, SameOthers, ItemStepTypes
      DEF RowTypes, StoreTypes, ItemTypes, Counts, sourceVars
  <1> QED
    BY <1>1, ItemTypesNext, RunStepTypesNext, WorldTypesNext DEF RunNext

-----------------------------------------------------------------------------
(* What a goroutine of a document does, by document. *)

Early == {"insert", "update", "publish"}   \* its object is staged
Late  == {"file", "meta", "parse"}         \* its content is in the row

SameDoc(e) ==
    /\ docRow'[e] = docRow[e] /\ file'[e] = file[e] /\ pending'[e] = pending[e]
    /\ task'[e] = task[e] /\ store'[e] = store[e]
Moved(d, pc, key, how) ==
    /\ item'[d].pc = pc /\ item'[d].ver = item[d].ver
    /\ item'[d].key = key /\ item'[d].mode = how
\* Nothing of a goroutine that has failed stays staged, and no other object goes.
Cleaned(d) ==
    \A k \in Keys :
        /\ store'[d][k] = "staged" =>
             store[d][k] = "staged" /\ (item[d].pc = "put" \/ k # item[d].key)
        /\ store'[d][k] = "none" => store[d][k] = "none" \/ k = item[d].key

\* Types of what belongs to a document.
LEMMA DocTypes ==
    ASSUME RunTypeOK
    PROVE  /\ docRow \in [Docs -> RowType] /\ item \in [Docs -> ItemType]
           /\ file \in [Docs -> {0} \cup Keys] /\ src \in [Docs -> Changes]
           /\ pending \in [Docs -> SUBSET {"meta", "parse"}]
           /\ task \in [Docs -> {"none", "created", "running", "done"}]
           /\ store \in [Docs -> [Keys -> Objects]]
           /\ MaxVer \in Nat /\ 0 \notin Keys /\ Keys \subseteq Nat /\ here \subseteq Docs
  <1>1. 0 \notin Keys
    BY DEF Keys
  <1> QED
    BY <1>1, TypeParts, ConnectorTypes
    DEF RowTypes, ItemTypes, OtherTypes, StoreTypes, SourceTypes

LEMMA OtherDocs ==
    ASSUME RunTypeOK, NEW d \in Docs, ItemStep(d)
    PROVE  /\ UNCHANGED <<connector, clock, src, here, water, run, crashes>>
           /\ run.pc = "items"
           /\ \A e \in Docs \ {d} : SameDoc(e) /\ item'[e] = item[e]
  <1> USE DocTypes DEF itemRest, docVars, sourceVars, SameDoc, ItemAt
  <1>1. CASE Begin(d)
    BY <1>1 DEF Begin
  <1>2. CASE Put(d)
    BY <1>2 DEF Put, SetKey
  <1>3. CASE Insert(d)
    BY <1>3 DEF Insert, SetRow, ItemTo
  <1>4. CASE Update(d)
    BY <1>4 DEF Update, ItemTo
  <1>5. CASE Publish(d)
    BY <1>5 DEF Publish, SetRow, SetKey, ItemTo
  <1>6. CASE WriteFile(d)
    BY <1>6 DEF WriteFile, ItemTo
  <1>7. CASE WriteMeta(d)
    BY <1>7 DEF WriteMeta, ItemTo
  <1>8. CASE StartParse(d)
    BY <1>8 DEF StartParse
  <1>9. CASE StepFails(d)
    <2>1. \A e \in Docs \ {d} : docRow'[e] = docRow[e] /\ store'[e] = store[e]
      BY <1>9 DEF StepFails, SetRow, Cleanup, PutFails, SetKey
    <2> QED
      BY <1>9, <2>1 DEF StepFails, ItemTo
  <1>10. CASE ParseRefused(d)
    <2>1. \A e \in Docs \ {d} : store'[e] = store[e]
      BY <1>10 DEF ParseRefused, Cleanup, SetKey
    <2> QED
      BY <1>10, <2>1 DEF ParseRefused, ItemTo
  <1> QED
    BY <1>1, <1>2, <1>3, <1>4, <1>5, <1>6, <1>7, <1>8, <1>9, <1>10 DEF ItemStep

LEMMA BeginAt ==
    ASSUME RunTypeOK, NEW d \in Docs, Begin(d)
    PROVE  /\ item[d].pc = "begin" /\ SameDoc(d)
           /\ \/ ~Unchanged(d) /\ Moved(d, "put", item[d].key, item[d].mode)
              \/ Unchanged(d) /\ Fingerprinted /\ item'[d] = NoItem
              \/ Unchanged(d) /\ ~Fingerprinted /\ Moved(d, "file", item[d].key, "ensure")
  BY DocTypes DEF Begin, ItemAt, SameDoc, Moved, docVars, ItemType

LEMMA PutAt ==
    ASSUME RunTypeOK, NEW d \in Docs, Put(d)
    PROVE  /\ item[d].pc = "put"
           /\ docRow'[d] = docRow[d] /\ file'[d] = file[d] /\ pending'[d] = pending[d]
           /\ task'[d] = task[d]
           /\ \E k \in Keys, how \in {"insert", "update"} :
                /\ k # docRow[d].loc /\ store[d][k] = "none"
                /\ how = "update" <=> docRow[d].exists
                /\ Moved(d, how, k, how)
                /\ store'[d] = [store[d] EXCEPT ![k] = "staged"]
  <1> DEFINE k    == Min(Fresh(d))
             how == IF docRow[d].exists THEN "update" ELSE "insert"
  <1>1. k \in Keys /\ k # docRow[d].loc /\ store[d][k] = "none"
    BY FreshKey DEF Put, Fresh
  <1>2. how \in {"insert", "update"} /\ (how = "update" <=> docRow[d].exists)
    OBVIOUS
  <1>3. /\ item' = [item EXCEPT ![d] = [@ EXCEPT !.key = k, !.pc = how, !.mode = how]]
        /\ store' = [store EXCEPT ![d][k] = "staged"]
        /\ UNCHANGED <<docRow, file, pending, task>> /\ item[d].pc = "put"
    BY DEF Put, SetKey, ItemAt
  <1> HIDE DEF k, how
  <1>4. Moved(d, how, k, how) /\ store'[d] = [store[d] EXCEPT ![k] = "staged"]
    BY <1>3, DocTypes DEF Moved, ItemType
  <1> QED
    BY <1>1, <1>2, <1>3, <1>4

\* What the goroutine does next depends on whether there is a row.
LEMMA PutMode ==
    ASSUME RunTypeOK, NEW d \in Docs, Put(d)
    PROVE  \E how \in {"insert", "update"} :
             /\ item'[d].pc = how /\ item'[d].mode = how
             /\ how = "update" <=> docRow[d].exists
  <1>1. PICK k \in Keys, how \in {"insert", "update"} :
          /\ k # docRow[d].loc /\ store[d][k] = "none"
          /\ how = "update" <=> docRow[d].exists
          /\ Moved(d, how, k, how)
          /\ store'[d] = [store[d] EXCEPT ![k] = "staged"]
    BY PutAt
  <1>2. item'[d].pc = how /\ item'[d].mode = how
    BY <1>1 DEF Moved
  <1> QED
    BY <1>1, <1>2

LEMMA InsertAt ==
    ASSUME RunTypeOK, NEW d \in Docs, Insert(d)
    PROVE  /\ item[d].pc = "insert" /\ Moved(d, "publish", item[d].key, item[d].mode)
           /\ docRow'[d].exists /\ docRow'[d].loc = 0
           /\ docRow'[d].hash = IF Fingerprinted THEN 0 ELSE item[d].ver
           /\ pending'[d] = {"meta", "parse"}
           /\ file'[d] = file[d] /\ task'[d] = task[d] /\ store'[d] = store[d]
  BY DocTypes DEF Insert, ItemAt, SetRow, ItemTo, Moved, ItemType, RowType

LEMMA UpdateAt ==
    ASSUME RunTypeOK, NEW d \in Docs, Update(d)
    PROVE  item[d].pc = "update" /\ SameDoc(d) /\ Moved(d, "publish", item[d].key, item[d].mode)
  BY DocTypes DEF Update, ItemAt, ItemTo, SameDoc, Moved, docVars, ItemType

LEMMA PublishAt ==
    ASSUME RunTypeOK, NEW d \in Docs, Publish(d)
    PROVE  /\ item[d].pc = "publish" /\ Moved(d, "file", item[d].key, item[d].mode)
           /\ docRow'[d].exists /\ docRow'[d].loc = item[d].key /\ docRow'[d].hash = item[d].ver
           /\ store'[d] = [store[d] EXCEPT ![item[d].key] = "published"]
           /\ pending'[d] = {"meta", "parse"}
           /\ file'[d] = file[d] /\ task'[d] = task[d]
  BY DocTypes DEF Publish, ItemAt, SetRow, SetKey, ItemTo, Moved, ItemType, RowType

LEMMA WriteFileAt ==
    ASSUME RunTypeOK, NEW d \in Docs, WriteFile(d)
    PROVE  /\ item[d].pc = "file" /\ Moved(d, "meta", item[d].key, item[d].mode)
           /\ file'[d] = docRow[d].loc
           /\ docRow'[d] = docRow[d] /\ pending'[d] = pending[d] /\ task'[d] = task[d]
           /\ store'[d] = store[d]
  BY DocTypes DEF WriteFile, ItemAt, ItemTo, Moved, ItemType

LEMMA WriteMetaAt ==
    ASSUME RunTypeOK, NEW d \in Docs, WriteMeta(d)
    PROVE  /\ item[d].pc = "meta" /\ Moved(d, "parse", item[d].key, item[d].mode)
           /\ pending'[d] = pending[d] \ {"meta"}
           /\ docRow'[d] = docRow[d] /\ file'[d] = file[d] /\ task'[d] = task[d]
           /\ store'[d] = store[d]
  BY DocTypes DEF WriteMeta, ItemAt, ItemTo, Moved, ItemType

LEMMA StartParseAt ==
    ASSUME RunTypeOK, NEW d \in Docs, StartParse(d)
    PROVE  /\ item[d].pc = "parse" /\ item'[d] = NoItem
           /\ docRow'[d] = docRow[d] /\ file'[d] = file[d] /\ store'[d] = store[d]
           /\ \/ /\ item[d].mode = "ensure" /\ task[d] # "none"
                 /\ pending'[d] = pending[d] /\ task'[d] = task[d]
              \/ /\ CanParse(d) /\ (item[d].mode = "ensure" => task[d] = "none")
                 /\ pending'[d] = pending[d] \ {"parse"} /\ task'[d] = "created"
  BY DocTypes DEF StartParse, ItemAt

LEMMA CleanupAt ==
    ASSUME RunTypeOK, NEW d \in Docs, NEW leaks \in BOOLEAN, Cleanup(d, leaks)
    PROVE  Cleaned(d)
  <1>1. PICK k \in {0} \cup Keys : k = item[d].key
    BY DocTypes DEF ItemType
  <1>2. CASE k = 0
    BY <1>1, <1>2, DocTypes DEF Cleanup, Cleaned
  <1>3. CASE k # 0
    <2>1. PICK v \in Objects : /\ v # "staged"
                               /\ store' = [store EXCEPT ![d][k] = v]
      <3>1. k \in Keys /\ store[d][k] \in Objects
        BY <1>1, <1>3, DocTypes
      <3> QED
        BY <1>1, <1>3, <3>1 DEF Cleanup, SetKey, Objects
    <2>2. \A j \in Keys : store'[d][j] = IF j = k THEN v ELSE store[d][j]
      BY <1>1, <2>1, DocTypes
    <2> QED
      BY <1>1, <2>1, <2>2 DEF Cleaned
  <1> QED
    BY <1>2, <1>3

LEMMA PutFailsAt ==
    ASSUME RunTypeOK, NEW d \in Docs, PutFails(d), item[d].pc = "put"
    PROVE  Cleaned(d)
  <1>1. CASE UNCHANGED store
    BY <1>1 DEF Cleaned
  <1>2. CASE Fresh(d) # {} /\ SetKey(d, Min(Fresh(d)), "leaked")
    <2>1. PICK k \in Keys : store' = [store EXCEPT ![d][k] = "leaked"]
      BY <1>2, FreshKey DEF SetKey
    <2>2. \A j \in Keys : store'[d][j] = IF j = k THEN "leaked" ELSE store[d][j]
      BY <2>1, DocTypes
    <2> QED
      BY <2>2 DEF Cleaned
  <1> QED
    BY <1>1, <1>2 DEF PutFails

LEMMA StepFailsAt ==
    ASSUME RunTypeOK, NEW d \in Docs, StepFails(d)
    PROVE  /\ item[d].pc \in FailAt /\ Moved(d, "failed", item[d].key, item[d].mode)
           /\ Cleaned(d) /\ file'[d] = file[d] /\ pending'[d] = pending[d]
           /\ \/ docRow'[d] = docRow[d]
              \/ /\ docRow'[d] = Absent
                 /\ item[d].mode = "insert" /\ item[d].pc \in {"publish", "file"}
           /\ \/ task'[d] = task[d]
              \/ item[d].pc = "parse" /\ task'[d] = "none"
  <1>1. PICK kept \in BOOLEAN, leaks \in BOOLEAN :
          /\ IF item[d].mode = "insert" /\ item[d].pc \in {"publish", "file"} /\ ~kept
             THEN SetRow(d, Absent) ELSE UNCHANGED docRow
          /\ IF item[d].pc = "put" THEN PutFails(d) ELSE Cleanup(d, leaks)
    BY DEF StepFails
  <1>2. Cleaned(d)
    BY <1>1, CleanupAt, PutFailsAt
  <1>3. \/ docRow'[d] = docRow[d]
        \/ /\ docRow'[d] = Absent
           /\ item[d].mode = "insert" /\ item[d].pc \in {"publish", "file"}
    BY <1>1, DocTypes DEF SetRow
  <1>4. item[d].pc \in FailAt /\ Moved(d, "failed", item[d].key, item[d].mode)
    BY DocTypes DEF StepFails, ItemTo, Moved, ItemType
  <1>5. /\ file'[d] = file[d] /\ pending'[d] = pending[d]
        /\ \/ task'[d] = task[d]
           \/ item[d].pc = "parse" /\ task'[d] = "none"
    BY DocTypes DEF StepFails
  <1> QED
    BY <1>2, <1>3, <1>4, <1>5

LEMMA ParseRefusedAt ==
    ASSUME RunTypeOK, NEW d \in Docs, ParseRefused(d)
    PROVE  /\ item[d].pc = "parse" /\ Moved(d, "failed", item[d].key, item[d].mode)
           /\ ~(item[d].mode = "ensure" /\ task[d] # "none") /\ ~CanParse(d)
           /\ Cleaned(d) /\ docRow'[d] = docRow[d] /\ file'[d] = file[d]
           /\ pending'[d] = pending[d] /\ task'[d] = task[d]
  <1>1. Cleaned(d)
    BY CleanupAt DEF ParseRefused
  <1> QED
    BY <1>1, DocTypes DEF ParseRefused, ItemAt, ItemTo, Moved, ItemType

-----------------------------------------------------------------------------
(* The shape of runs, goroutines and rows. *)

\* What exists in the source has a version and a date.
Dated(d) == d \in here => src[d].at > 0 /\ src[d].ver > 0

\* A goroutine knows how far it has come: what its mode says of the row, when
\* it has a key, and which dependent writes it has done.
ItemShape(d) ==
    item[d].pc # "idle" =>
        /\ item[d].ver \in 1..src[d].ver
        /\ item[d].pc \in {"begin", "put"} => item[d].key = 0 /\ item[d].mode = "none"
        /\ item[d].pc = "put" => ~(docRow[d].exists /\ docRow[d].hash = item[d].ver)
        /\ item[d].pc \in Early => item[d].key # 0 /\ item[d].mode \in {"insert", "update"}
        /\ item[d].pc = "insert" => ~docRow[d].exists /\ item[d].mode = "insert"
        /\ item[d].pc = "update" => item[d].mode = "update"
        /\ item[d].pc \in Late =>
             /\ docRow[d].exists /\ docRow[d].hash = item[d].ver
             /\ \/ item[d].mode = "ensure" /\ item[d].key = 0
                \/ /\ item[d].mode \in {"insert", "update"}
                   /\ item[d].key # 0 /\ docRow[d].loc = item[d].key
        /\ item[d].pc \in {"meta", "parse"} => file[d] = docRow[d].loc
        /\ item[d].pc = "parse" => "meta" \notin pending[d]
        /\ item[d].pc # "failed" /\ item[d].mode = "insert" => task[d] = "none"
        /\ item[d].pc # "failed" /\ item[d].mode = "update" => docRow[d].exists

\* A row without an object has no task, and no content a fingerprint equals.
RowShape(d) ==
    /\ ~docRow[d].exists => docRow[d].loc = 0
    /\ docRow[d].loc = 0 => task[d] = "none"
    /\ Fingerprinted /\ docRow[d].loc = 0 => docRow[d].hash = 0
    /\ docRow[d].exists => src[d].ver > 0
    /\ ~Fingerprinted /\ docRow[d].exists => docRow[d].hash > 0

\* Without a crash an object is staged only while its goroutine works on it.
StagedInHand(d) ==
    crashes = 0 => \A k \in Keys :
        store[d][k] = "staged" => item[d].pc \in Early /\ item[d].key = k

RunShape ==
    /\ clock > 0
    /\ run.kind \in {"none", "sync", "prune"}
    /\ run.kind = "none" => run = NoRun
    /\ run.kind = "sync" => /\ run.pc \in {"list", "items"}
                            /\ run.start \in {0, water} /\ water <= run.end
                            /\ run.cand <= run.end
    /\ run.kind = "prune" => run.pc \in {"list", "delete"}
    /\ run.pc # "items" => \A d \in Docs : item[d] = NoItem

DocShape(d) == Dated(d) /\ ItemShape(d) /\ RowShape(d) /\ StagedInHand(d)
Shape == RunTypeOK /\ RunShape /\ \A d \in Docs : DocShape(d)

LEMMA InitShape == RunInit => Shape
  <1> SUFFICES ASSUME RunInit PROVE Shape
    OBVIOUS
  <1>1. RunTypeOK
    BY RunTypesInit
  <1>2. RunShape
    BY DEF RunInit, RunShape, NoRun
  <1>3. \A d \in Docs : DocShape(d)
    BY DEF RunInit, DocShape, Dated, ItemShape, RowShape, StagedInHand, NoItem, Absent
  <1> QED
    BY <1>1, <1>2, <1>3 DEF Shape

LEMMA ItemStepShape ==
    ASSUME Shape, NEW d \in Docs, ItemStep(d)
    PROVE  RunShape' /\ \A e \in Docs : DocShape(e)'
  <1>0. /\ UNCHANGED <<connector, clock, src, here, water, run, crashes>> /\ run.pc = "items"
        /\ \A e \in Docs \ {d} : SameDoc(e) /\ item'[e] = item[e]
    BY OtherDocs DEF Shape
  <1>f. UNCHANGED <<Fingerprinted, Keys>>
    BY <1>0 DEF Fingerprinted, Keys
  <1>1. RunShape'
    BY <1>0 DEF Shape, RunShape
  <1>2. ASSUME NEW e \in Docs \ {d} PROVE DocShape(e)'
    <2>1. SameDoc(e) /\ item'[e] = item[e]
      BY <1>0
    <2>2. DocShape(e)
      BY DEF Shape
    <2> QED
      BY <1>0, <1>f, <2>1, <2>2 DEF DocShape, Dated, ItemShape, RowShape, StagedInHand, SameDoc
  <1>3. Dated(d)'
    BY <1>0 DEF Shape, DocShape, Dated
  <1>t. /\ RunTypeOK /\ ItemShape(d) /\ RowShape(d) /\ StagedInHand(d)
        /\ item[d] \in ItemType /\ docRow[d] \in RowType /\ pending[d] \subseteq {"meta", "parse"}
        /\ src[d] \in Changes /\ MaxVer \in Nat /\ Keys \subseteq Nat /\ 0 \notin Keys
        /\ store[d] \in [Keys -> Objects] /\ FailAt \subseteq Steps
    BY DocTypes, ConnectorTypes DEF Shape, DocShape, RunTypeOK
  <1>4. ItemShape(d)' /\ RowShape(d)' /\ StagedInHand(d)'
    <2> USE <1>0, <1>f, <1>t DEF ItemShape, RowShape, StagedInHand, Moved, Early, Late,
            ItemType, RowType, Changes
    <2>1. CASE Begin(d)
      BY <2>1, BeginAt DEF SameDoc, NoItem, Unchanged
    <2>2. CASE Put(d)
      <3>1. PICK k \in Keys, how \in {"insert", "update"} :
              /\ k # docRow[d].loc /\ store[d][k] = "none"
              /\ how = "update" <=> docRow[d].exists
              /\ Moved(d, how, k, how)
              /\ store'[d] = [store[d] EXCEPT ![k] = "staged"]
        BY <2>2, PutAt
      <3>2. /\ item[d].pc = "put" /\ docRow'[d] = docRow[d] /\ file'[d] = file[d]
            /\ pending'[d] = pending[d] /\ task'[d] = task[d]
        BY <2>2, PutAt
      <3>3. RowShape(d)'
        BY <3>2
      <3>4. ItemShape(d)'
        BY <3>1, <3>2
      <3>6. \A j \in Keys : store'[d][j] = "staged" => j = k \/ store[d][j] = "staged"
        BY ONLY <1>t, <3>1
      <3>7. crashes = 0 => \A j \in Keys : store[d][j] # "staged"
        BY <3>2
      <3>8. item'[d].pc \in Early /\ item'[d].key = k
        BY ONLY <3>1 DEF Moved, Early
      <3>5. StagedInHand(d)'
        BY ONLY <1>0, <1>f, <3>6, <3>7, <3>8 DEF StagedInHand
      <3> QED
        BY <3>3, <3>4, <3>5
    <2>3. CASE Insert(d)
      BY <2>3, InsertAt
    <2>4. CASE Update(d)
      BY <2>4, UpdateAt DEF SameDoc
    <2>5. CASE Publish(d)
      <3>1. PICK k \in Keys : k = item[d].key
        BY <2>5, PublishAt
      <3>2. /\ item[d].pc = "publish" /\ Moved(d, "file", k, item[d].mode)
            /\ docRow'[d].exists /\ docRow'[d].loc = k /\ docRow'[d].hash = item[d].ver
            /\ task'[d] = task[d] /\ file'[d] = file[d]
        BY <2>5, <3>1, PublishAt
      <3>3. store'[d] = [store[d] EXCEPT ![k] = "published"]
        BY <2>5, <3>1, PublishAt
      <3>4. item[d].ver \in 1..src[d].ver /\ k # 0
        BY <3>1, <3>2
      <3>5. RowShape(d)'
        BY <3>2, <3>4
      <3>6. ItemShape(d)'
        BY <3>1, <3>2, <3>4
      <3>7. \A j \in Keys : store'[d][j] = IF j = k THEN "published" ELSE store[d][j]
        BY <3>3
      <3>8. crashes = 0 => \A j \in Keys : store'[d][j] # "staged"
        BY <3>1, <3>7
      <3>9. StagedInHand(d)'
        BY <3>8
      <3> QED
        BY <3>5, <3>6, <3>9
    <2>6. CASE WriteFile(d)
      BY <2>6, WriteFileAt
    <2>7. CASE WriteMeta(d)
      BY <2>7, WriteMetaAt
    <2>8. CASE StartParse(d)
      BY <2>8, StartParseAt DEF NoItem, CanParse
    <2>9. CASE StepFails(d)
      <3>1. RowShape(d)'
        BY <2>9, StepFailsAt DEF Absent
      <3>2. ItemShape(d)'
        BY <2>9, StepFailsAt DEF Steps
      <3>3. StagedInHand(d)'
        BY <2>9, StepFailsAt DEF Cleaned
      <3> QED
        BY <3>1, <3>2, <3>3
    <2>10. CASE ParseRefused(d)
      BY <2>10, ParseRefusedAt DEF Cleaned
    <2> QED
      BY <2>1, <2>2, <2>3, <2>4, <2>5, <2>6, <2>7, <2>8, <2>9, <2>10 DEF ItemStep
  <1> QED
    BY <1>1, <1>2, <1>3, <1>4 DEF DocShape

\* A document a prune has begun to delete: only its task is gone, or its row too.
Deleted(d) ==
    /\ task'[d] = "none"
    /\ \/ /\ docRow'[d] = docRow[d] /\ file'[d] = file[d] /\ pending'[d] = pending[d]
          /\ store'[d] = store[d]
       \/ /\ docRow'[d] = Absent /\ pending'[d] = {}
          /\ \A k \in Keys : store'[d][k] \in {"none", store[d][k]}

\* A prune deletes one stale document and goes on or ends.
LEMMA DeleteAt ==
    ASSUME RunTypeOK, DeleteDocument
    PROVE  \E d \in run.stale :
             /\ SameDoc(d) \/ Deleted(d)
             /\ \A e \in Docs \ {d} : SameDoc(e)
             /\ run' = NoRun \/ run' = [run EXCEPT !.stale = @ \ {d}]
  <1>1. PICK d \in run.stale : \/ run' = NoRun /\ UNCHANGED <<docVars, failures>>
                               \/ \E calls \in 0..4 : DeleteCalls(d, calls)
    BY DEF DeleteDocument, DeleteCalls
  <1>2. CASE UNCHANGED docVars /\ run' = NoRun
    BY <1>2 DEF docVars, SameDoc
  <1>3. ASSUME NEW calls \in 0..4, DeleteCalls(d, calls)
        PROVE  /\ SameDoc(d) \/ Deleted(d)
               /\ \A e \in Docs \ {d} : SameDoc(e)
               /\ run' = NoRun \/ run' = [run EXCEPT !.stale = @ \ {d}]
    <2>1. d \in Docs
      BY TypeParts DEF RunType
    <2>2. file[d] \in {0} \cup Keys
      BY <2>1, DocTypes
    <2>3. /\ \A k \in Keys : store'[d][k] \in {"none", store[d][k]}
          /\ \A e \in Docs \ {d} : store'[e] = store[e]
      <3>1. CASE UNCHANGED store
        BY <3>1
      <3>2. CASE file[d] # 0 /\ SetKey(d, file[d], "none")
        <4>1. PICK k \in Keys : store' = [store EXCEPT ![d][k] = "none"]
          BY <2>2, <3>2 DEF SetKey
        <4> QED
          BY <2>1, <4>1, DocTypes
      <3> QED
        BY <1>3, <3>1, <3>2 DEF DeleteCalls
    <2>4. SameDoc(d) \/ Deleted(d)
      <3>1. CASE calls = 0
        BY <1>3, <3>1 DEF DeleteCalls, SameDoc
      <3>2. CASE calls = 1
        BY <1>3, <2>1, <3>2, DocTypes DEF DeleteCalls, Deleted
      <3>3. CASE calls >= 2
        BY <1>3, <2>1, <2>3, <3>3, DocTypes DEF DeleteCalls, Deleted, SetRow
      <3> QED
        BY <3>1, <3>2, <3>3
    <2>5. \A e \in Docs \ {d} : SameDoc(e)
      BY <1>3, <2>3, DocTypes DEF DeleteCalls, SameDoc, SetRow
    <2>6. run' = NoRun \/ run' = [run EXCEPT !.stale = @ \ {d}]
      BY <1>3 DEF DeleteCalls
    <2> QED
      BY <2>4, <2>5, <2>6
  <1> QED
    BY <1>1, <1>2, <1>3

\* A step of a run leaves the documents alone, or starts, ends or forgets the
\* goroutines, or deletes a document.
LEMMA RunStepShape ==
    ASSUME Shape, RunStep
    PROVE  RunShape' /\ \A e \in Docs : DocShape(e)'
  <1>t. /\ RunTypeOK /\ RunShape /\ run \in RunType /\ clock \in Nat /\ water \in 0..clock
        /\ crashes \in Nat
    BY TypeParts, RunAssumption DEF Shape, SourceTypes, Counts
  <1> USE <1>t DEF sourceVars
  <1>1. ASSUME UNCHANGED <<sourceVars, docVars, item, crashes>>
        PROVE  \A e \in Docs : DocShape(e)'
    <2>1. UNCHANGED <<Fingerprinted, Keys>>
      BY <1>1 DEF Fingerprinted, Keys, sourceVars
    <2> QED
      BY <1>1, <2>1
      DEF Shape, DocShape, Dated, ItemShape, RowShape, StagedInHand, sourceVars, docVars
  <1>2. ASSUME UNCHANGED <<sourceVars, docVars>>, crashes' \in Nat, crashes' = 0 => crashes = 0,
               NEW e \in Docs, item'[e] = NoItem,
               crashes' = 0 => item[e].pc \notin Early
        PROVE  DocShape(e)'
    <2>1. UNCHANGED <<Fingerprinted, Keys>>
      BY <1>2 DEF Fingerprinted, Keys, sourceVars
    <2> QED
      BY <1>2, <2>1
      DEF Shape, DocShape, Dated, ItemShape, RowShape, StagedInHand, sourceVars, docVars, NoItem
  <1>3. CASE OpenSync
    <2>1. RunShape'
      BY <1>3 DEF OpenSync, RunShape, NoRun, sourceVars
    <2> QED
      BY <1>1, <1>3, <2>1 DEF OpenSync
  <1>4. CASE NextBatch
    <2>1. Candidate <= run.end
      <3>1. \A d \in Listing : src[d].at \in Nat /\ ~(src[d].at > run.end)
        BY DocTypes DEF Listing, AfterWindowEnd, PageOf, Changes
      <3>2. run.end \in Nat /\ run.kind = "sync"
        BY <1>4, BatchShape DEF RunType
      <3> QED
        BY <3>1, <3>2, CandidateSeen DEF RunShape
    <2>2. RunShape'
      BY <1>4, <2>1, BatchShape DEF RunShape, RunType
    <2>3. ASSUME NEW e \in Docs PROVE DocShape(e)'
      <3>1. item[e] = NoItem /\ UNCHANGED <<sourceVars, docVars, crashes>>
        BY <1>4, BatchShape DEF RunShape
      <3>2. CASE e \in Listing
        <4>0. item'[e] = StartOf(e)
          <5>1. item' = [d \in Docs |-> IF d \in Listing THEN StartOf(d) ELSE NoItem]
            BY ONLY <1>4, BatchShape
          <5> QED
            BY ONLY <3>2, <5>1, e \in Docs
        <4>1. /\ item'[e].pc = "begin" /\ item'[e].ver = src[e].ver
              /\ item'[e].key = 0 /\ item'[e].mode = "none"
          BY ONLY <4>0 DEF StartOf, NoItem
        <4>2. src[e].ver > 0 /\ src[e].ver \in Nat
          BY <3>2, DocTypes DEF Shape, DocShape, Dated, Listing, PageOf, Changes
        <4>3. UNCHANGED <<Fingerprinted, Keys>>
          BY <3>1 DEF Fingerprinted, Keys, sourceVars
        <4> QED
          BY <3>1, <4>1, <4>2, <4>3
          DEF Shape, DocShape, Dated, ItemShape, RowShape, StagedInHand, sourceVars, docVars,
              NoItem, Early, Late
      <3>3. CASE e \notin Listing
        <4>1. item'[e] = NoItem
          BY <1>4, <3>3, BatchShape
        <4> QED
          BY <1>2, <3>1, <4>1 DEF NoItem, Early
      <3> QED
        BY <3>2, <3>3
    <2> QED
      BY <2>2, <2>3
  <1>5. CASE EndBatch
    <2>1. RunShape'
      BY <1>5 DEF EndBatch, RunShape, NoRun, RunTo, RunType, sourceVars
    <2>2. ASSUME NEW e \in Docs PROVE DocShape(e)'
      <3>1. UNCHANGED <<sourceVars, docVars, crashes>> /\ item'[e] = NoItem /\ ~Busy(e)
        BY <1>5 DEF EndBatch
      <3>2. item[e].pc \notin Early /\ crashes \in Nat
        BY <3>1 DEF Busy, Early
      <3> QED
        BY <1>2, <3>1, <3>2
    <2> QED
      BY <2>1, <2>2
  <1>6. CASE CompleteSync
    BY <1>1, <1>6 DEF CompleteSync, RunShape, NoRun
  <1>7. CASE SourceFails
    BY <1>1, <1>7 DEF SourceFails, RunShape, NoRun
  <1>8. CASE OpenPrune
    BY <1>1, <1>8 DEF OpenPrune, RunShape, NoRun
  <1>9. CASE NextSlimBatch
    <2>1. RunShape'
      BY <1>9 DEF NextSlimBatch, RunShape, RunType, NoRun
    <2> QED
      BY <1>1, <1>9, <2>1 DEF NextSlimBatch
  <1>10. CASE ListStale
    <2>1. RunShape'
      BY <1>10 DEF ListStale, RunShape, RunType, NoRun
    <2> QED
      BY <1>1, <1>10, <2>1 DEF ListStale
  <1>11. CASE DeleteDocument
    <2>1. UNCHANGED <<sourceVars, water, item, crashes>> /\ run.pc = "delete"
      BY <1>11 DEF DeleteDocument
    <2>2. RunShape'
      <3>1. run' = NoRun \/ \E d \in run.stale : run' = [run EXCEPT !.stale = @ \ {d}]
        BY <1>11, DeleteAt
      <3> QED
        BY <2>1, <3>1 DEF RunShape, RunType, NoRun
    <2>3. ASSUME NEW e \in Docs PROVE DocShape(e)'
      <3>1. SameDoc(e) \/ Deleted(e)
        BY <1>11, DeleteAt
      <3>2. item[e] = NoItem /\ DocShape(e)
        BY <2>1 DEF Shape, RunShape
      <3>3. UNCHANGED <<Fingerprinted, Keys>>
        BY <2>1 DEF Fingerprinted, Keys, sourceVars
      <3> QED
        BY <2>1, <3>1, <3>2, <3>3
        DEF DocShape, Dated, ItemShape, RowShape, StagedInHand, sourceVars, SameDoc, NoItem,
            Absent, Early, Deleted
    <2> QED
      BY <2>2, <2>3
  <1>12. CASE CompletePrune
    BY <1>1, <1>12 DEF CompletePrune, RunShape, NoRun
  <1>13. CASE RunCrash
    <2>1. RunShape'
      BY <1>13 DEF RunCrash, RunShape, NoRun
    <2>2. crashes' \in Nat /\ crashes' # 0
      BY <1>13 DEF RunCrash, RunTypeOK
    <2>3. ASSUME NEW e \in Docs PROVE DocShape(e)'
      BY <1>2, <1>13, <2>2 DEF RunCrash
    <2> QED
      BY <2>1, <2>3
  <1> QED
    BY <1>3, <1>4, <1>5, <1>6, <1>7, <1>8, <1>9, <1>10, <1>11, <1>12, <1>13 DEF RunStep

LEMMA EditAt ==
    ASSUME RunTypeOK, NEW d \in Docs, Edit(d)
    PROVE  /\ UNCHANGED <<connector, water, docVars, run, item, failures, crashes>>
           /\ clock' \in Nat /\ clock <= clock' /\ (~Coarse => clock < clock')
           /\ src'[d].ver = src[d].ver + 1 /\ src'[d].at = clock' /\ here' = here \cup {d}
           /\ \A e \in Docs \ {d} : src'[e] = src[e]
           /\ src[d].ver = 0 \/ (d \in here /\ "edit" \in SourceOps)
  BY DocTypes DEF Edit, RunTypeOK, Changes

LEMMA ParserStepAt ==
    ASSUME RunTypeOK, NEW d \in Docs, ParserStep(d)
    PROVE  /\ UNCHANGED <<sourceVars, water, docRow, file, pending, store, run, item, failures, crashes>>
           /\ task[d] \in {"created", "running"} /\ task'[d] # "none"
           /\ task'[d] \in {"created", "running", "done"}
           /\ \A e \in Docs \ {d} : task'[e] = task[e]
  BY DocTypes DEF ParserStep

LEMMA WorldStepShape ==
    ASSUME Shape, NEW d \in Docs, Edit(d) \/ SourceRemove(d) \/ ParserStep(d)
    PROVE  RunShape' /\ \A e \in Docs : DocShape(e)'
  <1>t. RunTypeOK /\ RunShape
    BY DEF Shape
  <1>1. CASE Edit(d)
    <2>1. UNCHANGED <<connector, water, docVars, run, item, failures, crashes>>
      BY <1>t, <1>1, EditAt
    <2>2. RunShape'
      <3>1. clock' > 0
        BY <1>t, <1>1, EditAt DEF RunShape, RunTypeOK
      <3> QED
        BY <1>t, <2>1, <3>1 DEF RunShape
    <2>3. ASSUME NEW e \in Docs PROVE DocShape(e)'
      <3>1. /\ src[e].ver \in Nat /\ src[e].ver <= src'[e].ver /\ src'[e].ver \in Nat
            /\ Dated(e)' /\ item[e].ver \in Nat
        <4>1. /\ src[d].ver \in Nat /\ src[e] \in Changes /\ item[e] \in ItemType
              /\ clock \in Nat /\ Dated(e) /\ MaxVer \in Nat
          BY <1>t, DocTypes DEF Shape, DocShape, Changes, RunTypeOK
        <4>2. CASE e = d
          BY <1>t, <1>1, <4>1, <4>2, EditAt DEF Shape, RunShape, Dated, Changes, ItemType
        <4>3. CASE e # d
          BY <1>t, <1>1, <4>1, <4>3, EditAt DEF Dated, Changes, ItemType
        <4> QED
          BY <4>2, <4>3
      <3>2. UNCHANGED <<Fingerprinted, Keys>>
        BY <2>1 DEF Fingerprinted, Keys
      <3> QED
        BY <2>1, <3>1, <3>2 DEF Shape, DocShape, ItemShape, RowShape, StagedInHand, docVars
    <2> QED
      BY <2>2, <2>3
  <1>2. CASE SourceRemove(d)
    <2>1. UNCHANGED <<connector, clock, src, water, docVars, run, item, crashes, Fingerprinted, Keys>>
          /\ here' \subseteq here
      BY <1>2 DEF SourceRemove, Fingerprinted, Keys
    <2> QED
      BY <1>t, <2>1
      DEF Shape, RunShape, DocShape, Dated, ItemShape, RowShape, StagedInHand, docVars
  <1>3. CASE ParserStep(d)
    <2>1. UNCHANGED <<Fingerprinted, Keys>>
      BY <1>t, <1>3, ParserStepAt DEF sourceVars, Fingerprinted, Keys
    <2>2. RunShape'
      BY <1>t, <1>3, ParserStepAt DEF RunShape, sourceVars
    <2>3. ASSUME NEW e \in Docs PROVE DocShape(e)'
      BY <1>t, <1>3, <2>1, ParserStepAt
      DEF Shape, DocShape, Dated, ItemShape, RowShape, StagedInHand, sourceVars
    <2> QED
      BY <2>2, <2>3
  <1> QED
    BY <1>1, <1>2, <1>3

LEMMA SameShape == Shape /\ UNCHANGED runVars => Shape'
  <1> SUFFICES ASSUME Shape, UNCHANGED runVars PROVE Shape'
    OBVIOUS
  <1>1. RunTypeOK'
    BY RunTypesNext DEF Shape
  <1>2. UNCHANGED <<Fingerprinted, Keys>>
    BY DEF runVars, Fingerprinted, Keys
  <1> QED
    BY <1>1, <1>2 DEF Shape, RunShape, DocShape, Dated, ItemShape, RowShape, StagedInHand, runVars

LEMMA NextShape == Shape /\ [RunNext]_runVars => Shape'
  <1> SUFFICES ASSUME Shape, [RunNext]_runVars PROVE Shape'
    OBVIOUS
  <1>1. RunTypeOK'
    BY RunTypesNext DEF Shape
  <1> QED
    BY <1>1, SameShape, ItemStepShape, RunStepShape, WorldStepShape DEF RunNext, Shape

\* Types: whatever the source, the parser, crashes and failing calls do.
THEOREM RunTypes == RunSpec => []RunTypeOK
  BY InitShape, NextShape, PTL DEF RunSpec, Shape

-----------------------------------------------------------------------------
(* The objects and the rows.  Two changes never have one date.             *)

DistinctDates == ~Coarse

\* A goroutine works on the last version, unless that came after the window.
Current(d) == item[d].pc # "idle" /\ src[d].at <= run.end => item[d].ver = src[d].ver

\* A document that is in the parser during a run has got its content in this
\* run: it may be listed once more, but not written.
Parsing(d) ==
    ~SlowParse /\ run.kind = "sync" /\ task[d] \in {"created", "running"} =>
        /\ src[d].at <= run.end => docRow[d].exists /\ docRow[d].hash = src[d].ver
        /\ item[d].pc = "begin" => docRow[d].exists /\ docRow[d].hash = item[d].ver
        /\ item[d].pc \notin Early \cup {"put"}
        /\ item[d].pc \in Late => item[d].mode = "ensure"

\* The object of a row exists, and a staged one is not yet that of the row.
Backed(d) ==
    FailAt \subseteq EarlySteps /\ ~SlowParse =>
        /\ docRow[d].loc # 0 => store[d][docRow[d].loc] # "none"
        /\ item[d].pc \in Early => item[d].key # docRow[d].loc

DocTidy(d) == Current(d) /\ Parsing(d) /\ Backed(d)
Tidy == \A d \in Docs : DocTidy(d)

LEMMA InitTidy == RunInit => Tidy
  BY DEF RunInit, Tidy, DocTidy, Current, Parsing, Backed, NoItem, NoRun, Absent, Early, Late

LEMMA ItemsAreOfSyncs == Shape /\ run.pc = "items" => run.kind = "sync"
  BY DEF Shape, RunShape, NoRun

LEMMA ItemStepTidy ==
    ASSUME DistinctDates, Shape, Tidy, NEW d \in Docs, ItemStep(d) PROVE Tidy'
  <1>0. /\ UNCHANGED <<connector, clock, src, here, water, run, crashes>> /\ run.pc = "items"
        /\ \A e \in Docs \ {d} : SameDoc(e) /\ item'[e] = item[e]
    BY OtherDocs DEF Shape
  <1>k. run.kind = "sync"
    BY <1>0, ItemsAreOfSyncs
  <1>f. UNCHANGED <<SlowParse, FailAt>>
    BY <1>0 DEF SlowParse, FailAt
  <1>1. ASSUME NEW e \in Docs \ {d} PROVE DocTidy(e)'
    <2>1. SameDoc(e) /\ item'[e] = item[e] /\ DocTidy(e)
      BY <1>0 DEF Tidy
    <2> QED
      BY <1>0, <1>f, <2>1 DEF DocTidy, Current, Parsing, Backed, SameDoc
  <1>t. /\ RunTypeOK /\ DocTidy(d) /\ ItemShape(d) /\ RowShape(d)
        /\ item[d] \in ItemType /\ docRow[d] \in RowType /\ Keys \subseteq Nat /\ 0 \notin Keys
        /\ store[d] \in [Keys -> Objects]
        /\ task[d] \in {"none", "created", "running", "done"}
    BY DocTypes DEF Shape, DocShape, Tidy
  <1>2. DocTidy(d)'
    <2> USE <1>0, <1>k, <1>f, <1>t DEF DocTidy, Current, Parsing, Backed, Moved, Early, Late,
            ItemType, RowType
    <2>1. CASE Begin(d)
      BY <2>1, BeginAt DEF SameDoc, NoItem, Unchanged
    <2>2. CASE Put(d)
      <3>1. PICK k \in Keys, how \in {"insert", "update"} :
              /\ k # docRow[d].loc /\ store[d][k] = "none"
              /\ Moved(d, how, k, how)
              /\ store'[d] = [store[d] EXCEPT ![k] = "staged"]
        BY <2>2, PutAt
      <3>2. item[d].pc = "put" /\ docRow'[d] = docRow[d] /\ task'[d] = task[d]
        BY <2>2, PutAt
      <3>3. \A j \in Keys : store'[d][j] = IF j = k THEN "staged" ELSE store[d][j]
        BY <3>1
      <3>4. docRow[d].loc # 0 => docRow[d].loc \in Keys
        OBVIOUS
      <3>5. Current(d)' /\ Parsing(d)'
        BY <3>1, <3>2
      <3>6. Backed(d)'
        BY <3>1, <3>2, <3>3, <3>4
      <3> QED
        BY <3>5, <3>6
    <2>3. CASE Insert(d)
      BY <2>3, InsertAt DEF ItemShape
    <2>4. CASE Update(d)
      BY <2>4, UpdateAt DEF SameDoc
    <2>5. CASE Publish(d)
      <3>1. PICK k \in Keys : k = item[d].key
        BY <2>5, PublishAt DEF ItemShape
      <3>2. /\ item[d].pc = "publish" /\ Moved(d, "file", k, item[d].mode)
            /\ docRow'[d].exists /\ docRow'[d].loc = k /\ docRow'[d].hash = item[d].ver
            /\ task'[d] = task[d]
        BY <2>5, <3>1, PublishAt
      <3>p. store'[d] = [store[d] EXCEPT ![k] = "published"]
        BY <2>5, <3>1, PublishAt
      <3>3. store'[d][k] = "published"
        BY ONLY <3>p, <1>t, k \in Keys
      <3>4. Current(d)' /\ Parsing(d)'
        BY <3>2
      <3>5. Backed(d)'
        BY <3>2, <3>3
      <3> QED
        BY <3>4, <3>5
    <2>6. CASE WriteFile(d)
      BY <2>6, WriteFileAt
    <2>7. CASE WriteMeta(d)
      BY <2>7, WriteMetaAt
    <2>8. CASE StartParse(d)
      BY <2>8, StartParseAt DEF NoItem, ItemShape
    <2>9. CASE StepFails(d)
      <3>1. Current(d)' /\ Parsing(d)'
        BY <2>9, StepFailsAt, ConnectorTypes DEF Absent, RowShape, ItemShape, Steps, RunTypeOK
      <3>2. Backed(d)'
        <4>1. /\ item[d].pc \in FailAt /\ item'[d].pc = "failed"
              /\ \A k \in Keys : store'[d][k] = "none" => store[d][k] = "none" \/ k = item[d].key
              /\ docRow'[d] = docRow[d] \/ docRow'[d].loc = 0
          <5>1. /\ item[d].pc \in FailAt /\ Moved(d, "failed", item[d].key, item[d].mode)
                /\ Cleaned(d)
                /\ docRow'[d] = docRow[d] \/ docRow'[d] = Absent
            BY ONLY <1>t, <2>9, StepFailsAt
          <5>2. item'[d].pc = "failed"
            BY ONLY <5>1 DEF Moved
          <5>3. \A k \in Keys : store'[d][k] = "none" => store[d][k] = "none" \/ k = item[d].key
            BY ONLY <5>1 DEF Cleaned
          <5>4. docRow'[d] = docRow[d] \/ docRow'[d].loc = 0
            BY ONLY <5>1 DEF Absent
          <5> QED
            BY ONLY <5>1, <5>2, <5>3, <5>4
        <4>2. ASSUME FailAt \subseteq EarlySteps, docRow[d].loc # 0
              PROVE  item[d].key # docRow[d].loc \/ SlowParse
          BY <4>1, <4>2 DEF EarlySteps, ItemShape
        <4> QED
          BY <4>1, <4>2
      <3> QED
        BY <3>1, <3>2
    <2>10. CASE ParseRefused(d)
      <3>1. Current(d)' /\ Parsing(d)'
        BY <2>10, ParseRefusedAt
      <3>2. ~SlowParse => item[d].key = 0
        BY <2>10, ParseRefusedAt DEF ItemShape, CanParse
      <3>3. /\ item'[d].pc = "failed" /\ docRow'[d] = docRow[d]
            /\ \A k \in Keys : store'[d][k] = "none" => store[d][k] = "none" \/ k = item[d].key
        BY ONLY <1>t, <2>10, ParseRefusedAt DEF Moved, Cleaned
      <3>4. Backed(d)'
        <4>1. docRow[d].loc # 0 => docRow[d].loc \in Keys
          OBVIOUS
        <4>2. Backed(d)
          OBVIOUS
        <4> QED
          BY ONLY <1>f, <3>2, <3>3, <4>1, <4>2, <1>t DEF Backed, Early
      <3> QED
        BY <3>1, <3>4
    <2> QED
      BY <2>1, <2>2, <2>3, <2>4, <2>5, <2>6, <2>7, <2>8, <2>9, <2>10 DEF ItemStep
  <1> QED
    BY <1>1, <1>2 DEF Tidy

\* Without goroutines and a run there is only Backed to keep.
LEMMA RunStepTidy ==
    ASSUME DistinctDates, Shape, Shape', Tidy, RunStep PROVE Tidy'
  <1>t. RunTypeOK /\ RunShape /\ run \in RunType /\ clock \in Nat
    BY TypeParts DEF Shape, SourceTypes
  <1> USE <1>t
  <1>u. UNCHANGED sourceVars
    BY BatchShape
    DEF RunStep, OpenSync, EndBatch, CompleteSync, SourceFails, OpenPrune, NextSlimBatch,
        ListStale, DeleteDocument, CompletePrune, RunCrash
  <1>f. UNCHANGED <<connector, src, SlowParse, FailAt>>
    BY <1>u DEF SlowParse, FailAt, sourceVars
  <1>1. ASSUME NEW e \in Docs, SameDoc(e), item'[e] = NoItem, run'.kind # "sync"
        PROVE  DocTidy(e)'
    BY <1>f, <1>1 DEF Tidy, DocTidy, Current, Parsing, Backed, SameDoc, NoItem, Early
  <1>2. CASE run'.kind # "sync" /\ UNCHANGED docVars
    <2>1. run'.pc # "items"
      BY <1>2 DEF Shape, RunShape, NoRun
    <2>2. \A e \in Docs : item'[e] = NoItem /\ SameDoc(e)
      BY <1>2, <2>1 DEF Shape, RunShape, SameDoc, docVars
    <2> QED
      BY <1>1, <1>2, <2>2 DEF Tidy
  <1>3. CASE OpenSync
    <2>1. /\ run.pc = "idle" /\ UNCHANGED <<docVars, item>>
          /\ SlowParse \/ \A e \in Docs : task[e] \notin {"created", "running"}
      BY <1>3 DEF OpenSync, NoRun
    <2>2. \A e \in Docs : item[e] = NoItem
      BY <2>1 DEF RunShape
    <2> QED
      BY <1>f, <2>1, <2>2
      DEF Tidy, DocTidy, Current, Parsing, Backed, docVars, NoItem, Early, Late
  <1>4. CASE NextBatch
    <2>1. /\ run.pc = "list" /\ run.kind = "sync" /\ UNCHANGED docVars
          /\ run'.kind = run.kind /\ run'.end = run.end
      BY <1>4, BatchShape DEF RunType
    <2>2. ASSUME NEW e \in Docs PROVE DocTidy(e)'
      <3>1. item[e] = NoItem /\ DocTidy(e)
        BY <2>1 DEF RunShape, Tidy
      <3>2. CASE e \in Listing
        <4>1. item'[e].pc = "begin" /\ item'[e].ver = src[e].ver
          BY <1>4, <3>2, BatchShape DEF StartOf, NoItem
        <4>2. src[e].at <= run.end
          BY <3>2, DocTypes DEF Listing, AfterWindowEnd, Changes, RunType
        <4> QED
          BY <1>f, <2>1, <3>1, <4>1, <4>2
          DEF DocTidy, Current, Parsing, Backed, docVars, Early, Late
      <3>3. CASE e \notin Listing
        <4>1. item'[e] = NoItem
          BY <1>4, <3>3, BatchShape
        <4> QED
          BY <1>f, <2>1, <3>1, <4>1
          DEF DocTidy, Current, Parsing, Backed, docVars, NoItem, Early, Late
      <3> QED
        BY <3>2, <3>3
    <2> QED
      BY <2>2 DEF Tidy
  <1>5. CASE EndBatch
    <2>1. CASE run' = NoRun
      BY <1>2, <1>5, <2>1 DEF EndBatch, NoRun
    <2>2. CASE run' # NoRun
      <3>1. /\ \A e \in Docs : item'[e] = NoItem
            /\ UNCHANGED docVars /\ run'.kind = run.kind /\ run'.end = run.end
        BY <1>5, <2>2 DEF EndBatch, RunTo, RunType
      <3> QED
        BY <1>f, <3>1 DEF Tidy, DocTidy, Current, Parsing, Backed, docVars, NoItem, Early, Late
    <2> QED
      BY <2>1, <2>2
  <1>6. CASE DeleteDocument
    <2>1. run.kind # "sync" /\ run.pc = "delete" /\ UNCHANGED item
      BY <1>6 DEF DeleteDocument, RunShape
    <2>2. run'.kind # "sync"
      BY <1>6, <2>1, DeleteAt DEF NoRun, RunType
    <2>3. ASSUME NEW e \in Docs PROVE DocTidy(e)'
      <3>1. SameDoc(e) \/ Deleted(e)
        BY <1>6, DeleteAt
      <3>2. item'[e] = NoItem
        BY <2>1 DEF RunShape
      <3>3. CASE SameDoc(e)
        BY <1>1, <2>2, <3>2, <3>3
      <3>4. CASE Deleted(e)
        BY <1>f, <2>2, <3>2, <3>4
        DEF Tidy, DocTidy, Current, Parsing, Backed, Deleted, Absent, NoItem, Early
      <3> QED
        BY <3>1, <3>3, <3>4
    <2> QED
      BY <2>3 DEF Tidy
  <1>7. CASE CompleteSync
    BY <1>2, <1>7 DEF CompleteSync, NoRun
  <1>8. CASE SourceFails
    BY <1>2, <1>8 DEF SourceFails, NoRun
  <1>9. CASE OpenPrune
    BY <1>2, <1>9 DEF OpenPrune, NoRun
  <1>10. CASE NextSlimBatch
    BY <1>2, <1>10 DEF NextSlimBatch, RunType
  <1>11. CASE ListStale
    BY <1>2, <1>11 DEF ListStale, RunType
  <1>12. CASE CompletePrune
    BY <1>2, <1>12 DEF CompletePrune, NoRun
  <1>13. CASE RunCrash
    BY <1>2, <1>13 DEF RunCrash, NoRun
  <1> QED
    BY <1>3, <1>4, <1>5, <1>6, <1>7, <1>8, <1>9, <1>10, <1>11, <1>12, <1>13 DEF RunStep

LEMMA WorldStepTidy ==
    ASSUME DistinctDates, Shape, Tidy, NEW d \in Docs, Edit(d) \/ SourceRemove(d) \/ ParserStep(d)
    PROVE  Tidy'
  <1>t. RunTypeOK /\ run \in RunType /\ clock \in Nat
    BY TypeParts DEF Shape, SourceTypes
  <1>1. CASE Edit(d)
    <2>1. /\ UNCHANGED <<connector, docVars, run, item>>
          /\ src'[d].at > run.end /\ ~(src'[d].at <= run.end)
          /\ \A e \in Docs \ {d} : src'[e] = src[e]
      BY <1>t, <1>1, EditAt DEF DistinctDates, RunType
    <2>2. UNCHANGED <<SlowParse, FailAt>>
      BY <2>1 DEF SlowParse, FailAt
    <2> QED
      BY <2>1, <2>2 DEF Tidy, DocTidy, Current, Parsing, Backed, docVars
  <1>2. CASE SourceRemove(d)
    <2>1. UNCHANGED <<connector, src, docVars, run, item, SlowParse, FailAt>>
      BY <1>2 DEF SourceRemove, SlowParse, FailAt
    <2> QED
      BY <2>1 DEF Tidy, DocTidy, Current, Parsing, Backed, docVars
  <1>3. CASE ParserStep(d)
    <2>1. UNCHANGED <<SlowParse, FailAt>>
      BY <1>t, <1>3, ParserStepAt DEF SlowParse, FailAt, sourceVars
    <2> QED
      BY <1>t, <1>3, <2>1, ParserStepAt DEF Tidy, DocTidy, Current, Parsing, Backed, sourceVars
  <1> QED
    BY <1>1, <1>2, <1>3

LEMMA NextTidy == DistinctDates /\ Shape /\ Tidy /\ [RunNext]_runVars => Tidy'
  <1> SUFFICES ASSUME DistinctDates, Shape, Tidy, [RunNext]_runVars PROVE Tidy'
    OBVIOUS
  <1>1. Shape'
    BY NextShape
  <1>2. CASE UNCHANGED runVars
    <2>1. UNCHANGED <<SlowParse, FailAt>>
      BY <1>2 DEF SlowParse, FailAt, runVars
    <2> QED
      BY <1>2, <2>1 DEF Tidy, DocTidy, Current, Parsing, Backed, runVars
  <1> QED
    BY <1>1, <1>2, ItemStepTidy, RunStepTidy, WorldStepTidy DEF RunNext

LEMMA TidyObjects == Shape /\ Tidy => ObjectsFollowRows
  <1> SUFFICES ASSUME Shape, Tidy PROVE ObjectsFollowRows
    OBVIOUS
  <1>1. ASSUME run = NoRun, crashes = 0, NEW d \in Docs, NEW k \in Keys
        PROVE  store[d][k] # "staged"
    BY <1>1 DEF Shape, RunShape, DocShape, StagedInHand, NoRun, NoItem, Early
  <1> QED
    BY <1>1 DEF ObjectsFollowRows, Tidy, DocTidy, Backed

\* The objects and the rows agree (Upsert and its deferred cleanup), for any
\* number of documents, faults and crashes.
THEOREM ObjectsAgree ==
    ASSUME DistinctDates PROVE RunSpec => []ObjectsFollowRows
  <1>1. Shape /\ Tidy /\ [RunNext]_runVars => (Shape /\ Tidy)'
    BY NextShape, NextTidy
  <1> QED
    BY <1>1, InitShape, InitTidy, TidyObjects, PTL DEF RunSpec

-----------------------------------------------------------------------------
(* Pages that are read one after the other while the source changes.       *)

SinglePage == PageSize >= Cardinality(Docs)

\* The source lists all documents on one page, or none is taken away between
\* two pages: not by a removal, nor, of a prune, by a change that moves it to
\* the front.
SteadyPages ==
    \A c \in Connectors :
        \/ c.pageSize >= Cardinality(Docs)
        \/ /\ "remove" \notin c.sourceOps
           /\ "prune" \in c.kinds => "edit" \notin c.sourceOps

\* The document is on a page that the run has still to read.
Later(d) == ~run.eof /\ Rank(d) >= run.page * PageSize

LEMMA RankTypes ==
    ASSUME RunTypeOK, NEW d \in here
    PROVE  Rank(d) \in Nat /\ Rank(d) < Cardinality(Docs)
  <1> DEFINE S == {e \in here : Before(e, d)}
  <1>1. d \in Docs /\ src[d].at \in Nat /\ d \in Nat
    <2>1. src \in [Docs -> Changes] /\ d \in Docs /\ clock \in Nat
      BY DocTypes DEF RunTypeOK
    <2>2. Docs \subseteq Nat
      BY RunAssumption
    <2> QED
      BY <2>1, <2>2 DEF Changes
  <1>2. d \notin S /\ S \subseteq Docs
    <2>1. ~Before(d, d)
      BY <1>1 DEF Before
    <2> QED
      BY <2>1, DocTypes
  <1>3. IsFiniteSet(Docs)
    BY RunAssumption
  <1>4. IsFiniteSet(S) /\ Cardinality(S) <= Cardinality(Docs)
        /\ (Cardinality(S) = Cardinality(Docs) => S = Docs)
    <2> HIDE DEF S
    <2> QED
      BY <1>2, <1>3, FS_Subset
  <1>5. Cardinality(S) \in Nat /\ Cardinality(Docs) \in Nat
    <2> HIDE DEF S
    <2> QED
      BY <1>3, <1>4, FS_CardinalityType
  <1>6. Cardinality(S) # Cardinality(Docs)
    BY <1>1, <1>2, <1>4
  <1>7. Rank(d) = Cardinality(S)
    BY DEF Rank
  <1> HIDE DEF S
  <1> QED
    BY <1>4, <1>5, <1>6, <1>7

LEMMA RankTypesNext == RunTypeOK' => (\A d \in here : Rank(d) \in Nat)'
  <1>1. RunTypeOK => \A d \in here : Rank(d) \in Nat
    BY RankTypes
  <1> QED
    BY <1>1, PTL

\* Documents are listed in the order of their last change.
LEMMA RankOrder ==
    ASSUME RunTypeOK, NEW d \in here, NEW e \in here, Rank(d) < Rank(e)
    PROVE  src[d].at >= src[e].at
  <1> DEFINE D == {x \in here : Before(x, d)}
             E == {x \in here : Before(x, e)}
  <1>1. \A x \in here : src[x].at \in Nat /\ x \in Nat
    <2>1. src \in [Docs -> Changes] /\ here \subseteq Docs /\ clock \in Nat
      BY DocTypes DEF RunTypeOK
    <2>2. Docs \subseteq Nat
      BY RunAssumption
    <2> QED
      BY <2>1, <2>2 DEF Changes
  <1>2. SUFFICES ASSUME src[d].at < src[e].at PROVE FALSE
    BY <1>1
  <1>3. E \subseteq D
    BY <1>1, <1>2 DEF Before
  <1>4. IsFiniteSet(D)
    <2>1. D \subseteq Docs /\ IsFiniteSet(Docs)
      BY DocTypes, RunAssumption
    <2> HIDE DEF D
    <2> QED
      BY <2>1, FS_Subset
  <1>5. Cardinality(E) <= Cardinality(D)
    <2> HIDE DEF D, E
    <2> QED
      BY <1>3, <1>4, FS_Subset
  <1>6. Rank(d) = Cardinality(D) /\ Rank(e) = Cardinality(E)
    BY DEF Rank
  <1> HIDE DEF D, E
  <1> QED
    BY <1>5, <1>6, RankTypes

\* A change moves a document to the front, and no other one towards it.
LEMMA RankGrows ==
    ASSUME RunTypeOK, RunTypeOK', NEW x \in Docs, Edit(x), NEW d \in here, d # x
    PROVE  Rank(d)' >= Rank(d)
  <1>1. PICK D : D = {e \in here : Before(e, d)}
    OBVIOUS
  <1>2. PICK E : E = {e \in here' : Before(e, d)'}
    OBVIOUS
  <1>3. d \in Docs /\ d \in here'
    BY DocTypes, EditAt
  <1>4. \A e \in here : /\ src[e].at \in Nat /\ e \in Nat /\ e \in here' /\ src[e].at <= clock
                        /\ e # x => src'[e] = src[e]
    BY DocTypes, EditAt, RunAssumption DEF Changes, RunTypeOK
  <1>5. src'[x].at = clock' /\ clock <= clock' /\ clock \in Nat /\ clock' \in Nat
    BY EditAt DEF RunTypeOK
  <1>6. ASSUME NEW e \in D PROVE e \in E
    <2>1. e \in here /\ Before(e, d)
      BY <1>1
    <2>2. CASE e = x
      BY <1>2, <1>4, <1>5, <2>1, <2>2 DEF Before
    <2>3. CASE e # x
      BY <1>2, <1>4, <2>1, <2>3 DEF Before
    <2> QED
      BY <2>2, <2>3
  <1>7. IsFiniteSet(E)
    <2>1. here' \subseteq Docs
      BY DEF RunTypeOK
    <2>2. E \subseteq Docs /\ IsFiniteSet(Docs)
      BY <1>2, <2>1, RunAssumption
    <2> QED
      BY <2>2, FS_Subset
  <1>8. Cardinality(D) <= Cardinality(E)
    BY <1>6, <1>7, FS_Subset
  <1>9. Rank(d) = Cardinality(D) /\ Rank(d)' = Cardinality(E)
    BY <1>1, <1>2 DEF Rank
  <1>10. Rank(d) \in Nat
    BY RankTypes
  <1>11. Cardinality(E) \in Nat
    BY <1>7, FS_CardinalityType
  <1> QED
    BY <1>8, <1>9, <1>10, <1>11

\* With one page only, what is still to be read is all.
LEMMA FirstPage ==
    ASSUME RunTypeOK, SinglePage, NEW d \in here, Later(d)
    PROVE  run.page = 0
  <1>1. /\ run.page \in Nat /\ PageSize \in Nat \ {0} /\ Rank(d) \in Nat
        /\ Rank(d) < Cardinality(Docs) /\ Cardinality(Docs) \in Nat
    BY TypeParts, ConnectorTypes, RankTypes, RunAssumption, FS_CardinalityType
    DEF RunType, SourceTypes
  <1>2. ASSUME run.page >= 1 PROVE run.page * PageSize >= PageSize
    <2>1. PICK n \in Nat : run.page = 1 + n
      BY <1>1, <1>2
    <2>2. run.page * PageSize = PageSize + n * PageSize /\ n * PageSize >= 0
      BY <1>1, <2>1
    <2> QED
      BY <1>1, <2>2
  <1>3. CASE run.page >= 1
    <2>1. run.page * PageSize \in Nat
      BY <1>1
    <2> QED
      BY <1>1, <1>2, <1>3, <2>1 DEF Later, SinglePage
  <1> QED
    BY <1>1, <1>3

LEMMA Steady ==
    ASSUME SteadyPages, RunTypeOK
    PROVE  SinglePage \/ ("remove" \notin SourceOps /\ ("prune" \in Kinds => "edit" \notin SourceOps))
  BY DEF SteadyPages, RunTypeOK, SinglePage, PageSize, SourceOps, Kinds

\* What is still to be read stays so while the source changes.
LEMMA LaterKept ==
    ASSUME SteadyPages, RunTypeOK, RunTypeOK', NEW x \in Docs, Edit(x) \/ SourceRemove(x),
           NEW d \in here, d \in here', d # x \/ SinglePage, Later(d)
    PROVE  Later(d)'
  <1>1. UNCHANGED <<run, PageSize>>
    BY EditAt DEF SourceRemove, PageSize
  <1>2. CASE SinglePage
    <2>1. run.page = 0
      BY <1>2, FirstPage
    <2>2. PICK r \in Nat : r = Rank(d)'
      BY RankTypesNext
    <2>3. PageSize \in Nat
      BY ConnectorTypes DEF RunTypeOK
    <2> QED
      BY <1>1, <2>1, <2>2, <2>3 DEF Later
  <1>3. CASE ~SinglePage
    <2>1. Edit(x) /\ d # x
      BY <1>3, Steady DEF SourceRemove
    <2>2. Rank(d)' >= Rank(d) /\ Rank(d) \in Nat /\ Rank(d)' \in Nat
      BY <2>1, RankGrows, RankTypes, RankTypesNext
    <2>3. run.page \in Nat /\ PageSize \in Nat
      BY TypeParts, ConnectorTypes DEF RunType, SourceTypes
    <2>4. run.page * PageSize \in Nat
      BY <2>3
    <2> QED
      BY <1>1, <2>2, <2>4 DEF Later
  <1> QED
    BY <1>2, <1>3

\* A document that is not before the page is on it or on a later one, and then
\* nothing on the page was changed before it.
LEMMA NextPage ==
    ASSUME RunTypeOK, NEW d \in here, Rank(d) >= run.page * PageSize, d \notin PageOf(run.page)
    PROVE  /\ HasNextPage(run.page) /\ Rank(d) >= (run.page + 1) * PageSize
           /\ \A e \in PageOf(run.page) : src[e].at >= src[d].at
  <1>1. run.page \in Nat /\ PageSize \in Nat \ {0} /\ Rank(d) \in Nat
    BY TypeParts, ConnectorTypes, RankTypes DEF RunType, SourceTypes
  <1>2. Rank(d) \div PageSize \in Nat /\ Rank(d) \div PageSize > run.page
        /\ Rank(d) >= (run.page + 1) * PageSize
    <2>1. Rank(d) \div PageSize # run.page
      BY DEF PageOf
    <2> QED
      BY <1>1, <2>1, PageOfRank
  <1>3. ASSUME NEW e \in PageOf(run.page) PROVE src[e].at >= src[d].at
    <2>1. e \in here /\ Rank(e) \div PageSize = run.page
      BY <1>3 DEF PageOf
    <2>2. Rank(e) \in Nat
      BY <2>1, RankTypes
    <2>3. PICK q \in Nat : q = Rank(e) \div PageSize /\ Rank(e) < q * PageSize + PageSize
      BY <1>1, <2>2
    <2>4. Rank(e) < (run.page + 1) * PageSize
      BY <1>1, <2>1, <2>2, <2>3
    <2>5. (run.page + 1) * PageSize \in Nat
      BY <1>1
    <2>6. Rank(e) < Rank(d)
      BY <1>1, <1>2, <2>2, <2>4, <2>5
    <2> QED
      BY <2>1, <2>6, RankOrder
  <1> QED
    BY <1>2, <1>3 DEF HasNextPage

-----------------------------------------------------------------------------
(* The waterline.                                                          *)

Arrived(d) == docRow[d].exists /\ docRow[d].hash = src[d].ver /\ docRow[d].loc # 0

\* A sync run does not lose a change in its window: it has arrived, is still
\* to be listed or is in the hands of a goroutine.
Listed(d) ==
    run.kind = "sync" /\ d \in here /\ src[d].at > run.start /\ src[d].at <= run.end
        => Arrived(d) \/ Later(d) \/ item[d].pc # "idle"

\* What an upsert inserts, and may take back, the waterline has not passed.
InsertsNew(d) ==
    d \in here /\ item[d].mode = "insert" /\ item[d].pc # "failed" => src[d].at > water

Covered(d) == d \in here /\ src[d].at <= water => Arrived(d)

\* A prune run has seen what exists or will, and what it holds for stale never
\* comes back.
Pruned(d) ==
    run.kind = "prune" =>
        /\ run.pc = "list" /\ d \in here /\ docRow[d].exists => d \in run.seen \/ Later(d)
        /\ run.pc = "delete" /\ d \in run.stale => d \notin here /\ src[d].ver > 0

DocSafe(d) == Listed(d) /\ InsertsNew(d) /\ Covered(d) /\ Pruned(d)
Safe == \A d \in Docs : DocSafe(d)

LEMMA InitSafe == RunInit => Safe
  BY DEF RunInit, Safe, DocSafe, Listed, InsertsNew, Covered, Pruned, NoRun

LEMMA ItemStepSafe ==
    ASSUME Shape, Tidy, Safe, NEW d \in Docs, ItemStep(d) PROVE Safe'
  <1>0. /\ UNCHANGED <<connector, clock, src, here, water, run, crashes>> /\ run.pc = "items"
        /\ \A e \in Docs \ {d} : SameDoc(e) /\ item'[e] = item[e]
    BY OtherDocs DEF Shape
  <1>k. run.kind = "sync"
    BY <1>0, ItemsAreOfSyncs
  <1>l. \A e \in Docs : Later(e)' = Later(e)
    BY <1>0 DEF Later, Rank, Before, PageSize
  <1>1. ASSUME NEW e \in Docs \ {d} PROVE DocSafe(e)'
    <2>1. SameDoc(e) /\ item'[e] = item[e] /\ DocSafe(e)
      BY <1>0 DEF Safe
    <2> QED
      BY <1>0, <1>l, <2>1 DEF DocSafe, Listed, InsertsNew, Covered, Pruned, Arrived, SameDoc
  <1>t. /\ RunTypeOK /\ DocSafe(d) /\ Current(d) /\ ItemShape(d) /\ RowShape(d) /\ Dated(d)
        /\ item[d] \in ItemType /\ docRow[d] \in RowType
        /\ src[d].at \in Nat /\ src[d].ver \in Nat /\ water \in Nat /\ run.end \in Nat
        /\ water <= run.end
    <2>1. src[d] \in Changes /\ clock \in Nat /\ run \in RunType /\ water \in 0..clock
          /\ MaxVer \in Nat
      BY DocTypes, TypeParts DEF Shape, SourceTypes
    <2> QED
      BY <2>1, <1>k, DocTypes DEF Shape, DocShape, Safe, Tidy, DocTidy, Changes, RunType, RunShape
  <1>2. Pruned(d)'
    BY <1>0, <1>k DEF Pruned
  <1>3. Listed(d)' /\ InsertsNew(d)' /\ Covered(d)'
    <2> USE <1>0, <1>k, <1>l, <1>t
            DEF DocSafe, Listed, InsertsNew, Covered, Arrived, Current, Moved, Early, Late, ItemType, RowType
    <2>1. CASE Begin(d)
      BY <2>1, BeginAt DEF SameDoc, NoItem, Unchanged, ItemShape, RowShape
    <2>2. CASE Put(d)
      <3>1. PICK how \in {"insert", "update"} :
              /\ item'[d].pc = how /\ item'[d].mode = how
              /\ how = "update" <=> docRow[d].exists
        BY ONLY <1>t, <2>2, PutMode
      <3>2. docRow'[d] = docRow[d] /\ item[d].pc # "idle"
        BY ONLY <1>t, <2>2, PutAt
      <3> QED
        BY <3>1, <3>2
    <2>3. CASE Insert(d)
      BY <2>3, InsertAt DEF ItemShape
    <2>4. CASE Update(d)
      BY <2>4, UpdateAt DEF SameDoc
    <2>5. CASE Publish(d)
      <3>k. item[d].key \in Keys /\ item[d].ver \in Nat /\ item[d].key # 0
        <4>1. item[d].pc = "publish"
          BY ONLY <1>t, <2>5, PublishAt
        <4>2. MaxVer \in Nat /\ item[d].key # 0
          BY <1>t, <4>1, DocTypes DEF ItemShape
        <4> QED
          BY ONLY <1>t, <4>2 DEF ItemType
      <3>1. PICK k \in Keys, v \in Nat : k = item[d].key /\ k # 0 /\ v = item[d].ver
        BY ONLY <3>k
      <3>2. /\ item[d].pc = "publish" /\ item'[d].pc = "file" /\ item'[d].mode = item[d].mode
            /\ docRow'[d].exists /\ docRow'[d].loc = k /\ docRow'[d].hash = v
        BY <2>5, <3>1, PublishAt
      <3>3. src[d].at <= run.end => Arrived(d)'
        BY <3>1, <3>2
      <3> QED
        BY <3>2, <3>3
    <2>6. CASE WriteFile(d)
      BY <2>6, WriteFileAt
    <2>7. CASE WriteMeta(d)
      BY <2>7, WriteMetaAt
    <2>8. CASE StartParse(d)
      BY <2>8, StartParseAt DEF NoItem, ItemShape, RowShape, CanParse
    <2>9. CASE StepFails(d)
      BY <2>9, StepFailsAt DEF Absent, ItemShape
    <2>10. CASE ParseRefused(d)
      BY <2>10, ParseRefusedAt
    <2> QED
      BY <2>1, <2>2, <2>3, <2>4, <2>5, <2>6, <2>7, <2>8, <2>9, <2>10 DEF ItemStep
  <1> QED
    BY <1>1, <1>2, <1>3 DEF Safe, DocSafe

LEMMA RunStepSafe ==
    ASSUME Shape, Shape', Safe, RunStep PROVE Safe'
  <1>t. RunTypeOK /\ RunShape /\ run \in RunType /\ clock \in Nat /\ water \in 0..clock
    BY TypeParts DEF Shape, SourceTypes
  <1>d. ASSUME NEW e \in Docs
        PROVE  /\ src[e].at \in Nat /\ src[e].ver \in Nat
               /\ Dated(e) /\ ItemShape(e) /\ RowShape(e) /\ DocSafe(e)
    BY <1>t, DocTypes DEF Shape, DocShape, Safe, Changes
  <1> USE <1>t
  <1>u. UNCHANGED sourceVars
    BY BatchShape
    DEF RunStep, OpenSync, EndBatch, CompleteSync, SourceFails, OpenPrune, NextSlimBatch,
        ListStale, DeleteDocument, CompletePrune, RunCrash
  <1>r. UNCHANGED <<connector, clock, src, here, PageSize>> /\ \A e \in Docs : Rank(e)' = Rank(e)
    BY <1>u DEF sourceVars, PageSize, Rank, Before
  \* A run that ends with the waterline where it was.
  <1>1. CASE run' = NoRun /\ UNCHANGED <<water, docVars>> /\ \A e \in Docs : item'[e] = NoItem
    BY <1>r, <1>1, <1>d
    DEF Safe, DocSafe, Listed, InsertsNew, Covered, Arrived, Pruned, NoRun, NoItem, docVars
  <1>n. ASSUME run.pc # "items", UNCHANGED item PROVE \A e \in Docs : item[e] = NoItem /\ item'[e] = NoItem
    BY <1>n DEF RunShape
  <1>3. CASE OpenSync
    <2>1. /\ UNCHANGED <<water, docVars, item>> /\ run.pc # "items"
          /\ run'.kind = "sync" /\ run'.eof = FALSE /\ run'.page = 0
      BY <1>3 DEF OpenSync, NoRun
    <2>2. PageSize \in Nat
      BY ConnectorTypes DEF RunTypeOK
    <2>3. ASSUME NEW e \in here PROVE Later(e)'
      <3>1. Rank(e) \in Nat /\ e \in Docs
        BY <1>3, RankTypes, DocTypes
      <3> QED
        BY <1>r, <2>1, <2>2, <3>1 DEF Later
    <2> QED
      BY <1>r, <1>d, <1>n, <2>1, <2>3
      DEF Safe, DocSafe, Listed, InsertsNew, Covered, Arrived, Pruned, docVars, NoItem
  <1>4. CASE NextBatch
    <2>1. /\ run.kind = "sync" /\ run.pc = "list" /\ ~run.eof /\ UNCHANGED <<water, docVars>>
          /\ run'.kind = "sync" /\ run'.start = run.start /\ run'.end = run.end
          /\ run'.page = run.page + 1
          /\ run'.eof = \/ \E d \in PageOf(run.page) : BeforeOrAtWindowStart(d)
                        \/ ~HasNextPage(run.page)
      BY <1>4, BatchShape DEF RunType
    <2>2. ASSUME NEW e \in Docs PROVE Listed(e)'
      <3>1. SUFFICES ASSUME e \in here, src[e].at > run.start, src[e].at <= run.end, ~Arrived(e)
                     PROVE  Later(e)' \/ item'[e].pc # "idle"
        BY <1>r, <2>1 DEF Listed, Arrived, docVars
      <3>2. Later(e)
        BY <1>d, <2>1, <3>1 DEF DocSafe, Listed, RunShape, NoItem
      <3>3. run.start \in Nat /\ run.end \in Nat /\ src[e].at \in Nat
        BY <1>d DEF RunType
      <3>4. CASE e \in PageOf(run.page)
        <4>1. e \in Listing
          BY <3>1, <3>3, <3>4 DEF Listing, BeforeOrAtWindowStart, AfterWindowEnd
        <4> QED
          BY <1>4, <4>1, BatchShape DEF StartOf, NoItem
      <3>5. CASE e \notin PageOf(run.page)
        <4>1. /\ HasNextPage(run.page) /\ Rank(e) >= (run.page + 1) * PageSize
              /\ \A x \in PageOf(run.page) : src[x].at >= src[e].at
          BY <3>1, <3>2, <3>5, NextPage DEF Later
        <4>2. ASSUME NEW x \in PageOf(run.page) PROVE ~BeforeOrAtWindowStart(x)
          <5>1. x \in Docs
            BY DocTypes DEF PageOf
          <5>2. src[x].at \in Nat /\ src[x].at >= src[e].at
            BY <1>d, <4>1, <5>1
          <5> QED
            BY <3>1, <3>3, <5>2 DEF BeforeOrAtWindowStart
        <4>3. run'.eof = FALSE
          BY <2>1, <4>1, <4>2
        <4> QED
          BY <1>r, <2>1, <4>1, <4>3 DEF Later
      <3> QED
        BY <3>4, <3>5
    <2>3. ASSUME NEW e \in Docs PROVE InsertsNew(e)' /\ Covered(e)' /\ Pruned(e)'
      <3>1. item'[e].mode = "none"
        <4>1. item'[e] = StartOf(e) \/ item'[e] = NoItem
          BY <1>4, BatchShape
        <4>2. StartOf(e).mode = "none" /\ NoItem.mode = "none"
          BY ONLY DEF StartOf, NoItem
        <4> QED
          BY ONLY <4>1, <4>2
      <3> QED
        BY <1>r, <1>d, <2>1, <3>1 DEF DocSafe, InsertsNew, Covered, Arrived, Pruned, docVars
    <2> QED
      BY <2>2, <2>3 DEF Safe, DocSafe
  <1>5. CASE EndBatch
    <2>1. CASE run' = NoRun
      BY <1>1, <1>5, <2>1 DEF EndBatch
    <2>2. CASE run' # NoRun
      <3>1. /\ \A e \in Docs : item'[e] = NoItem /\ item[e].pc = "idle"
            /\ UNCHANGED <<water, docVars>> /\ run' = [run EXCEPT !.pc = "list"]
            /\ run.kind = "sync"
        BY <1>5, <2>2 DEF EndBatch, RunTo, Busy
      <3>2. \A e \in Docs : Later(e)' = Later(e)
        BY <1>r, <3>1 DEF Later, RunType
      <3>3. run'.kind = "sync" /\ run'.start = run.start /\ run'.end = run.end
        BY <3>1 DEF RunType
      <3> QED
        BY <1>r, <1>d, <3>1, <3>2, <3>3
        DEF Safe, DocSafe, Listed, InsertsNew, Covered, Arrived, Pruned, NoItem, docVars
    <2> QED
      BY <2>1, <2>2
  <1>6. CASE CompleteSync
    <2>1. /\ run.kind = "sync" /\ run.pc = "list" /\ run.eof /\ run' = NoRun
          /\ UNCHANGED <<docVars, item>>
          /\ water' = run.cand \/ water' = run.end
      BY <1>6 DEF CompleteSync
    <2>2. water' \in Nat /\ water' <= run.end /\ run.start \in Nat /\ run.end \in Nat
          /\ run.start \in {0, water} /\ water \in Nat
      BY <2>1 DEF RunShape, RunType
    <2>3. ASSUME NEW e \in Docs PROVE Covered(e)'
      <3>1. SUFFICES ASSUME e \in here, src[e].at <= water' PROVE Arrived(e)
        BY <1>r, <2>1 DEF Covered, Arrived, docVars
      <3>2. CASE src[e].at > run.start
        <4>1. src[e].at <= run.end
          BY <1>d, <2>2, <3>1
        <4>2. item[e].pc = "idle" /\ ~Later(e)
          BY <2>1 DEF RunShape, NoItem, Later
        <4> QED
          BY <1>d, <2>1, <3>1, <3>2, <4>1, <4>2 DEF DocSafe, Listed
      <3>3. CASE ~(src[e].at > run.start)
        <4>1. src[e].at > 0 /\ src[e].at <= run.start
          BY <1>d, <2>2, <3>1, <3>3 DEF Dated
        <4>2. src[e].at <= water
          BY <1>d, <2>2, <4>1
        <4> QED
          BY <1>d, <3>1, <4>2 DEF DocSafe, Covered
      <3> QED
        BY <3>2, <3>3
    <2> QED
      BY <1>n, <2>1, <2>3 DEF Safe, DocSafe, Listed, InsertsNew, Pruned, NoRun, NoItem
  <1>7. CASE SourceFails
    BY <1>1, <1>7, <1>n DEF SourceFails
  <1>8. CASE OpenPrune
    <2>1. /\ UNCHANGED <<water, docVars, item>> /\ run.pc # "items"
          /\ run'.kind = "prune" /\ run'.pc = "list" /\ run'.eof = FALSE /\ run'.page = 0
      BY <1>8 DEF OpenPrune, NoRun
    <2>2. PageSize \in Nat
      BY ConnectorTypes DEF RunTypeOK
    <2>3. ASSUME NEW e \in here PROVE Later(e)'
      <3>1. Rank(e) \in Nat /\ e \in Docs
        BY <1>8, RankTypes, DocTypes
      <3> QED
        BY <1>r, <2>1, <2>2, <3>1 DEF Later
    <2> QED
      BY <1>r, <1>d, <1>n, <2>1, <2>3
      DEF Safe, DocSafe, Listed, InsertsNew, Covered, Arrived, Pruned, docVars, NoItem
  <1>9. CASE NextSlimBatch
    <2>1. /\ run.kind = "prune" /\ run.pc = "list" /\ ~run.eof
          /\ UNCHANGED <<water, docVars, item>>
          /\ run'.kind = "prune" /\ run'.pc = "list" /\ run'.page = run.page + 1
          /\ run'.seen = run.seen \cup PageOf(run.page)
          /\ run'.eof = ~HasNextPage(run.page)
      BY <1>9 DEF NextSlimBatch, RunType
    <2>2. ASSUME NEW e \in here, e \in Docs, docRow[e].exists PROVE e \in run'.seen \/ Later(e)'
      <3>1. SUFFICES ASSUME e \notin run'.seen PROVE Later(e)'
        OBVIOUS
      <3>2. e \notin PageOf(run.page) /\ Later(e)
        BY <1>d, <2>1, <2>2, <3>1 DEF DocSafe, Pruned
      <3>3. HasNextPage(run.page) /\ Rank(e) >= (run.page + 1) * PageSize
        BY <3>2, NextPage DEF Later
      <3> QED
        BY <1>r, <2>1, <2>2, <3>3 DEF Later
    <2> QED
      BY <1>r, <1>d, <1>n, <2>1, <2>2
      DEF Safe, DocSafe, Listed, InsertsNew, Covered, Arrived, Pruned, docVars, NoItem
  <1>10. CASE ListStale
    <2>1. /\ run.kind = "prune" /\ run.pc = "list" /\ run.eof
          /\ UNCHANGED <<water, docVars, item>>
          /\ run'.kind = "prune" /\ run'.pc = "delete"
          /\ run'.stale = {d \in Docs : docRow[d].exists} \ run.seen
      BY <1>10 DEF ListStale, RunType
    <2>2. ASSUME NEW e \in run'.stale PROVE e \notin here /\ src[e].ver > 0
      <3>1. e \in Docs /\ docRow[e].exists /\ e \notin run.seen
        BY <2>1, <2>2
      <3>2. ~Later(e)
        BY <2>1 DEF Later
      <3> QED
        BY <1>d, <2>1, <3>1, <3>2 DEF DocSafe, Pruned, RowShape
    <2> QED
      BY <1>r, <1>d, <1>n, <2>1, <2>2
      DEF Safe, DocSafe, Listed, InsertsNew, Covered, Arrived, Pruned, docVars, NoItem
  <1>11. CASE DeleteDocument
    <2>1. run.pc = "delete" /\ run.kind = "prune" /\ UNCHANGED <<water, item>>
      BY <1>11 DEF DeleteDocument, RunShape, NoRun
    <2>2. PICK d \in run.stale :
            /\ \A e \in Docs \ {d} : SameDoc(e)
            /\ run' = NoRun \/ run' = [run EXCEPT !.stale = @ \ {d}]
      BY <1>11, DeleteAt
    <2>3. d \in Docs /\ d \notin here
      BY <1>d, <2>1 DEF DocSafe, Pruned, RunType
    <2>4. ASSUME NEW e \in Docs, e \in here PROVE SameDoc(e)
      BY <2>2, <2>3, <2>4
    <2>5. CASE run' = NoRun
      BY <1>r, <1>d, <1>n, <2>1, <2>4, <2>5
      DEF Safe, DocSafe, Listed, InsertsNew, Covered, Arrived, Pruned, NoRun, NoItem, SameDoc
    <2>6. CASE run' = [run EXCEPT !.stale = @ \ {d}]
      <3>1. run'.kind = "prune" /\ run'.pc = "delete" /\ run'.stale \subseteq run.stale
        BY <2>1, <2>6 DEF RunType
      <3> QED
        BY <1>r, <1>d, <1>n, <2>1, <2>4, <3>1
        DEF Safe, DocSafe, Listed, InsertsNew, Covered, Arrived, Pruned, NoItem, SameDoc
    <2> QED
      BY <2>2, <2>5, <2>6
  <1>12. CASE CompletePrune
    BY <1>1, <1>12, <1>n DEF CompletePrune
  <1>13. CASE RunCrash
    BY <1>1, <1>13 DEF RunCrash
  <1> QED
    BY <1>3, <1>4, <1>5, <1>6, <1>7, <1>8, <1>9, <1>10, <1>11, <1>12, <1>13 DEF RunStep

LEMMA WorldStepSafe ==
    ASSUME DistinctDates, SteadyPages, Shape, Shape', Safe,
           NEW x \in Docs, Edit(x) \/ SourceRemove(x) \/ ParserStep(x)
    PROVE  Safe'
  <1>t. RunTypeOK /\ RunTypeOK' /\ RunShape /\ run \in RunType /\ clock \in Nat /\ water \in 0..clock
    BY TypeParts DEF Shape, SourceTypes
  <1>d. ASSUME NEW e \in Docs
        PROVE  src[e].at \in Nat /\ src[e].ver \in Nat /\ RowShape(e) /\ DocSafe(e)
    BY <1>t, DocTypes DEF Shape, DocShape, Safe, Changes
  <1> USE <1>t
  <1>1. CASE Edit(x)
    <2>1. /\ UNCHANGED <<connector, docRow, run, item, water>>
          /\ clock' \in Nat /\ clock < clock' /\ src'[x].at = clock' /\ here' = here \cup {x}
          /\ src'[x].ver > 0
          /\ \A e \in Docs \ {x} : src'[e] = src[e]
          /\ src[x].ver = 0 \/ (x \in here /\ "edit" \in SourceOps)
      BY <1>1, <1>d, EditAt DEF DistinctDates, docVars
    <2>2. src'[x].at > water /\ src'[x].at > run.end
      BY <2>1 DEF RunType
    <2>3. ASSUME NEW e \in Docs, e # x PROVE DocSafe(e)'
      <3>1. e \in here /\ Later(e) => Later(e)'
        BY <1>1, <2>1, <2>3, LaterKept
      <3> QED
        BY <1>d, <2>1, <2>3, <3>1 DEF DocSafe, Listed, InsertsNew, Covered, Arrived, Pruned
    <2>4. Listed(x)' /\ InsertsNew(x)' /\ Covered(x)'
      BY <2>1, <2>2 DEF Listed, InsertsNew, Covered, RunType
    <2>5. Pruned(x)'
      <3>1. SUFFICES ASSUME run.kind = "prune" PROVE Pruned(x)'
        BY <2>1 DEF Pruned
      <3>2. CASE run.pc = "list"
        <4>1. SUFFICES ASSUME docRow[x].exists PROVE x \in run.seen \/ Later(x)'
          BY <2>1, <3>2 DEF Pruned
        <4>2. x \in here /\ "edit" \in SourceOps
          BY <1>d, <2>1, <4>1 DEF RowShape
        <4>3. "prune" \in Kinds
          BY <3>1 DEF RunType
        <4>4. SinglePage
          BY <4>2, <4>3, Steady
        <4>5. x \in run.seen \/ Later(x)
          BY <1>d, <3>1, <3>2, <4>1, <4>2 DEF DocSafe, Pruned
        <4>6. x \in here'
          BY <2>1
        <4> QED
          BY <1>1, <4>2, <4>4, <4>5, <4>6, LaterKept
      <3>3. CASE run.pc = "delete"
        <4>1. x \notin run.stale
          BY <1>d, <2>1, <3>1, <3>3 DEF DocSafe, Pruned
        <4> QED
          BY <2>1, <3>3, <4>1 DEF Pruned
      <3> QED
        BY <3>1, <3>2, <3>3 DEF RunShape
    <2> QED
      BY <2>3, <2>4, <2>5 DEF Safe, DocSafe
  <1>2. CASE SourceRemove(x)
    <2>1. UNCHANGED <<connector, src, docRow, run, item, water>> /\ here' = here \ {x}
          /\ "remove" \in SourceOps
      BY <1>2 DEF SourceRemove, docVars
    <2>2. SinglePage
      BY <2>1, Steady
    <2>3. ASSUME NEW e \in Docs PROVE DocSafe(e)'
      <3>1. e \in here' /\ Later(e) => Later(e)'
        BY <1>2, <2>1, <2>2, LaterKept
      <3>2. e \in here' => e \in here
        BY <2>1
      <3> QED
        BY <1>d, <2>1, <3>1, <3>2 DEF DocSafe, Listed, InsertsNew, Covered, Arrived, Pruned
    <2> QED
      BY <2>3 DEF Safe
  <1>3. CASE ParserStep(x)
    <2>1. UNCHANGED <<connector, clock, src, here, docRow, run, item, water, PageSize>>
      BY <1>3, ParserStepAt DEF sourceVars, PageSize
    <2>2. \A e \in Docs : Later(e)' = Later(e)
      BY <2>1 DEF Later, Rank, Before
    <2> QED
      BY <2>1, <2>2 DEF Safe, DocSafe, Listed, InsertsNew, Covered, Arrived, Pruned
  <1> QED
    BY <1>1, <1>2, <1>3

LEMMA NextSafe ==
    DistinctDates /\ SteadyPages /\ Shape /\ Tidy /\ Safe /\ [RunNext]_runVars => Safe'
  <1> SUFFICES ASSUME DistinctDates, SteadyPages, Shape, Tidy, Safe, [RunNext]_runVars
               PROVE  Safe'
    OBVIOUS
  <1>1. Shape'
    BY NextShape
  <1>2. CASE UNCHANGED runVars
    <2>1. UNCHANGED <<connector, clock, src, here, docRow, run, item, water, PageSize>>
      BY <1>2 DEF runVars, PageSize
    <2>2. \A e \in Docs : Later(e)' = Later(e)
      BY <2>1 DEF Later, Rank, Before
    <2> QED
      BY <2>1, <2>2 DEF Safe, DocSafe, Listed, InsertsNew, Covered, Arrived, Pruned
  <1> QED
    BY <1>1, <1>2, ItemStepSafe, RunStepSafe, WorldStepSafe DEF RunNext

LEMMA SafeAlways ==
    ASSUME DistinctDates, SteadyPages PROVE RunSpec => [](Shape /\ Tidy /\ Safe)
  <1>1. Shape /\ Tidy /\ Safe /\ [RunNext]_runVars => (Shape /\ Tidy /\ Safe)'
    BY NextShape, NextTidy, NextSafe
  <1> QED
    BY <1>1, InitShape, InitTidy, InitSafe, PTL DEF RunSpec

\* The waterline never passes a change that has not arrived (SyncRunner.Run,
\* CompleteSync), for any documents, pages, failing calls and crashes, of a
\* source whose pages are steady.
THEOREM WaterlineSafe ==
    ASSUME DistinctDates, SteadyPages PROVE RunSpec => []WaterlineCovers
  <1>1. Shape /\ Safe => WaterlineCovers
    BY DEF Shape, RunTypeOK, Safe, DocSafe, Covered, Arrived, WaterlineCovers
  <1> QED
    BY <1>1, SafeAlways, PTL

\* A prune run deletes only what the source has no more (PruneRunner.Run).
THEOREM PrunesStale ==
    ASSUME DistinctDates, SteadyPages PROVE RunSpec => PruneOnlyStale
  <1> DEFINE Stale == \A d \in Docs :
                run.kind = "prune" /\ docRow[d].exists /\ ~docRow'[d].exists => d \notin here
  <1>1. Shape /\ Tidy /\ Safe /\ [RunNext]_runVars => [Stale]_runVars
    <2> SUFFICES ASSUME Shape, Tidy, Safe, RunNext, NEW d \in Docs, run.kind = "prune",
                        docRow[d].exists, ~docRow'[d].exists
                 PROVE  d \notin here
      OBVIOUS
    <2>t. RunTypeOK /\ RunShape
      BY DEF Shape
    <2>1. ASSUME NEW e \in Docs, ItemStep(e) PROVE FALSE
      BY <2>1, <2>t, OtherDocs, ItemsAreOfSyncs
    <2>2. ASSUME NEW e \in Docs, Edit(e) \/ SourceRemove(e) \/ ParserStep(e) PROVE FALSE
      BY <2>2, <2>t, EditAt, ParserStepAt DEF SourceRemove, docVars
    <2>3. CASE DeleteDocument
      <3>1. run.pc = "delete"
        BY <2>3 DEF DeleteDocument
      <3>2. d \in run.stale
        BY <2>3, <2>t, DeleteAt DEF SameDoc
      <3> QED
        BY <3>1, <3>2 DEF Safe, DocSafe, Pruned
    <2>4. CASE RunStep /\ ~DeleteDocument
      BY <2>4, BatchShape
      DEF RunStep, OpenSync, EndBatch, CompleteSync, SourceFails, OpenPrune, NextSlimBatch,
          ListStale, CompletePrune, RunCrash, docVars
    <2> QED
      BY <2>1, <2>2, <2>3, <2>4 DEF RunNext
  <1> QED
    BY <1>1, SafeAlways, PTL DEF RunSpec, PruneOnlyStale

-----------------------------------------------------------------------------
(* The dependent writes.                                                   *)

\* The row has no newer content than its goroutine, an update is not of the
\* first version, and a document whose first version has not been given to the
\* parser has no task.
Settled(d) ==
    ~Fingerprinted =>
        /\ docRow[d].hash <= src[d].ver
        /\ item[d].pc # "idle" => docRow[d].hash <= item[d].ver
        /\ item[d].pc \in Early \cup Late /\ item[d].mode = "update" => item[d].ver > 1
        /\ docRow[d].hash <= 1 /\ "parse" \in pending[d] => task[d] = "none"
AllSettled == \A d \in Docs : Settled(d)

LEMMA InitSettled == RunInit => AllSettled
  BY DEF RunInit, AllSettled, Settled, Absent, NoItem, Early, Late

LEMMA ItemStepSettled ==
    ASSUME Shape, AllSettled, NEW d \in Docs, ItemStep(d) PROVE AllSettled'
  <1>0. /\ UNCHANGED <<connector, clock, src, here, water, run, crashes>>
        /\ \A e \in Docs \ {d} : SameDoc(e) /\ item'[e] = item[e]
    BY OtherDocs DEF Shape
  <1>f. UNCHANGED Fingerprinted
    BY <1>0 DEF Fingerprinted
  <1>1. ASSUME NEW e \in Docs \ {d} PROVE Settled(e)'
    <2>1. SameDoc(e) /\ item'[e] = item[e] /\ Settled(e)
      BY <1>0 DEF AllSettled
    <2> QED
      BY <1>0, <1>f, <2>1 DEF Settled, SameDoc
  <1>t. /\ RunTypeOK /\ Settled(d) /\ ItemShape(d) /\ RowShape(d)
        /\ item[d].ver \in Nat /\ docRow[d].hash \in Nat /\ src[d].ver \in Nat
    <2>1. item[d] \in ItemType /\ docRow[d] \in RowType /\ src[d] \in Changes /\ MaxVer \in Nat
      BY DocTypes DEF Shape
    <2> QED
      BY <2>1 DEF Shape, DocShape, AllSettled, ItemType, RowType, Changes
  <1>2. Settled(d)'
    <2> USE <1>0, <1>f, <1>t DEF Settled, Moved, Early, Late
    <2>1. CASE Begin(d)
      BY <2>1, BeginAt DEF SameDoc, NoItem
    <2>2. CASE Put(d)
      <3>1. PICK how \in {"insert", "update"} :
              /\ item'[d].mode = how /\ item'[d].ver = item[d].ver
              /\ how = "update" <=> docRow[d].exists
        BY <2>2, PutAt
      <3>2. /\ item[d].pc = "put" /\ docRow'[d] = docRow[d] /\ pending'[d] = pending[d]
            /\ task'[d] = task[d]
        BY <2>2, PutAt
      <3>3. ~Fingerprinted /\ docRow[d].exists => item[d].ver > 1
        BY <3>2 DEF ItemShape, RowShape
      <3> QED
        BY <3>1, <3>2, <3>3
    <2>3. CASE Insert(d)
      BY <2>3, InsertAt DEF ItemShape
    <2>4. CASE Update(d)
      BY <2>4, UpdateAt DEF SameDoc
    <2>5. CASE Publish(d)
      <3>1. /\ item[d].pc = "publish" /\ item'[d].mode = item[d].mode
            /\ item'[d].ver = item[d].ver
            /\ docRow'[d].hash = item[d].ver /\ task'[d] = task[d]
        BY ONLY <1>t, <2>5, PublishAt DEF Moved
      <3>2. ~Fingerprinted /\ item[d].ver <= 1 => task[d] = "none"
        BY <3>1 DEF ItemShape
      <3>3. item[d].ver <= src[d].ver
        BY <3>1 DEF ItemShape
      <3> QED
        BY <3>1, <3>2, <3>3
    <2>6. CASE WriteFile(d)
      BY <2>6, WriteFileAt
    <2>7. CASE WriteMeta(d)
      BY <2>7, WriteMetaAt
    <2>8. CASE StartParse(d)
      BY <2>8, StartParseAt DEF NoItem
    <2>9. CASE StepFails(d)
      BY <2>9, StepFailsAt, ConnectorTypes DEF Absent, ItemShape, Steps, RunTypeOK
    <2>10. CASE ParseRefused(d)
      BY <2>10, ParseRefusedAt
    <2> QED
      BY <2>1, <2>2, <2>3, <2>4, <2>5, <2>6, <2>7, <2>8, <2>9, <2>10 DEF ItemStep
  <1> QED
    BY <1>1, <1>2 DEF AllSettled

LEMMA RunStepSettled ==
    ASSUME Shape, AllSettled, RunStep PROVE AllSettled'
  <1>t. RunTypeOK /\ RunShape
    BY DEF Shape
  <1>u. UNCHANGED sourceVars
    BY BatchShape
    DEF RunStep, OpenSync, EndBatch, CompleteSync, SourceFails, OpenPrune, NextSlimBatch,
        ListStale, DeleteDocument, CompletePrune, RunCrash
  <1>f. UNCHANGED <<src, Fingerprinted>>
    BY <1>u DEF sourceVars, Fingerprinted
  <1>n. \A e \in Docs : /\ src[e].ver \in Nat
                        /\ StartOf(e).mode = "none" /\ StartOf(e).ver = src[e].ver
                        /\ NoItem.mode = "none" /\ NoItem.pc = "idle"
    BY <1>t, DocTypes DEF StartOf, NoItem, Changes
  <1>1. CASE DeleteDocument
    <2>1. \A e \in Docs : SameDoc(e) \/ Deleted(e)
      BY <1>t, <1>1, DeleteAt
    <2>2. \A e \in Docs : item[e] = NoItem /\ item'[e] = NoItem
      BY <1>t, <1>1 DEF DeleteDocument, RunShape
    <2> QED
      BY <1>f, <1>n, <2>1, <2>2 DEF AllSettled, Settled, SameDoc, Deleted, Absent
  <1>2. CASE NextBatch
    <2>1. UNCHANGED docVars /\ \A e \in Docs : item'[e] = StartOf(e) \/ item'[e] = NoItem
      BY <1>2, BatchShape
    <2> QED
      BY <1>f, <1>n, <2>1 DEF AllSettled, Settled, docVars
  <1>3. CASE EndBatch \/ RunCrash
    <2>1. UNCHANGED docVars /\ \A e \in Docs : item'[e] = NoItem
      BY <1>3 DEF EndBatch, RunCrash
    <2> QED
      BY <1>f, <1>n, <2>1 DEF AllSettled, Settled, docVars
  <1>4. CASE ~DeleteDocument /\ ~NextBatch /\ ~EndBatch /\ ~RunCrash
    <2>1. UNCHANGED <<docVars, item>>
      BY <1>4
      DEF RunStep, OpenSync, CompleteSync, SourceFails, OpenPrune, NextSlimBatch,
          ListStale, CompletePrune
    <2> QED
      BY <1>f, <2>1 DEF AllSettled, Settled, docVars
  <1> QED
    BY <1>1, <1>2, <1>3, <1>4

LEMMA WorldStepSettled ==
    ASSUME Shape, AllSettled, NEW x \in Docs, Edit(x) \/ SourceRemove(x) \/ ParserStep(x)
    PROVE  AllSettled'
  <1>t. RunTypeOK
    BY DEF Shape
  <1>1. CASE Edit(x)
    <2>1. UNCHANGED <<connector, docVars, item, Fingerprinted>>
          /\ \A e \in Docs \ {x} : src'[e] = src[e]
      BY <1>t, <1>1, EditAt DEF Fingerprinted
    <2>2. docRow[x].hash <= src[x].ver => docRow[x].hash <= src'[x].ver
      <3>1. src[x].ver \in Nat /\ docRow[x].hash \in Nat
        BY <1>t, DocTypes DEF Changes, RowType
      <3> QED
        BY <1>t, <1>1, <3>1, EditAt
    <2> QED
      BY <2>1, <2>2 DEF AllSettled, Settled, docVars
  <1>2. CASE SourceRemove(x)
    <2>1. UNCHANGED <<src, docVars, item, Fingerprinted>>
      BY <1>2 DEF SourceRemove, Fingerprinted
    <2> QED
      BY <2>1 DEF AllSettled, Settled, docVars
  <1>3. CASE ParserStep(x)
    <2>1. UNCHANGED <<src, docRow, pending, item, Fingerprinted>>
      BY <1>t, <1>3, ParserStepAt DEF sourceVars, Fingerprinted
    <2> QED
      BY <1>t, <1>3, <2>1, ParserStepAt DEF AllSettled, Settled
  <1> QED
    BY <1>1, <1>2, <1>3

LEMMA NextSettled ==
    Shape /\ AllSettled /\ [RunNext]_runVars => AllSettled'
  <1> SUFFICES ASSUME Shape, AllSettled, [RunNext]_runVars PROVE AllSettled'
    OBVIOUS
  <1>1. CASE UNCHANGED runVars
    <2>1. UNCHANGED <<src, docRow, pending, task, item, Fingerprinted>>
      BY <1>1 DEF runVars, Fingerprinted
    <2> QED
      BY <2>1 DEF AllSettled, Settled
  <1> QED
    BY <1>1, ItemStepSettled, RunStepSettled, WorldStepSettled DEF RunNext

\* What is skipped as unchanged has its file row and its metadata, and has been
\* given to the parser if its content is its first (ensureSyncDocumentPostWrite),
\* whatever is changed, fails, crashes or is pruned.
THEOREM SkipsAreComplete == RunSpec => SkippedIsComplete
  <1> DEFINE Done(d) == /\ file'[d] = docRow'[d].loc /\ "meta" \notin pending'[d]
                        /\ docRow'[d].hash <= 1 => "parse" \notin pending'[d]
             Skip == ~Fingerprinted => \A d \in Docs :
                item[d].pc \in {"begin", "parse"} /\ item'[d] = NoItem /\ crashes' = crashes
                    => Done(d)
  <1>1. Shape /\ AllSettled /\ [RunNext]_runVars => [Skip]_runVars
    <2> SUFFICES ASSUME Shape, AllSettled, RunNext, ~Fingerprinted, NEW d \in Docs,
                        item[d].pc \in {"begin", "parse"}, item'[d] = NoItem, crashes' = crashes
                 PROVE  Done(d)
      OBVIOUS
    <2>t. RunTypeOK /\ RunShape /\ ItemShape(d) /\ Settled(d) /\ crashes \in Nat
          /\ pending[d] \subseteq {"meta", "parse"}
      BY DocTypes, TypeParts, RunAssumption DEF Shape, DocShape, AllSettled, Counts
    <2>i. item[d].pc # "idle" /\ item'[d].pc = "idle" /\ run.pc = "items"
      BY <2>t DEF NoItem, RunShape
    <2>1. ASSUME NEW e \in Docs, ItemStep(e) PROVE Done(d)
      <3>1. CASE e # d
        BY <2>t, <2>i, <2>1, <3>1, OtherDocs
      <3>2. CASE StartParse(d)
        BY <2>t, <3>2, StartParseAt DEF ItemShape, Settled
      <3>3. CASE ItemStep(d) /\ ~StartParse(d)
        <4>1. CASE Begin(d)
          BY <2>t, <2>i, <4>1, BeginAt DEF Moved
        <4>2. CASE Put(d)
          <5>1. item'[d].pc \in {"insert", "update"}
            BY <2>t, <4>2, PutMode
          <5> QED
            BY <2>i, <5>1
        <4>3. CASE Insert(d) \/ Update(d) \/ Publish(d)
          BY <2>t, <2>i, <4>3, InsertAt, UpdateAt, PublishAt DEF Moved
        <4>4. CASE WriteFile(d) \/ WriteMeta(d) \/ StepFails(d) \/ ParseRefused(d)
          BY <2>t, <2>i, <4>4, WriteFileAt, WriteMetaAt, StepFailsAt, ParseRefusedAt DEF Moved
        <4> QED
          BY <3>3, <4>1, <4>2, <4>3, <4>4 DEF ItemStep
      <3> QED
        BY <2>1, <3>1, <3>2, <3>3
    <2>2. ASSUME NEW e \in Docs, Edit(e) \/ SourceRemove(e) \/ ParserStep(e) PROVE FALSE
      BY <2>2, <2>t, <2>i, EditAt, ParserStepAt DEF SourceRemove
    <2>3. CASE RunStep
      BY <2>t, <2>i, <2>3, BatchShape
      DEF RunStep, OpenSync, EndBatch, CompleteSync, SourceFails, OpenPrune, NextSlimBatch,
          ListStale, DeleteDocument, CompletePrune, RunCrash, Busy, NoRun, RunShape
    <2> QED
      BY <2>1, <2>2, <2>3 DEF RunNext
  <1>2. Shape /\ AllSettled /\ [RunNext]_runVars => (Shape /\ AllSettled)'
    BY NextShape, NextSettled
  <1> QED
    BY <1>1, <1>2, InitShape, InitSettled, PTL DEF RunSpec, SkippedIsComplete
=============================================================================
