--------------------------- MODULE SyncScheduler ---------------------------
(***************************************************************************)
(* The data source syncer of ragflow (ragflow/internal/syncer, with        *)
(* dao/sync_task.go, dao/connector.go and service/sync_task_service.go):   *)
(* which run of which connector happens when.                              *)
(*                                                                         *)
(* A link is one connector feeding one knowledge base, a job one task type *)
(* (sync, prune) of a link.  The sync_logs rows of a job form a chain: a   *)
(* run that completes schedules the next one.  Every process has a         *)
(* scheduler goroutine that scans the table and a bounded queue drained by *)
(* workers; users cancel, resume, rebuild, link and unlink through the     *)
(* HTTP API.  A database transaction of the code is one step.  What a run  *)
(* reads and writes is left out.                                           *)
(***************************************************************************)
EXTENDS Naturals, Sequences, FiniteSets

CONSTANTS
    Tasks,       \* ids sync_logs rows may be created under (a bound)
    Jobs,        \* pairs of a link and a task type
    Links,       \* connector2kb: pairs of a connector and a knowledge base
    Conns,       \* connectors
    LinkOf,      \* the link of each job
    ConnOf,      \* the connector of each link
    PruneJobs,   \* the jobs that are prune tasks
    ScanWindow,  \* rows the query of a scan reads, and due rows
    ScanLimit,   \* a scan takes from them (512 and 128)
    Procs,       \* server processes that may run a Syncer
    Workers,     \* worker goroutines a process may have
    QueueSize,   \* TaskQueueSize
    Deployments, \* which of them there are, and what happens to them
    NoTask, NoJob

ASSUME SyncAssumption ==
    /\ LinkOf \in [Jobs -> Links] /\ ConnOf \in [Links -> Conns]
    /\ QueueSize \in Nat
    /\ PruneJobs \subseteq Jobs /\ ScanWindow \in Nat /\ ScanLimit \in Nat
    /\ Deployments \subseteq
         [rows : SUBSET Tasks, procs : SUBSET Procs, workers : SUBSET Workers,
          userOps : SUBSET {"cancel", "resume", "rebuild", "link", "configure"},
          pruning : BOOLEAN, frequency : BOOLEAN, maxFaults : Nat, maxExits : Nat]
    /\ NoTask \notin Tasks /\ NoJob \notin Jobs

VARIABLES
    deployment, \* the deployment under test; it does not change
    row,        \* sync_logs: status and job of every id
    conn,       \* connector.status
    linked,     \* links that have their connector2kb row
    off,        \* connectors whose sync_deleted_files is off
    newer,      \* of each scheduled row: the scheduled rows of later update_time
    early,      \* scheduled rows whose refresh_freq or prune_freq has not passed
    expired,    \* rows whose time_started is longer ago than timeout_secs
    stopping,   \* connectors between the two statements of a cancellation
    mode,       \* of each process: "up", "draining" (context cancelled), "down"
    scan,       \* the scheduler goroutine of each process
    queue,      \* the channel of task envelopes of each process
    worker,     \* the worker goroutines of each process
    last,       \* workers that read sync_deleted_files off for a prune task
    locked,     \* ConnectorLock of each process
    faults,     \* database calls that failed so far
    exits,      \* crashes and shutdowns so far
    reissued,   \* history: rows a recovery has scheduled again
    broken      \* history: jobs whose chain a failure or a user has ended,
                \* or that were off when it should have started or gone on

vars == <<deployment, row, conn, linked, off, newer, early, expired, stopping, mode,
          scan, queue, worker, last, locked, faults, exits, reissued, broken>>
dbVars   == <<row, conn, linked, expired, broken>>
procVars == <<mode, scan, queue, worker, last, locked, exits>>

Statuses == {"unstart", "schedule", "running", "cancel", "done", "fail"}

Started == deployment.procs      \* processes there are
Crew    == deployment.workers    \* worker goroutines of each (TaskConcurrency)
Rows    == deployment.rows       \* sync_logs rows there is room for
UserOps == deployment.userOps    \* what users do
MaxFaults == deployment.maxFaults \* bound on database calls that fail
MaxExits == deployment.maxExits  \* bound on crashes and shutdowns
Pruning == deployment.pruning    \* whether sync_deleted_files is on at first
Frequency == deployment.frequency \* whether refresh_freq and prune_freq are positive

Unused     == [st |-> "unused", job |-> NoJob]
IdleScan   == [pc |-> "idle", todo |-> {}, conns |-> {}, task |-> NoTask]
IdleWorker == [pc |-> "idle", task |-> NoTask]

JobOf(t)     == row[t].job
LinkOfTask(t) == LinkOf[JobOf(t)]
ConnOfTask(t) == ConnOf[LinkOfTask(t)]
IsRow(t)     == row[t].st \in Statuses
JobsAt(l)    == {j \in Jobs : LinkOf[j] = l}
JobsOf(c)    == {j \in Jobs : ConnOf[LinkOf[j]] = c}
HasContext(t) == IsRow(t) /\ LinkOfTask(t) \in linked
Live(t)      == row[t].st \in {"schedule", "running"}
Off(j)       == j \in PruneJobs /\ ConnOf[LinkOf[j]] \in off
Up(p)        == p \in Started /\ mode[p] = "up"
Running(p)   == p \in Started /\ mode[p] # "down"

HasScheduled(r, j) == \E t \in Tasks : r[t] = [st |-> "schedule", job |-> j]
WithStatus(t, s)   == [row EXCEPT ![t].st = s]

-----------------------------------------------------------------------------
(***************************************************************************)
(* Transactions on sync_logs and connector.                                *)
(***************************************************************************)
\* Tables that differ from r in one new scheduled row for each job of js that
\* has none: createScheduledTask and scheduleConnectorTask.
Scheduled(r, js) ==
    LET need   == {j \in js : ~HasScheduled(r, j)}
        unused == {t \in Rows : r[t] = Unused}
        ids    == {f \in [need -> unused] :
                     \A i, j \in need : i # j => f[i] # f[j]}
    IN  {[t \in Tasks |-> IF \E j \in need : f[j] = t
                          THEN [st |-> "schedule",
                                job |-> CHOOSE j \in need : f[j] = t]
                          ELSE r[t]] : f \in ids}

\* RescheduleClaimed: a RUNNING row is scheduled again, and its connector too
\* if it is RUNNING.
RescheduleClaimed(t) ==
    IF row[t].st = "running"
    THEN /\ row' = WithStatus(t, "schedule")
         /\ conn' = [conn EXCEPT ![ConnOfTask(t)] =
                        IF @ = "running" THEN "schedule" ELSE @]
         /\ expired' = expired \ {t}
         /\ UNCHANGED <<linked, broken>>
    ELSE UNCHANGED dbVars

\* FailTask, whatever the status of the row is; without a connector id the
\* connector is left alone.
FailTask(t, withConnector) ==
    /\ conn' = [conn EXCEPT ![ConnOfTask(t)] = IF withConnector THEN "fail" ELSE @]
    /\ IF IsRow(t)
       THEN /\ row' = WithStatus(t, "fail")
            /\ broken' = broken \cup {JobOf(t)}
            /\ expired' = expired \ {t}
       ELSE UNCHANGED <<row, broken, expired>>
    /\ UNCHANGED linked

\* Mutant: the next row is looked for before this one is marked done.
CompleteLooksFirst(t) ==
    \E r \in Scheduled(row, {JobOf(t)}) :
        /\ row' = IF IsRow(t) THEN [r EXCEPT ![t].st = "done"] ELSE r
        /\ conn' = [conn EXCEPT ![ConnOfTask(t)] = "done"]
        /\ broken' = broken \ {JobOf(t)}
        /\ expired' = expired \ {t}
        /\ UNCHANGED linked

\* CompletePruneTask for a connector that was read without sync_deleted_files:
\* the row and the connector are DONE and no row follows.
CompleteLast(t) ==
    /\ row' = IF IsRow(t) THEN WithStatus(t, "done") ELSE row
    /\ conn' = [conn EXCEPT ![ConnOfTask(t)] = "done"]
    /\ broken' = broken \cup {JobOf(t)}
    /\ expired' = expired \ {t}
    /\ UNCHANGED linked

\* Otherwise, as in CompleteSyncTask, the next row of the job is scheduled
\* unless there is one.
CompleteTask(t) ==
    LET done == IF IsRow(t) THEN WithStatus(t, "done") ELSE row
    IN  \E r \in Scheduled(done, {JobOf(t)}) :
            /\ row' = r
            /\ conn' = [conn EXCEPT ![ConnOfTask(t)] = "done"]
            /\ broken' = broken \ {JobOf(t)}
            /\ expired' = expired \ {t}
            /\ UNCHANGED linked

-----------------------------------------------------------------------------
(***************************************************************************)
(* The HTTP API (dao/connector.go).                                        *)
(***************************************************************************)
procRest == <<procVars, faults, reissued, deployment>>

\* cancelConnectorTasks: first the rows ...
CancelRunningOrScheduledLogs(c) ==
    LET js == JobsOf(c)
    IN  /\ "cancel" \in UserOps
        /\ c \notin stopping
        /\ row' = [t \in Tasks |-> IF Live(t) /\ JobOf(t) \in js
                                   THEN [row[t] EXCEPT !.st = "cancel"]
                                   ELSE row[t]]
        /\ broken' = broken \cup js
        /\ expired' = {t \in expired : JobOf(t) \notin js}
        /\ stopping' = stopping \cup {c}
        /\ UNCHANGED <<conn, linked, procRest>>

\* ... then the connector.
CancelConnector(c) ==
    /\ c \in stopping
    /\ stopping' = stopping \ {c}
    /\ conn' = [conn EXCEPT ![c] = "cancel"]
    /\ UNCHANGED <<row, linked, expired, broken, procRest>>

\* ScheduleConnectorTasks: a scheduled row for every linked job that is not off.
ScheduleConnectorTasks(c) ==
    LET js == {j \in JobsOf(c) : LinkOf[j] \in linked /\ ~Off(j)}
    IN  /\ "resume" \in UserOps
        /\ \E r \in Scheduled(row, js) : row' = r
        /\ conn' = [conn EXCEPT ![c] = "schedule"]
        /\ broken' = broken \ js
        /\ UNCHANGED <<linked, expired, stopping, procRest>>

\* RebuildConnector: the rows of the link are deleted and one row is created
\* for each of its jobs that is not off, linked or not.
RebuildConnector(l) ==
    LET js   == JobsAt(l)
        on   == {j \in js : ~Off(j)}
        kept == [t \in Tasks |-> IF JobOf(t) \in js
                                 THEN [row[t] EXCEPT !.st = "gone"] ELSE row[t]]
    IN  /\ "rebuild" \in UserOps
        /\ \E r \in Scheduled(kept, on) : row' = r
        /\ conn' = [conn EXCEPT ![ConnOf[l]] = "schedule"]
        /\ broken' = (broken \cup js) \ on
        /\ expired' = {t \in expired : JobOf(t) \notin js}
        /\ UNCHANGED <<linked, stopping, procRest>>

\* LinkDatasetConnectors: the jobs of a new link that are not off get a
\* scheduled row; the connector's status is left as it is.
Link(l) ==
    LET on == {j \in JobsAt(l) : ~Off(j)}
    IN  /\ "link" \in UserOps
        /\ l \notin linked
        /\ linked' = linked \cup {l}
        /\ \E r \in Scheduled(row, on) : row' = r
        /\ broken' = (broken \cup JobsAt(l)) \ on
        /\ UNCHANGED <<conn, expired, stopping, procRest>>

Unlink(l) ==
    LET js == JobsAt(l)
    IN  /\ "link" \in UserOps
        /\ l \in linked
        /\ linked' = linked \ {l}
        /\ row' = [t \in Tasks |-> IF Live(t) /\ JobOf(t) \in js
                                   THEN [row[t] EXCEPT !.st = "cancel"]
                                   ELSE row[t]]
        /\ broken' = broken \cup js
        /\ expired' = {t \in expired : JobOf(t) \notin js}
        /\ UNCHANGED <<conn, stopping, procRest>>

\* UpdateConnector with a configuration that turns sync_deleted_files on or
\* off: no row is created or cancelled.
UpdateConnector(c) ==
    /\ "configure" \in UserOps
    /\ off' = IF c \in off THEN off \ {c} ELSE off \cup {c}
    /\ UNCHANGED <<dbVars, newer, early, stopping, procRest>>

\* timeout_secs pass since a row was claimed.
Expire(t) ==
    /\ row[t].st = "running"
    /\ t \notin expired
    /\ expired' = expired \cup {t}
    /\ UNCHANGED <<row, conn, linked, broken, stopping, procRest>>

\* refresh_freq or prune_freq pass since a row was scheduled.
Mature(t) ==
    /\ t \in early
    /\ early' = early \ {t}
    /\ UNCHANGED <<dbVars, off, newer, stopping, procRest>>

\* update_time and update_date, which every update of a row sets: the rows a
\* step schedules are newer than those that were, and as new as each other.
Stamp ==
    LET waiting == {t \in Tasks : row'[t].st = "schedule"}
        fresh   == {t \in waiting : row[t].st # "schedule"}
    IN  /\ newer' = [t \in Tasks |-> IF t \in waiting \ fresh
                                      THEN (newer[t] \cup fresh) \cap waiting ELSE {}]
        /\ early' = (early \cap waiting) \cup IF Frequency THEN fresh ELSE {}
        /\ UNCHANGED off

-----------------------------------------------------------------------------
(***************************************************************************)
(* Scheduler.scan.                                                         *)
(***************************************************************************)
otherVars == <<mode, worker, last, locked, exits, stopping>>
quietVars == <<otherVars, reissued, deployment>>

\* Mutant: only rows whose connector is RUNNING are recovered.
RecoverOfRunning(p) ==
    LET stale == {t \in expired : conn[ConnOfTask(t)] = "running"}
    IN  /\ Up(p)
        /\ scan[p].pc = "idle"
        /\ scan' = [scan EXCEPT ![p] =
                      [IdleScan EXCEPT !.pc = "recover", !.todo = stale,
                                       !.conns = {ConnOfTask(t) : t \in stale}]]
        /\ UNCHANGED <<dbVars, queue, faults, quietVars>>

\* RecoverStaleRunning reads the rows to recover, ...
RecoverStaleRunning(p) ==
    LET stale == {t \in expired : row[t].st = "running"}
    IN  /\ Up(p)
        /\ scan[p].pc = "idle"
        /\ scan' = [scan EXCEPT ![p] =
                      [IdleScan EXCEPT !.pc = "recover", !.todo = stale,
                                       !.conns = {ConnOfTask(t) : t \in stale}]]
        /\ UNCHANGED <<dbVars, queue, faults, quietVars>>

\* ... reschedules one after the other, ...
Recover(p) ==
    /\ Up(p)
    /\ scan[p].pc = "recover"
    /\ \E t \in scan[p].todo :
        /\ RescheduleClaimed(t)
        /\ scan' = [scan EXCEPT ![p].todo = @ \ {t}]
        /\ reissued' = IF row[t].st = "running" THEN reissued \cup {t} ELSE reissued
    /\ UNCHANGED <<queue, faults, otherVars, deployment>>

\* ... and in the end their connectors, whether the rows still were RUNNING or not.
RecoverConnectors(p) ==
    /\ Up(p)
    /\ scan[p].pc = "recover"
    /\ scan[p].todo = {} /\ scan[p].conns # {}
    /\ conn' = [c \in Conns |-> IF c \in scan[p].conns /\ conn[c] = "running"
                                THEN "schedule" ELSE conn[c]]
    /\ scan' = [scan EXCEPT ![p].conns = {}]
    /\ UNCHANGED <<row, linked, expired, broken, queue, faults, quietVars>>

\* The rows the query of ListDueTasks reads, and those isDue accepts.
Waiting(t) ==
    /\ row[t].st = "schedule"
    /\ LinkOfTask(t) \in linked
    /\ conn[ConnOfTask(t)] = "schedule"
IsDue(t) == t \notin early /\ ~Off(JobOf(t))
Due(t)   == Waiting(t) /\ IsDue(t)

\* The n newest rows of S; rows that are as new as each other in any order.
NewestOf(S, n) ==
    {P \in SUBSET S :
        /\ Cardinality(P) <= n
        /\ P = S \/ Cardinality(P) = n
        /\ \A t \in P : newer[t] \cap S \subseteq P}

\* Mutant: the query reads no more rows than the scan takes.
ListDueOfFewer(p) ==
    /\ Up(p)
    /\ scan[p].pc = "recover"
    /\ scan[p].todo = {} /\ scan[p].conns = {}
    /\ \E page \in NewestOf({t \in Tasks : Waiting(t)}, ScanLimit) :
        scan' = [scan EXCEPT ![p] = [IdleScan EXCEPT !.pc = "claim",
                                        !.todo = {t \in page : IsDue(t)}]]
    /\ UNCHANGED <<dbVars, queue, faults, quietVars>>

\* ListDueTasks: the newest candidates, and of these the newest that are due.
ListDueTasks(p) ==
    /\ Up(p)
    /\ scan[p].pc = "recover"
    /\ scan[p].todo = {} /\ scan[p].conns = {}
    /\ \E page \in NewestOf({t \in Tasks : Waiting(t)}, ScanWindow) :
        \E due \in NewestOf({t \in page : IsDue(t)}, ScanLimit) :
            scan' = [scan EXCEPT ![p] = [IdleScan EXCEPT !.pc = "claim", !.todo = due]]
    /\ UNCHANGED <<dbVars, queue, faults, quietVars>>

\* Mutant: the status is not tested again.
ClaimAnyway(p) ==
    /\ Up(p)
    /\ scan[p].pc = "claim"
    /\ \E t \in scan[p].todo :
        /\ row' = IF IsRow(t) THEN WithStatus(t, "running") ELSE row
        /\ expired' = expired \ {t}
        /\ scan' = [scan EXCEPT ![p].pc = "mark", ![p].task = t, ![p].todo = @ \ {t}]
    /\ UNCHANGED <<conn, linked, broken, queue, faults, quietVars>>

\* ClaimTask: schedule becomes running if it still is schedule.
ClaimTask(p) ==
    /\ Up(p)
    /\ scan[p].pc = "claim"
    /\ \E t \in scan[p].todo :
        IF row[t].st = "schedule"
        THEN /\ row' = WithStatus(t, "running")
             /\ expired' = expired \ {t}
             /\ scan' = [scan EXCEPT ![p].pc = "mark", ![p].task = t,
                                     ![p].todo = @ \ {t}]
        ELSE /\ scan' = [scan EXCEPT ![p].todo = @ \ {t}]
             /\ UNCHANGED <<row, expired>>
    /\ UNCHANGED <<conn, linked, broken, queue, faults, quietVars>>

\* MarkConnectorRunning.  If the context of the row cannot be loaded any more
\* the claimed row is not queued.
MarkConnectorRunning(p) ==
    LET t == scan[p].task
    IN  /\ Up(p)
        /\ scan[p].pc = "mark"
        /\ IF HasContext(t)
           THEN /\ conn' = [conn EXCEPT ![ConnOfTask(t)] = "running"]
                /\ scan' = [scan EXCEPT ![p].pc = "push"]
           ELSE /\ scan' = [scan EXCEPT ![p].pc = "claim", ![p].task = NoTask]
                /\ UNCHANGED conn
        /\ UNCHANGED <<row, linked, expired, broken, queue, faults, quietVars>>

\* The send on the queue blocks while it is full.
Push(p) ==
    /\ Running(p)
    /\ scan[p].pc = "push"
    /\ Len(queue[p]) < QueueSize
    /\ queue' = [queue EXCEPT ![p] = Append(@, scan[p].task)]
    /\ scan' = [scan EXCEPT ![p].pc = "claim", ![p].task = NoTask]
    /\ UNCHANGED <<dbVars, faults, quietVars>>

EndScan(p) ==
    /\ Up(p)
    /\ scan[p].pc = "claim"
    /\ scan[p].todo = {}
    /\ scan' = [scan EXCEPT ![p] = IdleScan]
    /\ UNCHANGED <<dbVars, queue, faults, quietVars>>

\* A database call of the scan fails: before the claims the scan ends, a row
\* that is not claimed or not found again is skipped.
ScanFails(p) ==
    /\ Up(p)
    /\ faults < MaxFaults
    /\ faults' = faults + 1
    /\ \/ /\ scan[p].pc = "recover"
          /\ scan' = [scan EXCEPT ![p] = IdleScan]
       \/ /\ scan[p].pc = "claim"
          /\ \E t \in scan[p].todo : scan' = [scan EXCEPT ![p].todo = @ \ {t}]
       \/ /\ scan[p].pc = "mark"
          /\ scan' = [scan EXCEPT ![p].pc = "claim", ![p].task = NoTask]
    /\ UNCHANGED <<dbVars, queue, quietVars>>

-----------------------------------------------------------------------------
(***************************************************************************)
(* TaskWorker.handle.                                                      *)
(***************************************************************************)
Task(p, w)       == worker[p][w].task
At(p, w, pc)     == Running(p) /\ worker[p][w].pc = pc
WorkerTo(p, w, pc) == worker' = [worker EXCEPT ![p][w].pc = pc]
EndHandle(p, w)  == worker' = [worker EXCEPT ![p][w] = IdleWorker]
Unlock(p, t)     == locked' = [locked EXCEPT ![p] = @ \ {ConnOfTask(t)}]

Take(p, w) ==
    /\ w \in Crew
    /\ At(p, w, "idle")
    /\ queue[p] # <<>>
    /\ worker' = [worker EXCEPT ![p][w] = [pc |-> "get", task |-> Head(queue[p])]]
    /\ queue' = [queue EXCEPT ![p] = Tail(@)]
    /\ UNCHANGED <<dbVars, mode, scan, locked, exits, faults, stopping, reissued, last, deployment>>

\* GetContext finds the row, its link and its connector, whatever the status
\* of the row, and reads the connector's configuration.  Otherwise the row fails, and on shutdown it is rescheduled.
GetContext(p, w) ==
    LET t == Task(p, w)
    IN  /\ At(p, w, "get")
        /\ \/ /\ Up(p) /\ HasContext(t)
              /\ WorkerTo(p, w, "lock")
              /\ UNCHANGED dbVars
           \/ /\ Up(p) /\ ~HasContext(t)
              /\ FailTask(t, FALSE)
              /\ EndHandle(p, w)
           \/ /\ ~Up(p)
              /\ RescheduleClaimed(t)
              /\ EndHandle(p, w)
        /\ last' = [last EXCEPT ![p] = IF Up(p) /\ HasContext(t) /\ Off(JobOf(t))
                                       THEN @ \cup {w} ELSE @ \ {w}]
        /\ UNCHANGED <<mode, scan, queue, locked, exits, faults, stopping, reissued, deployment>>

\* The rows cannot be read: the row fails and its connector stays as it is.
GetContextFails(p, w) ==
    /\ At(p, w, "get") /\ Up(p)
    /\ faults < MaxFaults
    /\ faults' = faults + 1
    /\ FailTask(Task(p, w), FALSE)
    /\ EndHandle(p, w)
    /\ UNCHANGED <<mode, scan, queue, locked, exits, stopping, reissued, last, deployment>>

\* Mutant: the deferred Unlock is also run when TryLock has failed.
TryLockUnlocksAlways(p, w) ==
    LET t == Task(p, w)
        c == ConnOfTask(t)
    IN  /\ At(p, w, "lock")
        /\ \/ /\ c \notin locked[p]
              /\ locked' = [locked EXCEPT ![p] = @ \cup {c}]
              /\ WorkerTo(p, w, "run")
              /\ UNCHANGED dbVars
           \/ /\ c \in locked[p]
              /\ IF Up(p) THEN RescheduleClaimed(t) ELSE UNCHANGED dbVars
              /\ EndHandle(p, w)
              /\ Unlock(p, t)
        /\ UNCHANGED <<mode, scan, queue, exits, faults, stopping, reissued, last, deployment>>

\* TryLock; a row whose connector is busy in this process is rescheduled (on
\* a cancelled context that call fails).
TryLock(p, w) ==
    LET t == Task(p, w)
        c == ConnOfTask(t)
    IN  /\ At(p, w, "lock")
        /\ \/ /\ c \notin locked[p]
              /\ locked' = [locked EXCEPT ![p] = @ \cup {c}]
              /\ WorkerTo(p, w, "run")
              /\ UNCHANGED dbVars
           \/ /\ c \in locked[p]
              /\ IF Up(p) THEN RescheduleClaimed(t) ELSE UNCHANGED dbVars
              /\ EndHandle(p, w)
              /\ UNCHANGED locked
        /\ UNCHANGED <<mode, scan, queue, exits, faults, stopping, reissued, last, deployment>>

\* Execute and the completion succeed.  What follows a prune task depends on
\* the configuration read before the run; the next row needs the link row.
Complete(p, w) ==
    LET t == Task(p, w)
    IN  /\ At(p, w, "run") /\ Up(p)
        /\ \/ w \in last[p] /\ CompleteLast(t)
           \/ w \notin last[p] /\ LinkOfTask(t) \in linked /\ CompleteTask(t)
        /\ Unlock(p, t)
        /\ EndHandle(p, w)
        /\ UNCHANGED <<mode, scan, queue, exits, faults, stopping, reissued, last, deployment>>

\* Execute or the completion fails: the row fails, or on a cancelled context
\* is rescheduled.
Fail(p, w) ==
    LET t == Task(p, w)
    IN  /\ At(p, w, "run")
        /\ IF Up(p) THEN FailTask(t, TRUE) ELSE RescheduleClaimed(t)
        /\ Unlock(p, t)
        /\ EndHandle(p, w)
        /\ UNCHANGED <<mode, scan, queue, exits, faults, stopping, reissued, last, deployment>>

\* Errors of the final Fail or RescheduleClaimed are dropped.
FinalWriteFails(p, w) ==
    /\ Running(p)
    /\ worker[p][w].pc \in {"get", "lock", "run"}
    /\ worker[p][w].pc = "lock" => ConnOfTask(Task(p, w)) \in locked[p]
    /\ faults < MaxFaults
    /\ faults' = faults + 1
    /\ IF worker[p][w].pc = "run" THEN Unlock(p, Task(p, w)) ELSE UNCHANGED locked
    /\ EndHandle(p, w)
    /\ UNCHANGED <<dbVars, mode, scan, queue, exits, stopping, reissued, last, deployment>>

-----------------------------------------------------------------------------
(***************************************************************************)
(* Syncer.Stop cancels the context and waits for scheduler and workers;    *)
(* envelopes left in the queue are dropped with the process.               *)
(***************************************************************************)
Stop(p) ==
    /\ Up(p)
    /\ exits < MaxExits
    /\ exits' = exits + 1
    /\ mode' = [mode EXCEPT ![p] = "draining"]
    /\ UNCHANGED <<dbVars, scan, queue, worker, locked, faults, stopping, reissued, last, deployment>>

LoseMemory(p) ==
    /\ mode' = [mode EXCEPT ![p] = "down"]
    /\ scan' = [scan EXCEPT ![p] = IdleScan]
    /\ queue' = [queue EXCEPT ![p] = <<>>]
    /\ worker' = [worker EXCEPT ![p] = [w \in Workers |-> IdleWorker]]
    /\ locked' = [locked EXCEPT ![p] = {}]
    /\ last' = [last EXCEPT ![p] = {}]
    /\ UNCHANGED <<dbVars, faults, stopping, reissued, deployment>>

Exit(p) ==
    /\ mode[p] = "draining"
    /\ \A w \in Workers : worker[p][w] = IdleWorker
    /\ LoseMemory(p)
    /\ UNCHANGED exits

Crash(p) ==
    /\ Up(p)
    /\ exits < MaxExits
    /\ exits' = exits + 1
    /\ LoseMemory(p)

Restart(p) ==
    /\ p \in Started /\ mode[p] = "down"
    /\ mode' = [mode EXCEPT ![p] = "up"]
    /\ UNCHANGED <<dbVars, scan, queue, worker, locked, exits, faults, stopping, reissued, last, deployment>>

-----------------------------------------------------------------------------
\* Every link exists, its jobs that are not off have their first rows, and the
\* connectors were resumed.
Init ==
    /\ deployment \in Deployments
    /\ row \in [Tasks -> {Unused} \cup [st : {"schedule"}, job : Jobs]]
    /\ \A t \in Tasks \ Rows : row[t] = Unused
    /\ off = IF Pruning THEN {} ELSE Conns
    /\ \A j \in Jobs :
          Cardinality({t \in Tasks : row[t].job = j}) = IF Off(j) THEN 0 ELSE 1
    /\ conn = [c \in Conns |-> "schedule"]
    /\ linked = Links
    /\ newer = [t \in Tasks |-> {}]
    /\ early = IF Frequency THEN {t \in Tasks : row[t] # Unused} ELSE {}
    /\ expired = {}
    /\ stopping = {}
    /\ mode = [p \in Procs |-> "up"]
    /\ scan = [p \in Procs |-> IdleScan]
    /\ queue = [p \in Procs |-> <<>>]
    /\ worker = [p \in Procs |-> [w \in Workers |-> IdleWorker]]
    /\ locked = [p \in Procs |-> {}]
    /\ last = [p \in Procs |-> {}]
    /\ faults = 0
    /\ exits = 0
    /\ reissued = {}
    /\ broken = {j \in Jobs : Off(j)}

UserStep ==
    \/ \E c \in Conns : CancelRunningOrScheduledLogs(c) \/ CancelConnector(c)
                          \/ ScheduleConnectorTasks(c)
    \/ \E l \in Links : RebuildConnector(l) \/ Link(l) \/ Unlink(l)

ScanStep(p) ==
    \/ RecoverStaleRunning(p) \/ Recover(p) \/ RecoverConnectors(p)
    \/ ListDueTasks(p) \/ ClaimTask(p)
    \/ MarkConnectorRunning(p) \/ Push(p) \/ EndScan(p) \/ ScanFails(p)

WorkerStep(p, w) ==
    \/ Take(p, w) \/ GetContext(p, w) \/ GetContextFails(p, w)
    \/ TryLock(p, w) \/ Complete(p, w) \/ Fail(p, w) \/ FinalWriteFails(p, w)

ProcessStep(p) == Stop(p) \/ Exit(p) \/ Crash(p) \/ Restart(p)

Step ==
    \/ UserStep
    \/ \E t \in Tasks : Expire(t)
    \/ \E p \in Procs : \/ ScanStep(p) \/ ProcessStep(p)
                        \/ \E w \in Workers : WorkerStep(p, w)

Next ==
    \/ Step /\ Stamp
    \/ \E c \in Conns : UpdateConnector(c)
    \/ \E t \in Tasks : Mature(t)

Spec == Init /\ [][Next]_vars

\* Fairness: time passes, the goroutines of a live process run, every run
\* ends, a process is restarted.  Users, faults and exits owe nothing.
FairSpec ==
    /\ Spec
    /\ \A t \in Tasks : WF_vars(Expire(t) /\ Stamp) /\ WF_vars(Mature(t))
    /\ \A p \in Procs :
        /\ WF_vars(ScanStep(p) /\ Stamp)
        /\ WF_vars(Exit(p) /\ Stamp)
        /\ WF_vars(Restart(p) /\ Stamp)
        /\ \A w \in Workers : WF_vars(WorkerStep(p, w) /\ Stamp)

-----------------------------------------------------------------------------
TypeOK ==
    /\ deployment \in Deployments
    /\ row \in [Tasks -> [st : Statuses \cup {"unused", "gone"},
                          job : Jobs \cup {NoJob}]]
    /\ conn \in [Conns -> Statuses]
    /\ linked \subseteq Links
    /\ off \subseteq Conns
    /\ newer \in [Tasks -> SUBSET Tasks]
    /\ early \subseteq {t \in Tasks : row[t].st = "schedule"}
    /\ expired \subseteq {t \in Tasks : row[t].st = "running"}
    /\ stopping \subseteq Conns
    /\ mode \in [Procs -> {"up", "draining", "down"}]
    /\ scan \in [Procs -> [pc : {"idle", "recover", "claim", "mark", "push"},
                           todo : SUBSET Tasks, conns : SUBSET Conns,
                           task : Tasks \cup {NoTask}]]
    /\ queue \in [Procs -> Seq(Tasks)]
    /\ \A p \in Procs : Len(queue[p]) <= QueueSize
    /\ worker \in [Procs -> [Workers -> [pc : {"idle", "get", "lock", "run"},
                                         task : Tasks \cup {NoTask}]]]
    /\ last \in [Procs -> SUBSET Workers]
    /\ locked \in [Procs -> SUBSET Conns]
    /\ faults \in 0..MaxFaults
    /\ exits \in 0..MaxExits
    /\ reissued \subseteq Tasks
    /\ broken \subseteq Jobs

\* ConnectorLock serializes the work for a connector within a process, also
\* when a recovered row has put a second envelope for it in the queue.
OneRunPerConnector ==
    \A p \in Procs : \A v, w \in Workers :
        v # w /\ worker[p][v].pc = "run" /\ worker[p][w].pc = "run"
            => ConnOfTask(Task(p, v)) # ConnOfTask(Task(p, w))

\* Of all processes and their workers at most one holds a row, unless the row
\* was recovered as stale from the first.
ExclusiveClaim ==
    \A t \in Tasks : t \in reissued \/
        Cardinality({p \in Procs : scan[p].task = t})
          + Cardinality({h \in Procs \X (1..QueueSize) :
                            h[2] <= Len(queue[h[1]]) /\ queue[h[1]][h[2]] = t})
          + Cardinality({h \in Procs \X Workers : Task(h[1], h[2]) = t}) <= 1

\* The chain of a job is never lost: a linked job has a scheduled or running
\* row unless its last run failed or a user stopped it.
ChainAlive ==
    \A j \in Jobs : LinkOf[j] \in linked =>
        j \in broken \/ \E t \in Tasks : Live(t) /\ JobOf(t) = j

\* A claimed row does not stay RUNNING for ever: its run ends, or it is
\* recovered, whatever was dropped on the way.
ClaimedSettles ==
    \A t \in Tasks : row[t].st = "running" ~> row[t].st # "running"

\* Scans pass over a row while the rows before it fill the window, or the due
\* ones among them the limit.
CutOff(t) ==
    LET before == {u \in Tasks \ {t} : Waiting(u) /\ t \notin newer[u]}
    IN  \/ Cardinality(before) >= ScanWindow
        \/ Cardinality({u \in before : IsDue(u)}) >= ScanLimit

\* A due row is claimed, as long as its connector stays scheduled, unless scans
\* find newer rows again and again that fill the window or the limit: rows that
\* are not due delay a row only while there are as many as the window.
DueIsClaimed == \A t \in Tasks : Due(t) ~> ~Due(t) \/ CutOff(t)

\* A successful run schedules the next one: the scheduled row is run.
ScheduledRuns ==
    \A t \in Tasks : row[t].st = "schedule" ~> row[t].st # "schedule"
=============================================================================
