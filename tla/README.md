# FRIDAY: TLA+ models, checks and proofs

This directory models the parts of the repository in which concurrency, failure and
ordering decide whether it works: the task pipeline and the data source syncer of
`ragflow/internal` (Go), the worker pool they share, the scheduler that compiles the knowledge
of a dataset, the graph engine and the turn loop of the agent harness, and FRIDAY's own action engine
(`backend/`, Python). Paths below are relative to the root of the repository's source.

`PROJECT.json` lists components, runs, mutants, findings, hazards and theorems, and maps
every definition to the lines it translates. This file explains them.

    tlasany M.tla                          parse a module
    tlc -workers 2 -config R.cfg MCx.tla   model-check run R
    tlapm XProofs.tla                      check the proofs of component X

## 1. The system

FRIDAY is a web application around a campus knowledge base. A Next.js front end (`app/`,
`components/`, `hooks/`, `lib/`) talks to a FastAPI process (`backend/`), which asks a
language model and carries out the actions it answers with. Documents are ingested,
retrieved and synchronised by the embedded `ragflow/` tree, whose Go half
(`ragflow/internal`) contains the ingestion service, the syncer, agents and a graph engine.

| component | state | operations | talks to | what is hard |
|---|---|---|---|---|
| ingestion task service (`service/ingestion_task_service.go`, `dao/ingestion.go`) | `ingestion_task` rows: status, document | create for documents, request stop, start, mark completed, failed or stopped, retry, remove | API handlers, the ingestor, NATS | a request is several database calls; other requests and the ingestor come in between |
| ingestor (`ingestion/service/ingestion_service.go`) | claims, task channel, workers, contexts | consume, claim, run, heartbeat, poll for cancellation, settle, ack and nack, stop | NATS, Redis, the task service, the pipeline | redelivery, crash, shutdown, full channel, stop against completion |
| message queue (`engine/nats/nats.go`) | stream, delivery counts, AckWait | publish, fetch, ack, nak, in progress | ingestor, task service | at-least-once, MaxDeliver |
| document parsing (`service/document/document_parse.go`) | documents, tasks | start, stop and repeat parsing | task service | conditional delete against a start |
| syncer, scheduling (`syncer/scheduler.go`, `task_worker.go`, `dao/sync_task.go`) | `sync_logs` and `connector` rows, queue, connector locks | scan, recover stale, claim, enqueue, run, complete, fail, exit | database, connectors API | several processes, stale claims, chains of runs that must not break |
| connectors API (`dao/connector.go`) | the same tables | cancel, resume, rebuild, link, unlink | syncer | acts on rows a worker is running |
| syncer, runs (`sync_runner.go`, `prune_runner.go`, `service/document/sync_document.go`) | waterline, document rows, objects, files, metadata, parse tasks | list a window, upsert, publish, clean up, prune | source (GitHub), storage, task service | the source changes under the run; a step fails half-way |
| worker pool (`utility/workerpool.go`) | bounded channel, counters, worker goroutines | submit, wait, resize, stop, stats | PDF pages, extraction, knowledge compile | atomics, a channel and a condition that are not updated together |
| knowledge compile (`ingestion/knowledge_compile`) | one scheduling row per dataset: backlog, inflight entries, lease, status; merged products and wiki graph in the engine | publish, claim, reclaim, touch, batch, ack, report an error | ingestion, NATS, engine, several processes | at-least-once events, leases that expire, a batch of several engine calls, an ack that loses its lease |
| agent loop (`harness/core/agent_loop*.go`) | turn buffer, preempt and stop controllers, flags, watchers, checkpoint | push, preempt, stop, idle stop, run, resume, clean up | callers, agents, checkpoint store | every lock is released between two steps; requests name a turn that may be over; a stop in every gap |
| graph engine (`harness/graph/pregel/engine.go`) | channels, completed nodes, checkpoints of a thread | supersteps, retries, interrupts before, after and inside a node, saves, resume | nodes, checkpoint store, callers | nodes side by side of which some fail or interrupt; runs that start from whatever an earlier run has saved |
| action engine (`backend/agent/core.py`, `services/executor.py`, `main.py`, `routers/tasks.py`) | tasks and calendar in memory, Notion pages, mails | ask, create task, schedule, send mail, view; POST and DELETE of tasks | language model, Notion, SMTP, chat page | an exception after some actions; keys given twice; exit of the process |
| chat page (`app/chat`) | messages, thinking flag | send, show | action engine | several questions in flight |
| microphone button (`hooks/use-voice-input.ts`, not modelled) | reference to the session, one flag | start, stop, browser handlers | browser | handlers of an old session act on a new one |
| the rest | see PROJECT.json "components" | | | |

Correctness, per component:

* task service: statuses only follow the legal transitions; one row per document; what was
  accepted is queued or rolled back unless its request is cut off; a re-parse does not take a task that executes.
* ingestor: no task is executed twice at once or again after it finished; every unfinished
  task keeps a message that can finish it; only what users asked to stop is stopped;
  everything settles.
* syncer: one run per connector, one claim per row, a chain that never ends by accident, due rows that are claimed, a
  waterline that never passes a change, a prune that only deletes what is gone, published
  objects that exist, skipped documents that are complete.
* worker pool: accepted jobs are answered, stop drains, submission to a stopped pool is refused.
* knowledge compile: one worker per dataset, no event acknowledged that was not merged, products
  and graph that follow the last events, a status that tells the truth, a backlog that is drained.
* agent loop: an accepted item is in one place and one only, a preempt is answered when its
  turn is over or cancelled, a stop ends the loop.
* graph engine: with fan-in a node reads what its predecessors last returned, over crashes, failed nodes and resumed runs;
  a clean end has every output; a resumed run goes on where it was interrupted; every run ends.
* action engine: what the user was told persists; every question is answered.
* microphone (not modelled): the button shows what is true and goes out, a click reaches the session there is, and a start stops the earlier one.

## 2. Modules

| module | models | main state and its source |
|---|---|---|
| `IngestionStatus` | the status vocabulary and the table of legal transitions | `validateTransition` |
| `TaskStatus` | abstract specification: what the table promises its readers | (abstract) |
| `IngestionTaskService` | requests and ingestor processes at the granularity of database calls; implements `TaskStatus` | `status` = rows, `queue` = messages per task, `call` = program counter and locals of every actor; history `stranded` |
| `Ingestor` | one ingestor process, the broker and the Redis flag | `msg` = stream, `claimed` = `currentTasks`, `chan` = `taskChan`, `worker`, `consumer` = goroutines, `mode` = context |
| `SyncScheduler` | scheduler, workers and users over the tables, several processes | `row`, `conn`, `linked`, `off` = tables; `newer`, `early` = what `update_time` says of the scheduled rows; `scan`, `queue`, `worker`, `last`, `locked` per process |
| `SyncRun` | what one run reads and writes | `src`, `here` = source; `water`, `docRow`, `file`, `pending`, `task`, `store` = database and object storage; `run`, `item` = goroutines |
| `WorkerPool` | the pool, its callers and its workers, one atomic operation per step | `queue` = `workChan`, `worker`, `call`, `stop`, `resize` = where each goroutine is |
| `KnowledgeCompile` | the scheduling row of one dataset, its publishers and its workers | `event`, `column`, `before` = `backlog` and `inflight` lists, `owner`, `expired` = lease, `worker` = a batch and its heartbeat, `products`, `merged`, `graph` = the engine |
| `AgentLoop` | one loop after the other on one checkpoint, its callers and its watchers | `buffer`, `push`, `ack`, `stop`, `phase`, `turn`, `pending` = buffer and controllers, `loop` = the goroutine, `agent` = the turn, `saved` = checkpoint; history `handled`, `returned`, `resumable`, `stale`, `replayed`, `tooLate`, `forgotten`, `stolen` |
| `GraphEngine` | the runs of one thread of a compiled graph, one after the other | `conf` = graph and options; `phase`, `step`, `chans`, `completed`, `last` = locals of `Run`; `tasks`, `tries` = the nodes of a superstep; `deferred`, `pending`, `saved` = checkpoints; `end` = how the last run ended; history `execs`, `ran` |
| `ActionEngine` | `/ask`, the executor, the tasks API, the chat page | `store`, `calendar`, `run` = the request on the event loop, `chat`; history `removed`, `deleted` |
| `MC...` | instances for TLC: small sets, symmetry | |
| `...Proofs` | theorems and their proofs | |

`IngestionTaskService` and `Ingestor` share `IngestionStatus` and split the work: the first
has every database call as a step and a coarse ingestor, the second every step of the
ingestor and atomic database calls. `SyncScheduler` and `SyncRun` do the same for
the syncer: the first decides when a run happens and that runs of a connector exclude each
other, the second assumes that and models the run. Both hold a variable that never changes
(`deployment`, `connector`; in `GraphEngine` `conf`), chosen in `Init`: one run checks several configurations. `IngestionTaskService` is composed with
`TaskStatus` by refinement (`TableKeepsPromise`).

Correspondence, where it is not line by line:

* *Ingestion.* `completeTask` repeats its final write three times, so a fault there is
  a lasting one. A batch of up to four messages is fetched one at a time. Memory and
  knowledge-compile messages, which share the channel, and progress writes to documents are left out.
  A pipeline that is cancelled half-way writes STOPPED on a dead context and relies on
  redelivery, as in the code. A publish may be stored, refused, or stored without an answer. `IncrementRunCount` logs a failing write
  and returns nil (`ingestion_task_service.go:491-502`), so the branch behind it in `runTask` is never taken.
* *Requests of the task service.* Any of their database calls may be the last (`RequestFails`): the database answers with an error, the context
  of the HTTP request, which the rollback uses as well, is cancelled by a client that disconnects, or the process exits. The row that the request
  made CREATED then stays without a message: "rollback failed" of `ingestion_task_service.go:391-394, 406-409`, whose rollbacks are 414-428, and a request that dies between
  write and publish. `stranded` remembers such rows; ingests of the document are refused until a stop, a removal or a re-parse.
* *Scheduling.* A transaction is one step; a request that uses two is two. The context of a row
  can fail to load, which leaves the connector RUNNING. The `expired` set stands for the
  time-out comparison. Ids are finite: when they are used up no row is created (bound).
  `ListDueTasks` reads the newest candidates, 512 in the code (`sync_task.go:105-106`, `ScanWindow`), and takes the newest due ones of them, 128
  (`sync_task_service.go:84`, `ScanLimit`). `newer` is the order of `update_time`, which every insert and update sets (`entity/base.go`): the rows one step
  schedules are as new as each other and the database orders them at will. `early` are the scheduled rows whose `refresh_freq` or `prune_freq` has
  not passed; a frequency itself is not changed. `off` are the connectors without `sync_deleted_files`: their prune rows stay in the query and are
  never due. A worker reads the flag when it loads the context of its row (`last`) and completes a prune by what it read (`sync_task.go:234`), so the chain may end although the
  flag is on again; `broken` counts that as ended by the user.
* *Runs.* Content is a version number. Parsing is automatic. A retry of an upsert repeats steps
  that changed nothing. Any step of an upsert may fail, as may the deferred removal of its object (its error is ignored, `sync_document.go:81-84`) and
  a Put that has stored its object (`sync_document.go:86-89`, where no cleanup is armed): such an object stays (`leaked`). A deleted document goes by four calls, of which the later
  ones may fail (`document_crud.go:238-270, 419-482`). A database call that fails after it has written is left out here. A page is one batch: `github.go:301-331` cuts batches out of pages and goes
  through repositories and stages. A rebuild is a run with no waterline. An update never removes the
  old object; that is a leak in the code, not in the model.
* *Worker pool.* The counters that only `Stats` reads are left out; `doneN` and the
  send of the result move in one step. Retirement is two loads and a
  later decrement, as in the code. Goroutine names are reused; `ResizeStart` needs
  free names (bound). Result channels have room, as every caller makes them.
* *Knowledge compile.* A database transaction or an engine call is a step. The lists of the row are
  sets of entries with the order `before`, because a reclaim changes that order. The language model decides
  that everything is one concept, so `merged` is the set of sources of one merged row.
* *Agent loop.* A step ends where a mutex is released. The notify channels are left out: a request pending
  in an active turn has its token in the channel or a watcher about to look. `forgotten`, `tooLate` and `stolen` are set
  by the actions whose code drops an item or misdirects a request, and by no other. The result of `Wait` has the unhandled and interrupted items
  also when a checkpoint holds them (`agent_loop.go:194-197`); they are `resumable` as long as it does, and the owner is to push again only what is not. Saving and deleting a
  checkpoint may fail (the error of the deletion is ignored, `agent_loop.go:188`), and a store without `Delete` keeps it (`agent_loop_checkpoint.go:44-52`): the next
  loop replays items that were handled or handed out (`stale`, `replayed`). The process does not die under a loop. The owner's `Consumed`
  and `Remaining` are a prefix and the rest of what it is given. No interrupt of an agent reaches
  the loop as a business interrupt, since `handleIter` (`runner.go`) forwards it without its contexts; and the
  runner bytes of a resumed turn stay in the bridge store when the turn ends.
* *Graph engine.* What the goroutine of a run does between two waits is one step. A node has a channel of its own, whose
  value is the number of the execution that wrote it, so that a stale output can be told from the last one; `input` counts how
  often a reducer has combined the input. A node may return, fail once more, fail for good or ask (interrupt itself), as `conf` allows;
  a resumed node may ask again. A conditional edge has its condition chosen at will. The order in which a map yields the results is open. A node function that a
  cancelled run leaves behind writes nothing the engine reads.
* *Action engine.* Handlers are coroutines without an `await`, so a request holds the loop. Entry
  kinds are the classes of answers that the executor tells apart: well-formed ones, ones with an ill-typed
  date, and `other` for mails, views and unknown names, which touch no state of the process. Seeds and uuids are disjoint.

## 3. Runs

One run asks one question. Symmetry is used where identifiers are interchangeable and no
liveness is checked. Deadlock is not checked: every one of these systems may come to rest (no request,
nothing due, bounds used up). Where section 5 proves `TypeOK` for every value of the constants, most runs do not
repeat it; `run_sources` (as `RunTypeOK`), `loop` and `graph` check it.

| run | question | properties | bounds |
|---|---|---|---|
| `svc_races` | do concurrent requests and an ingestor keep the table consistent? | `OneRowPerDocument`, `CreatedIsQueued`, `ReparseSparesExecuting`, `TableKeepsPromise` (refinement) | 1 document, 2 ids, 2 requests of any kind, each of which may be cut off at any call, 1 process, every outcome of a publish |
| `ing_core` | is every task recoverable, stopped only on request, finished once, and does everything settle? | `Recoverable`, `StoppedOnlyOnRequest`, `FinishedNeverRerun`, `EveryTaskSettles` | 2 tasks, 2 messages, 1 worker, 3 deliveries, 1 crash, stop and remove |
| `ing_faults` | is execution exclusive under every failure? | `ExclusiveExecution` | 2 tasks, 2 workers, channel of 1, 1 fault, 1 crash or shutdown, stop and retry, slow queue |
| `sync_jobs` | one run per connector, chains that survive cancel, rebuild, link and unlink, and exclusive claims? | `OneRunPerConnector`, `ChainAlive`, `ExclusiveClaim` | a prune job, a window of 2 rows and a limit of 1; four deployments: 3 rows, 1 process, 2 workers, with users who rebuild and cancel, link and unlink, or turn pruning on and off; and 2 rows, 2 processes, 1 worker each, 1 exit |
| `sync_live` | do claimed rows settle and due rows get claimed? | `ClaimedSettles`, `DueIsClaimed` | 1 process, 1 worker, a window of 2 rows and a limit of 1; three deployments: 2 rows, 1 fault, 1 exit and resume; 2 rows, resume and frequencies; 3 rows of a sync and a prune job with users who turn pruning on and off |
| `run_sources` | can a change be lost, an object left staged or missing, a document pruned or skipped wrongly? | `RunTypeOK`, `WaterlineCovers`, `ObjectsFollowRows`, `PruneOnlyStale`, `SkippedIsComplete` | 2 documents; faults, of which one may be a crash: `Feed` (edits): 2 versions, pages of 1, 2 faults up to the publication; `Pruned`: documents removed at will, 2 faults anywhere; `Edited` (no fingerprints): 2 versions, 1 fault anywhere |
| `engine` | does what the user was told persist, and is every question answered? | `ConfirmedKept`, `EveryAskAnswered` | 2 questions of 2 entries of 6 kinds, 1 POST, deletes, 1 exit |
| `pool` | does a pool that grows drain on StopWait, and answer what it accepted? | `StopDrains`, `AcceptedSettles` | 2 jobs, queue of 1, 1 worker growing to 2, 1 StopWait |
| `kc` | is every event merged before it is acknowledged, by one worker, and is what is stored and shown consistent? | `NothingDropped`, `Serialized`, `DrainedIsConsistent`, `StatusTruthful`, `LiveLeaseRespected`, `EventuallyDrained` | 2 documents, 2 workers, 2 events, batches of 2, 1 failed touch or outlived lease, 1 abandoned batch |
| `loop` | is every accepted item in one place, every preempt answered in time, and does a stop end the loop? | `TypeOK`, `Accounted`, `PreemptAcked`, `StopEnds` | 2 items pushed by a strategy or as preempts with and without a delay, 1 Stop of any kind, 3 loops, 1 fault |
| `graph` | does a run read the right outputs, end, and go on after a pause, whatever failed before? | `TypeOK`, `FanInReads`, `DoneHasAllOutputs`, `ResumesAtNode`, `PauseKeepsProgress`, `RunEnds` | 9 graphs of 4 nodes (`Sound`): a diamond with fan-in and a cycle with a branch, 3 durabilities; 2 attempts, 5 supersteps, 3 runs (2 with saves in the background), 2 such saves at a time, cancel and crash at any moment |

Why the bounds are enough: the hazards are races between two or three actors. Two
tasks make a claim distinct from a slot; two messages make a duplicate of one task;
one crash separates before from after; a channel or queue of one is full at once and a pool of two workers
has one idle and one busy; two pages have a boundary between them.
In `loop` the second item preempts the turn of the first, waits behind it, or comes between a take and a close; a plain push takes the steps
of a pushing strategy and tests the flag first (with it, `Spec`, `SYMMETRY Symm` and `Accounted`, the module passes too).
`sync_jobs` has one job; with a sync and a prune job, 4 rows, 1 process with 1 worker and a fault it passes too (users who cancel and rebuild), and so does
1 process with 1 worker whose users do all of it. A window of two rows and a limit of one are the smallest with a difference between them: a row that is not due
takes a place in the one and not in the other, and with two rows before it a third is passed over. Every property of a
passing run has a mutant of the code (PROJECT.json "mutants") which the run rejects at the same bounds.

In `graph` two runs are a pause and its resume, the third resumes once more; four nodes have a fan-out and a fan-in; five supersteps
go through the cycle and reach the limit.

One run ends in a violation, because the code does something other than its own comment says: in `sync_next` completing a run
schedules the next row and sets its connector to a status that is never due (`ScheduledRuns`). The statement and its
line are in PROJECT.json "findings".

The graphs of `graph` leave out what the second table below shows: a node that asks is alone in its superstep, no two branches
meet in the default mode, and a node to interrupt after saves at once. `pool` only grows.

Some properties name a circumstance in which the code does worse and leave it out (`stranded`, `CutOff`, `reissued`, `reordered`, `leaked`, `stale`, `stolen`,
`forgotten`, `tooLate`, `broken`); each is a history variable or a predicate set by the very actions that lead there, and the notes of PROJECT.json "hazards" say what is so not caught.

The passing runs name, by their constants, the circumstances in which their properties hold. Outside them
the code does worse, and the same modules show it when the constant is widened (under `Spec` unless said otherwise, with only the property named). These
counterexamples were found with TLC while modelling and are recorded here and under "hazards". Where a line of the
repository promises the opposite, it is quoted.

| change to a cfg | property | what TLC finds |
|---|---|---|
| `ing_core` with `ExitKinds = {"shutdown"}` | `StoppedOnlyOnRequest` | a graceful shutdown marks a task just taken as STOPPED and acks it |
| `ing_core`, 1 task, `UserOps = {"stop", "retry"}` | `StoppedOnlyOnRequest` | the cancel flag of an earlier run stops the retry |
| same | `FinishedNeverRerun` | two messages of one task run one after the other |
| `ing_core`, 1 task, `UserOps = {"retry"}`, no exit | `Recoverable` | the retry's message arrives before the old claim is released and is acked as a duplicate |
| `ing_core` with `SlowHolders = {"queued"}` | `Recoverable` | a message that waits too long in the channel is redelivered, acked as a duplicate, and lost with the process |
| `ing_core` with `MaxFaults = 1` | `Recoverable` | nack before release: the redelivery is acked as a duplicate |
| `ing_core`, 4 tasks, 4 messages, 1 worker, `Capacity = 1` | `Recoverable` | a busy pool nacks until the deliveries are spent |
| `run_sources` with `Feed` alone, 1 document and `slowParse`; take `~SlowParse` out of the property | `ObjectsFollowRows` | the cleanup of a late failure removes the published object |
| `run_sources` with `Edited` alone; take `docRow'[d].hash <= 1 =>` out of the property | `SkippedIsComplete` | a document with a task of older content is skipped for ever |
| `run_sources` with `Feed` alone, `sourceOps = {"remove"}`, `maxVer = 1` | `WaterlineCovers` | a removal between two pages moves a document to a page already read, and the waterline passes it |
| `run_sources` with `Pruned` alone, `sourceOps = {"edit"}`, `maxVer = 2`, `pageSize = 1` | `PruneOnlyStale` | an edited document moves to a page already read and is pruned |
| `pool` with 3 jobs, `InitWorkers` of 2, `Sizes = {1}`, `SYMMETRY Symm` | `StopDrains` | all workers retire while jobs are queued; StopWait joins none and returns |
| `kc` with `Docs = {d1}` and without `~reordered` in the property | `DrainedIsConsistent` | a reclaim appends inflight entries behind a newer deletion: the older completion wins, against `scheduler.go:57`, "by append order" |
| `kc` without `faults = 0` in the property | `Serialized` | a worker whose heartbeat failed works on beside the next holder |
| `graph` with only `[Diamond EXCEPT !.asking = {d}, !.durability = "async"]` | `PauseKeepsProgress` | a save of an earlier step lands after the checkpoint of the pause; the resumed run starts again at the entry |
| `svc_races` without `t \in stranded` in the property | `CreatedIsQueued` | a request that is cut off leaves a CREATED row without a message, and later ingests of the document are refused |
| `sync_live` with only `Configured`, `ScanWindow = 1` and without `\/ CutOff(t)` in the property | `DueIsClaimed` | a prune row whose connector has turned `sync_deleted_files` off fills the window for ever, and an older due row is never claimed |
| `run_sources` with `"leaked"` beside `"staged"` in the property | `ObjectsFollowRows` | the deferred removal fails, or a Put stores and fails: the object stays |
| `loop` without `replayed # {} => stale` and with the property `replayed = {}` | (`LoadCheckpoint`) | the deletion of a loaded checkpoint fails or does nothing, and the next loop handles its items again |
| `loop` with the property `~stolen` | (`WatchStop` of an earlier turn) | a watcher outlives its turn, although `agent_loop_agent.go:55` says it "runs for the lifetime of a single active turn", and takes the cancel of the next: the Stop does not reach the agent |
| `loop` with the property `forgotten = {}` | (`ReceivedWhileIdle` and others) | a stop that comes after a Receive under the idle timer loses the item, which `agent_loop_edge_test.go` calls "stop after receive recovers items" |
| `loop` with the property `tooLate = {}` | (`CloseLoop`) | a push between TakeAll and Close is accepted and is in no result |

The second table has the configurations in which the code does other than its own lines say (paths below `ragflow/internal`:
`utility/`, `harness/graph/pregel/`). Temporal properties are checked under `FairSpec`.

| cfg | property | what the code does | against |
|---|---|---|---|
| `pool` with `Jobs = {j1, j2}`, `Workers` and `InitWorkers` of `{w1, w2}`, `QueueSize = 2`, `Sizes = {1}`, `Resizers = {r1}`, `Stoppers = {}` (`FairSpec`) | `DesiredServed` | all workers of a shrinking pool find themselves extra and retire | `workerpool.go:158`, "When shrinking, extra workers retire after completing their current task" |
| `graph` with `Configs <- InterruptsBefore` (`FairSpec`) | `ResumeGoesOn` | the checkpoint of an interrupt before a node has no progress; the resumed run stops before the same node again | `graph/graph/graph_integration_test.go:179`, "full checkpoint → interrupt → resume → complete lifecycle" |
| `graph` with `Configs <- TwoBranches` | `AnyTriggers` | of two branches in a superstep only the successors of one are run | `engine.go:734`, "a node is triggered when any predecessor completes" |
| `graph` with `Configs <- PausedFanOut` | `FanInReads` | outputs of nodes that finish beside an interrupt are lost, the nodes count as completed | `engine.go:307`, "the channel values from the checkpoint already contain the state at the point of interruption" |
| `graph` with `Configs <- PausedBranch` (`FairSpec`) | `ResumesAtNode` | the resumed run goes on behind such a node and never runs the interrupted one | `graph/interrupt/interrupt.go:56`, "The graph resumes from the start of the node" |
| `graph` with `Configs <- ExitAfter` | `AfterCaptured` | with durability `exit` the checkpoint is dropped by the interrupt after a node | `engine.go:919`, "the checkpoint already captures the node's output" |
| `graph` with `Configs <- Plain` | `InputOnce` | a run without a checkpoint applies its input twice | `engine.go:394`, "Apply input only when no checkpoint was loaded." |

Read off the models rather than stated as properties: `RemoveIngestionTasks` deletes by id after a separate
check, so a task that starts in between is removed while it runs; `MarkStopped` reads a row twice and can take it
from CREATED to STOPPED; a sync worker executes a row that was cancelled or recovered after it was queued,
and its completion overwrites the cancellation; a Submit that passed the check of the state before the close
of the channel panics; a worker pool that shrinks may lose all its workers (so no run claims that the wanted ones serve, and `pool` only grows); a second StopWait returns without waiting, and one whose last submission is counted
late can sleep for ever (so no run claims that StopWait returns); after a DELETE the action engine gives
a key again (so `ConfirmedKept` speaks of the time before it).

## 4. Fairness

* `Ingestor`: the consumer and every worker run (goroutines are scheduled), the broker delivers and
  redelivers, a process that drains ends and one that is down is restarted by its
  supervisor. Users, faults and exits owe nothing.
* `SyncScheduler`: time passes (`Expire`, `Mature`), every scan and worker goroutine runs, a draining process ends, and a
  process that is down restarts.
* `ActionEngine`: the event loop finishes the request it holds (calls return: SMTP and Notion have no
  time-out in the code, so an unanswered call holds every request; no property speaks of that), the page shows what arrives.
* `WorkerPool`: every goroutine that can move does, handlers return. Callers need not submit,
  cancel, resize or stop; a Submit that was begun goes on.

* `KnowledgeCompile`: every worker process polls and works its batch, and time passes (`LeaseExpires`).
  Publishers, failing engine calls and heartbeats owe nothing.
* `GraphEngine`: the goroutine of the run and those of the saves in the background go on, and every node returns in the end (its
  errors and retries count as returning). Nobody need start a run, cancel or crash.
* `AgentLoop`: while something can happen without a caller, something does (one weak fairness for all of it, weaker
  than one per goroutine; it suffices because callers act finitely often). Callbacks return, timers fire, a cancelled agent
  ends. An agent that nobody cancels may run for ever, and nobody need push, start or stop.

Only weak fairness is used.

## 5. Proofs

All proofs are checked by `tlapm` for every value of the constants that satisfies
the named assumptions of the module (`ServiceAssumption`, `IngestorAssumption`,
`EngineAssumption`, `PoolAssumption`, `KnowledgeCompileAssumption`, `SyncAssumption`, `RunAssumption`, `AgentLoopAssumption`, `GraphAssumption`), which TLC evaluates in the runs.

**IngestionTaskServiceProofs.** `Invariance` shows that
`IInv == TypeOK /\ CallsOK /\ OneRowPerDocument /\ CreatedIsQueued` is inductive. `CallsOK`
relates the program counter of a call to the statuses it has read; without it a re-enqueue
could be imagined that has read a status it may not leave. From it: `TypeCorrect`,
`UniqueRows`, `NothingForgotten` (a row without a message is one whose request was cut off: `stranded` gets a row in that step and loses it with its next write), and `TableRefinement`, that every step of the many-step
service is a step of `TaskStatus` or leaves the table alone; and `ReparseSpares`, for which it matters that a compare-and-swap
is about to make a legal move (so it never writes GONE) and a rollback restores a final status.

Several theorems below assume more of the constants than the named assumptions. Each such hypothesis is a definition of the proof module
with its reason, describes configurations that the code has, is met by the run that checks the property, and is there because the
argument needs it. Where the property is known to fail without it, section 3 has the counterexample.

**IngestorProofs.** `IngestorInvariance` shows
`EInv == EnvOK /\ MemOK /\ HeldOK /\ ExclusiveExecution` inductive. `EnvOK` and `MemOK` are the types; `HeldOK` says that whatever a
channel slot, the consumer or a worker holds is claimed and held once. Claiming is the only way in, so two
workers never have one task: `Exclusive`, and `IngestorTypes`. Three more theorems are about a service in which no FAILED or STOPPED task
is enqueued again (`NoRetry`), so that a task has one message (`OneMessage`):

* `NeverRerun` (no message outlives AckWait in the channel, `QuickQueue`), with `FInv`: nothing asks a task to stop that has not been created or
  is ahead of its stop (`StopFirst`); a process that is down holds nothing (`DownEmpty`); until it releases its claim a worker is the only holder of its
  message, which is in flight (`SoleHolder`, `ConsumerOK`, `QueuedOK`); and before its pipeline starts, its task still executes (`RunOK`). Faults, crashes and shutdowns are allowed.
* `StoppedOnRequest` (no graceful shutdown, `NoShutdown`), with `SInv`: whatever leads to STOPPED (a status, the Redis flag, a request that has still
  to set it, a dead context, a worker inside `markStopped`) goes back to a request (`StopKnown`).
* `AlwaysRecoverable` (also `NoFaults`, room in the channel for every task, and two deliveries more than exits), with `RInv`: a
  message that is acknowledged has a finished task and a live task has a message (`Backed`), and the deliveries a message has used are
  counted by the exits and by whoever holds it (`Budget`). That a delivered message is accepted needs that a claimed task is in the channel or at a worker
  (`Claims`), so that by a pigeonhole argument the channel has room, and that nobody settles a task that has not finished (`Quiet`).

**WorkerPoolProofs.** `PoolTypes` holds of every pool. `StopDrains` holds of pools whose Resize calls do not overlap
(`OneResizer`) and never ask for fewer workers than they read (`Grows`, a condition on the behaviour): in a pool that shrinks it fails, see section 3. `DrainInvariance` shows
`DrainInv == TypeOK /\ Asked /\ Manned /\ Joined /\ Placed` inductive there: what a Resize has read is what the pool was asked for (`Asked`); until
the channel is closed and drained `live` counts the running goroutines, nobody has read a count above `desired` and so nobody retires, and
the started goroutines are as many as are wanted, but for those a Resize in progress is about to start (`Manned`); StopWait joins only
after the close and finishes only when the channel is empty and no worker holds a job (`Joined`); a job that was sent is in the
channel, with a worker, or answered (`Placed`). Hence `StopWaitDrains`. The callers in the repository
resize a pool to the one size of their configuration: such a pool (`OneSize`) satisfies `Grows` (`OneSizeGrows`), and `ConfiguredPool`
states that it drains without a condition on the behaviour.

**ActionEngineProofs.** `EInv` says that the keys of a store are natural numbers or posted ids (`Keyed`) and that,
until a DELETE is served, no number exceeds the size of the store and every confirmation given or about to be given names a task in the store (`Told`).
The numbering (`Numbered`) is needed because a key is `len(tasks) + 1`: only then is it new.
Hence `EngineTypes` and `ToldTasksStay`.

**KnowledgeCompileProofs.** `RowTypes`: the types, with room for the events to come (`Room`) and entries
in a column exactly when they are published (`Unused`). `NoEntryLost` needs `MergedFirst`: a worker that is about to
ack has applied its batch without an error, and what it removes by value equals an entry of that
batch. `OneWorkerPerDataset` needs `HoldersBeat`: without a fault a busy worker holds the lease
and its heartbeat is on, so the lease is not expired and nobody reclaims. `LeaseSafe` is a property of the
steps: a claim needs an empty inflight list, a reclaim an expired lease, an ack the token.
`StatusIsTrue` adds `ErrorIsOwned`: an error is shown only between an abandoned batch and the next
claim, while its entries are inflight (`StatusInv`). `DrainedContent` has the longest invariant, `ContentInv`. About the events: a deletion is
published once, for a document whose deletion was requested (`Requested`), the append order is that of publication unless a reclaim has
changed it (`Ordered`), and what a claim has read from its batch stays true (`Frozen`). About the documents: one that nobody wants
to delete has its products (`Indexed`) and its completion is queued until it is merged (`Kept`), one whose deletion was carried out does not come
back (`Forgotten`). About the worker, while heartbeats succeed: its batch is inflight (`Held`), and what it has read of the
merged product and the graph is still stored (`Projected`).

**SyncerProofs, scheduling.** `IInv == Tables /\ Crews` is inductive. `Tables` has the types of the rows and connectors,
that a row without a job is unused (`Named`), and `ChainAlive` itself: every action that ends a row makes
its successor in the same transaction, or the job is off. `Crews` has the memories of the processes: nobody holds an unused row (`Held`), who runs a
connector has its lock (`Locks`), and `OneRunPerConnector`. Hence `Types`, `RunsAreSerial` and `ChainsSurvive`. For `ClaimsExclude`
the count of the holders is replaced by a pairwise statement (`OneHolder`: of two places that hold a row, one), with the fact that
makes it inductive: a row that can still be claimed is held by nobody (`Free`).

**SyncerProofs, runs.** `Shape` adds to `RunTypeOK` what a goroutine knows when (`ItemShape`: its key, its mode and the dependent writes it has done follow
its place), what a row and the run look like (`RowShape`, `RunShape`) and that an object is staged only in the hands of a goroutine
(`StagedInHand`). Hence `RunTypes`. The others assume that two changes never have one date (`DistinctDates`: with coarse dates the waterline can
pass the second).

* `ObjectsAgree`, with `Tidy`: a goroutine works on the version the window has (`Current`), a document in the parser has got its content in this run and is not
  written again (`Parsing`), and the object of a row exists and is not the one being staged (`Backed`).
* `WaterlineSafe` and `PrunesStale`, with `Safe`: a change in the window has arrived, is on a page still to be read, or is in the hands of a goroutine (`Listed`); an insert,
  which a failure takes back, is of a change the waterline has not passed (`InsertsNew`); what it has passed has arrived (`Covered`); a prune has seen or will see
  what exists, and what it holds for stale never comes back (`Pruned`). Pages are cut from a list ordered by date, so these need that a document only moves
  to pages still to be read: `RankGrows`, `LaterKept` and `NextPage`, which fail when a document is taken off the list between two pages (`SteadyPages`).
* `SkipsAreComplete`, edits included, with `AllSettled`: a row has no newer content than its goroutine, an update is not of the first version, and a document whose first
  content has not been given to the parser has no task that could stand for it. The file row and the metadata follow from `ItemShape`.

**AgentLoopProofs.** The items move between nine places (`Places`). `Placed` says that an accepted item is in one of them and
another item in none; `Moves` shows that a step keeps this when the places it touches have the same items together as before
and none in common. Which places are empty when (`InHand`: hands are empty outside a turn, a checkpoint is only to be resumed at the head
of the loop, interrupted items only wait in the cleanup) is what makes each step such a move, and that the places have nothing in common keeps
the sequences free of repetition. A checkpoint that was loaded and could not be deleted has items that are somewhere else by now; when the next loop reads it they leave that
place (`Replayed`), and `Stored` says that such a checkpoint is `stale`. Hence `NothingLost`. `Types` needs besides that a request is pending only while its turn is planned or
active (`Requests`), because only then has its push been accepted and its channel not been closed. `AnsweredInTime` proves the part of `PreemptAcked` that is
about steps (`AckedInTime`): a loop that has ended has no turn (`Requests` again), so a request is refused only when its turn is over.

**GraphEngineProofs.** `IInv` has the types by what changes together: `Control`, `Progress`, `Work`, `Store` (a checkpoint
in any of its three places has a last completed node exactly when one has completed) and `History`. It gives `Types`.

`ReadsAreCurrent` and `DoneIsDone` assume of each graph with fan-in (`FanInGraph`) that nothing leads to its entry, that it has no cycle, and, if nodes interrupt
themselves, that such a node is never ready together with another (`AskingAlone`; `PausedFanOut` of section 3), that the store answers and that every
channel is restored. Their invariant `Fed`: what the stored checkpoint counts as completed has its last output there, has all its predecessors, and is completed in the run that goes on
from it (`SavedApplied`), no other checkpoint has progress (`NoProgressWaits`); a running node has not completed, its predecessors have, and
a node that may interrupt itself runs alone (`NodesReady`); the channel of a completed
node has its last output (`OutputsApplied`); a clean end has completed every node (`DoneIsComplete`), since without a cycle some node is
ready until then (`SomeReady`).

`ProgressIsKept` and `ResumesThere` are about the pauses of any graph whose saves reach the store in order, because none is made in the background, and whose
store answers (`SavesInOrder`). Their invariant `PInv`: the nodes that run are a superstep that may follow what has completed (`Planned`); after a pause the
stored checkpoint has the progress of the run, and every superstep that may follow it has the nodes that interrupted (`PauseSaved`); the resumed run
keeps this until its first step (`Resumed`). With fan-in a node stays ready until it has completed; in the default mode the step after a pause is computed
from the last completed node alone, so there the node must be the only successor and no branch may lead to it (`AsksAlone`; `PausedBranch` of section 3).

Only model-checked: all liveness (`EveryTaskSettles`, `ClaimedSettles`, `DueIsClaimed`, `EveryAskAnswered`, `AcceptedSettles`, `EventuallyDrained`,
`StopEnds`, `RunEnds` and the leads-to part of `PreemptAcked`; fairness and ENABLED are outside the prover). Every safety property of a passing run has a
theorem, under hypotheses that the constants of that run satisfy; `DesiredServed` is checked by no run and proved of no pool. No module uses a RECURSIVE operator. What recursion over data would compute for every input
would need induction theorems that the provers cannot instantiate.

## 6. Not modelled, and why

PROJECT.json "components" has the list with reasons. In short: presentation and static
content (most of `app/`, `components/`, the campus map, `hackathon/`), straight-line request
handlers over files (`routers/knowledge.py`, `routers/system.py`, vision, retrieval scores), clients of external
systems, the chat stream (`streamChat` of `lib/api.ts` has no caller), the tasks page (its changes stay in the page), the microphone hook (one flag and one reference), and the Python half of `ragflow/`, which is the upstream server and meets the Go half only in tables
and Redis flags. Inside the modelled components: `PATCH` of a task, list and admin
queries, counters no property reads, creation and deletion of connectors, other changes of a connector than `sync_deleted_files`, the document counters and `CancelDocParse`;
in `getNextNodes` of the graph engine the `_next` fallback (`engine.go:1496-1520`), branch functions (`engine.go:1522-1537`) and several conditional edges of one node, none of which a checked graph uses;
the batches a GitHub session cuts out of its pages; and the death of the process under an agent loop.

## 7. Plan

Done: modules 1 to 9 of the list below, with the abstract specification and the proofs above.

1. `IngestionTaskService` with `TaskStatus`
2. `Ingestor`
3. `SyncScheduler`
4. `SyncRun`
5. `WorkerPool`
6. `ActionEngine`
7. `KnowledgeCompile`
8. `AgentLoop`
9. `GraphEngine`; next its branch functions, sub-graphs with their state, replay from a chosen checkpoint
10. the cancel context of the harness (`harness/core/cancel.go`), in place of the external agent of `AgentLoop`
11. the active-session lease of agent runs (`agent/canvas/run_tracker.go`) with loop and parallel sub-graphs of `internal/agent`
12. a second ingestor process, the choice between datasets of the knowledge compiler, and the microphone hook

Theorems next: safety parts of the liveness properties (what a fair step decreases, as an inductive bound), and weaker hypotheses: `Recoverable` with
faults that strike before a claim, the refinement of `TaskStatus` by the statuses of the ingestor.
