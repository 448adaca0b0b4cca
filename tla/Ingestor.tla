------------------------------ MODULE Ingestor ------------------------------
(***************************************************************************)
(* One ingestor process (ragflow/internal/ingestion/service), the NATS     *)
(* work queue it consumes (engine/nats/nats.go) and the Redis cancel flag: *)
(* how a message becomes a run of a pipeline and how it is settled.        *)
(*                                                                         *)
(* The calls of IngestionTaskService are single steps here (module         *)
(* IngestionTaskService splits them); what is split is everything that     *)
(* happens around them: fetch, claim, the bounded channel, the worker, the *)
(* cancel poll, the heartbeat, ack and nack, release, the broker's         *)
(* redelivery, graceful shutdown, crash and restart.                       *)
(***************************************************************************)
EXTENDS IngestionStatus, Naturals, Sequences, FiniteSets

CONSTANTS
    Tasks,         \* task ids
    Msgs,          \* messages that may ever be published (a bound)
    Workers,       \* worker goroutines (maxConcurrency)
    Capacity,      \* of taskChan; the code makes it 2 * maxConcurrency
    MaxDeliver,    \* the consumer's MaxDeliver (16 in the code)
    MaxFaults,     \* bound on failing database calls
    MaxExits,      \* bound on crashes and graceful shutdowns
    ExitKinds,     \* subset of {"crash", "shutdown"}
    UserOps,       \* subset of {"stop", "retry", "remove"}
    SlowHolders,   \* where a message may outlive AckWait: see Protected
    NoTask, NoMsg

ASSUME IngestorAssumption ==
    /\ Capacity \in Nat
    /\ MaxDeliver \in Nat /\ MaxFaults \in Nat /\ MaxExits \in Nat
    /\ ExitKinds \subseteq {"crash", "shutdown"}
    /\ UserOps \subseteq {"stop", "retry", "remove"}
    /\ SlowHolders \subseteq {"queued", "unwinding"}
    /\ NoTask \notin Tasks /\ NoMsg \notin Msgs

VARIABLES
    status,     \* ingestion_task.status
    flag,       \* the Redis key {task}-cancel exists
    setting,    \* tasks whose RequestStop has not set the flag yet
    msg,        \* the work-queue stream: task, state and delivery count
    mode,       \* of the process: "up", "draining" (e.ctx done) or "down"
    consumer,   \* consumeLoop: the message processMessage works on
    claimed,    \* currentTasks
    chan,       \* taskChan
    worker,     \* the worker goroutines
    faults,     \* database calls that failed so far
    exits,      \* crashes and shutdowns so far
    stopAsked   \* history: a user asked to stop the task since it was enqueued

vars == <<status, flag, setting, msg, mode, consumer, claimed, chan, worker,
          faults, exits, stopAsked>>
dbVars     == <<status, stopAsked>>
redisVars  == <<flag, setting>>
envVars    == <<mode, exits, faults>>
memVars    == <<consumer, claimed, chan, worker>>

IdleConsumer == [pc |-> "idle", m |-> NoMsg]
IdleWorker   == [pc |-> "idle", m |-> NoMsg, dead |-> FALSE, ok |-> FALSE]

Exists(t)   == status[t] \in RowStatus
TaskOf(m)   == msg[m].task
Task(w)     == TaskOf(worker[w].m)
Running     == mode \in {"up", "draining"}
Active(w)   == worker[w].pc # "idle"

\* The root context is cancelled by Stop, and with it every per-task context;
\* the cancel poll and the check before the run cancel a single one.
CtxDead(w)  == worker[w].dead \/ mode = "draining"

SetStatus(t, s) == status' = [status EXCEPT ![t] = s]
SetFlag(t, b)   == flag' = [flag EXCEPT ![t] = b]
WorkerTo(w, pc) == worker' = [worker EXCEPT ![w].pc = pc]

-----------------------------------------------------------------------------
(***************************************************************************)
(* NATS JetStream: a work-queue stream with explicit acks, one consumer    *)
(* group and MaxDeliver deliveries per message.                            *)
(***************************************************************************)
Deliverable(m) ==
    \/ msg[m].st = "pending"
    \/ msg[m].st = "ready" /\ msg[m].dc < MaxDeliver

Ack(m) == msg' = [msg EXCEPT ![m].st = "acked"]

\* Nak makes a message in flight available at once; on one that has been
\* acknowledged or is available already it does nothing.
Nack(m) == msg' = [msg EXCEPT ![m].st = IF @ = "pending" THEN "ready" ELSE @]

\* Mutant: workers send no heartbeats.
ProtectedByConsumer(m) == Running /\ consumer.m = m

\* Whoever holds a delivered message keeps AckWait from expiring: the
\* consumer and a worker about to start or to settle are quick, a worker in
\* its run sends heartbeats until its context is cancelled.  Nobody sends
\* heartbeats for a message waiting in the channel ("queued"), or while a
\* cancelled pipeline is still unwinding ("unwinding").
Protected(m) ==
    /\ Running
    /\ \/ consumer.m = m
       \/ "queued" \notin SlowHolders /\ \E i \in DOMAIN chan : chan[i] = m
       \/ \E w \in Workers :
            /\ worker[w].m = m
            /\ \/ worker[w].pc # "pipe"
               \/ ~CtxDead(w)
               \/ "unwinding" \notin SlowHolders

AckWaitExpires(m) ==
    /\ msg[m].st = "pending"
    /\ ~Protected(m)
    /\ Nack(m)
    /\ UNCHANGED <<dbVars, redisVars, envVars, memVars>>

-----------------------------------------------------------------------------
(***************************************************************************)
(* API requests, each with its effect on the row in one step.              *)
(***************************************************************************)
\* CreateAndEnqueue: a new row, or one that FAILED or was STOPPED, is made
\* CREATED and a message for it is published.
CreateAndEnqueue(t) ==
    /\ \/ status[t] = "FRESH"
       \/ status[t] \in Retryable /\ "retry" \in UserOps
    /\ \E m \in Msgs :
        /\ msg[m].st = "unused"
        /\ msg' = [msg EXCEPT ![m] = [task |-> t, st |-> "ready", dc |-> 0]]
    /\ SetStatus(t, "CREATED")
    /\ stopAsked' = [stopAsked EXCEPT ![t] = FALSE]
    /\ UNCHANGED <<redisVars, envVars, memVars>>

\* RequestStop: CREATED stops at once, RUNNING becomes STOPPING ...
RequestStop(t) ==
    /\ "stop" \in UserOps
    /\ \/ /\ status[t] = "CREATED"
          /\ SetStatus(t, "STOPPED")
          /\ UNCHANGED setting
       \/ /\ status[t] = "RUNNING"
          /\ SetStatus(t, "STOPPING")
          /\ setting' = setting \cup {t}
    /\ stopAsked' = [stopAsked EXCEPT ![t] = TRUE]
    /\ UNCHANGED <<flag, msg, envVars, memVars>>

\* ... and then the Redis flag is set, with a time to live of one hour.
SetCancelFlag(t) ==
    /\ t \in setting
    /\ setting' = setting \ {t}
    /\ SetFlag(t, TRUE)
    /\ UNCHANGED <<dbVars, msg, envVars, memVars>>

CancelFlagExpires(t) ==
    /\ flag[t]
    /\ SetFlag(t, FALSE)
    /\ UNCHANGED <<dbVars, setting, msg, envVars, memVars>>

\* Remove and DeleteIfTerminal: the row of a task that does not execute.
Remove(t) ==
    /\ "remove" \in UserOps
    /\ Exists(t)
    /\ status[t] \notin Executing
    /\ SetStatus(t, "GONE")
    /\ UNCHANGED <<stopAsked, redisVars, msg, envVars, memVars>>

-----------------------------------------------------------------------------
(***************************************************************************)
(* consumeLoop and processMessage.                                         *)
(***************************************************************************)
\* Mutant: a message that was delivered before is not taken again.
FetchFirstDelivery(m) ==
    /\ mode = "up"
    /\ consumer = IdleConsumer
    /\ msg[m].st = "ready"
    /\ msg[m].dc = 0
    /\ msg' = [msg EXCEPT ![m].st = "pending", ![m].dc = @ + 1]
    /\ consumer' = [pc |-> "start", m |-> m]
    /\ UNCHANGED <<dbVars, redisVars, envVars, claimed, chan, worker>>

Fetch(m) ==
    /\ mode = "up"
    /\ consumer = IdleConsumer
    /\ msg[m].st = "ready"
    /\ msg[m].dc < MaxDeliver
    /\ msg' = [msg EXCEPT ![m].st = "pending", ![m].dc = @ + 1]
    /\ consumer' = [pc |-> "start", m |-> m]
    /\ UNCHANGED <<dbVars, redisVars, envVars, claimed, chan, worker>>

\* Mutant: only a missing row ends the message.
RowMissing(t) == ~Exists(t)

NothingToRun(t) == ~Exists(t) \/ status[t] \in Terminal

\* StartRunning on the message's task.  A missing row and a finished task
\* are acked, a RUNNING one goes on to the claim.
StartRunning ==
    LET m == consumer.m
        t == TaskOf(m)
    IN  /\ consumer.pc = "start"
        /\ mode = "up"
        /\ \/ /\ NothingToRun(t)
              /\ Ack(m)
              /\ consumer' = IdleConsumer
              /\ UNCHANGED status
           \/ /\ status[t] = "STOPPING"
              /\ SetStatus(t, "STOPPED")
              /\ Ack(m)
              /\ consumer' = IdleConsumer
           \/ /\ ~NothingToRun(t) /\ status[t] # "STOPPING"
              /\ SetStatus(t, IF status[t] = "CREATED" THEN "RUNNING" ELSE status[t])
              /\ consumer' = [consumer EXCEPT !.pc = "claim"]
              /\ UNCHANGED msg
        /\ UNCHANGED <<stopAsked, redisVars, envVars, claimed, chan, worker>>

\* The database does not answer, or the root context is cancelled: nack.
StartRunningFails ==
    /\ consumer.pc = "start"
    /\ \/ mode = "draining" /\ UNCHANGED faults
       \/ mode = "up" /\ faults < MaxFaults /\ faults' = faults + 1
    /\ Nack(consumer.m)
    /\ consumer' = IdleConsumer
    /\ UNCHANGED <<dbVars, redisVars, mode, exits, claimed, chan, worker>>

\* Mutant: currentTasks is not consulted.
ClaimAlways(t) == TRUE

\* claimTask succeeds.
Claimable(t) == t \notin claimed

\* claimTask, then a non-blocking send on taskChan.  A task claimed by a
\* worker of this process is acked and skipped; when the channel is full the
\* message is nacked and the claim released.
ClaimAndQueue ==
    LET m == consumer.m
        t == TaskOf(m)
    IN  /\ consumer.pc = "claim"
        /\ Running
        /\ consumer' = IdleConsumer
        /\ \/ /\ ~Claimable(t)
              /\ Ack(m)
              /\ UNCHANGED <<claimed, chan>>
           \/ /\ Claimable(t)
              /\ Len(chan) < Capacity
              /\ claimed' = claimed \cup {t}
              /\ chan' = Append(chan, m)
              /\ UNCHANGED msg
           \/ /\ Claimable(t)
              /\ Len(chan) >= Capacity
              /\ Nack(m)
              /\ UNCHANGED <<claimed, chan>>
        /\ UNCHANGED <<dbVars, redisVars, envVars, worker>>

-----------------------------------------------------------------------------
(***************************************************************************)
(* workerLoop and executeTask.                                             *)
(***************************************************************************)
Take(w) ==
    /\ Running
    /\ worker[w].pc = "idle"
    /\ chan # <<>>
    /\ worker' = [worker EXCEPT ![w] =
                    [IdleWorker EXCEPT !.pc = "check", !.m = Head(chan)]]
    /\ chan' = Tail(chan)
    /\ UNCHANGED <<dbVars, redisVars, envVars, msg, consumer, claimed>>

\* Mutant: the key of the cancel flag does not carry the task id.
CancelSeenAny(t) == (\E u \in Tasks : flag[u]) \/ status[t] = "STOPPING"

\* defaultCancelCheck: the Redis flag, or the status STOPPING.
CancelSeen(t) == flag[t] \/ status[t] = "STOPPING"

\* The synchronous check before the pipeline; on a cancelled root context
\* neither Redis nor the database answers.
CancelCheck(w) ==
    /\ Running
    /\ worker[w].pc = "check"
    /\ worker' = [worker EXCEPT
                    ![w].pc = "entry",
                    ![w].dead = mode = "up" /\ CancelSeen(Task(w))]
    /\ UNCHANGED <<dbVars, redisVars, envVars, msg, consumer, claimed, chan>>

\* pollCancel, every three seconds until executeTask returns.
PollCancel(w) ==
    /\ mode = "up"
    /\ worker[w].pc \in {"entry", "clear", "pipe", "complete", "fail"}
    /\ ~worker[w].dead
    /\ CancelSeen(Task(w))
    /\ worker' = [worker EXCEPT ![w].dead = TRUE]
    /\ UNCHANGED <<dbVars, redisVars, envVars, msg, consumer, claimed, chan>>

\* runTask: a context cancelled before the run stops the task.
RunTask(w) ==
    /\ Running
    /\ worker[w].pc = "entry"
    /\ WorkerTo(w, IF CtxDead(w) THEN "halt" ELSE "clear")
    /\ UNCHANGED <<dbVars, redisVars, envVars, msg, consumer, claimed, chan>>

\* IncrementRunCount, whose error is always nil (it logs a failing write), then
\* the stale cancel flag is deleted (if the context
\* still allows it) and the pipeline starts.
ClearStaleFlag(w) ==
    /\ Running
    /\ worker[w].pc = "clear"
    /\ IF CtxDead(w) THEN UNCHANGED flag ELSE SetFlag(Task(w), FALSE)
    /\ WorkerTo(w, "pipe")
    /\ UNCHANGED <<dbVars, setting, envVars, msg, consumer, claimed, chan>>

\* runDocumentTask returns nil, an error or a timeout, or panics.  With a
\* cancelled context it may return context.Canceled; markStopped then runs
\* on that very context, fails and leaves the row alone.
Pipeline(w) ==
    /\ Running
    /\ worker[w].pc = "pipe"
    /\ \/ WorkerTo(w, "complete")
       \/ WorkerTo(w, "fail")
       \/ WorkerTo(w, "panic")
       \/ CtxDead(w) /\ WorkerTo(w, "settle")
    /\ UNCHANGED <<dbVars, redisVars, envVars, msg, consumer, claimed, chan>>

\* Go on to the settlement with the verdict of runTask.
Verdict(w, ok) ==
    worker' = [worker EXCEPT ![w].pc = "settle", ![w].ok = ok]

\* completeTask: MarkCompleted; if the transition is refused, settleToTerminal
\* turns a STOPPING task into a STOPPED one with markStopped.
Complete(w) ==
    LET t == Task(w)
    IN  /\ mode = "up" /\ ~worker[w].dead
        /\ worker[w].pc = "complete"
        /\ \/ /\ status[t] = "RUNNING"
              /\ SetStatus(t, "COMPLETED")
              /\ Verdict(w, TRUE)
              /\ UNCHANGED flag
           \/ /\ status[t] = "STOPPING"
              /\ SetStatus(t, "STOPPED")
              /\ SetFlag(t, FALSE)
              /\ Verdict(w, TRUE)
           \/ /\ status[t] \notin Executing
              /\ Verdict(w, status[t] \in Terminal)
              /\ UNCHANGED <<status, flag>>
        /\ UNCHANGED <<stopAsked, setting, envVars, msg, consumer, claimed, chan>>

\* markFailed: RUNNING fails, a terminal task stays as it is, any other
\* status refuses the transition.
Fail(w) ==
    LET t == Task(w)
    IN  /\ \/ worker[w].pc = "fail" /\ ~CtxDead(w)
           \/ worker[w].pc = "panic"
        /\ mode = "up"
        /\ IF status[t] = "RUNNING"
           THEN SetStatus(t, "FAILED")
           ELSE UNCHANGED status
        /\ Verdict(w, worker[w].pc = "fail" /\ status[t] \in Terminal \cup {"RUNNING"})
        /\ UNCHANGED <<stopAsked, redisVars, envVars, msg, consumer, claimed, chan>>

\* The final write does not reach the database: the context is cancelled
\* (the per-task one, or for a panic the root one), or the database fails.
FinalWriteFails(w) ==
    /\ Running
    /\ worker[w].pc \in {"complete", "fail", "panic"}
    /\ \/ /\ \/ mode = "draining"
             \/ worker[w].pc # "panic" /\ worker[w].dead
          /\ UNCHANGED faults
       \/ faults < MaxFaults /\ faults' = faults + 1
    /\ Verdict(w, FALSE)
    /\ UNCHANGED <<dbVars, redisVars, mode, exits, msg, consumer, claimed, chan>>

\* markStopped(context.Background()), first RequestStop ...
HaltRequest(w) ==
    LET t == Task(w)
    IN  /\ Running
        /\ worker[w].pc = "halt"
        /\ IF Exists(t) THEN WorkerTo(w, "haltstop") ELSE Verdict(w, FALSE)
        /\ \/ /\ status[t] = "CREATED"
              /\ SetStatus(t, "STOPPED")
              /\ UNCHANGED flag
           \/ /\ status[t] = "RUNNING"
              /\ SetStatus(t, "STOPPING")
              /\ SetFlag(t, TRUE)
           \/ /\ status[t] \notin {"CREATED", "RUNNING"}
              /\ UNCHANGED <<status, flag>>
        /\ UNCHANGED <<stopAsked, setting, envVars, msg, consumer, claimed, chan>>

\* ... then MarkStopped, and on success the cancel flag is deleted.
HaltStop(w) ==
    LET t == Task(w)
    IN  /\ Running
        /\ worker[w].pc = "haltstop"
        /\ \/ /\ status[t] \in Terminal \cup {"CREATED", "STOPPING"}
              /\ SetStatus(t, IF status[t] \in Terminal THEN status[t] ELSE "STOPPED")
              /\ SetFlag(t, FALSE)
              /\ Verdict(w, TRUE)
           \/ /\ status[t] \notin Terminal \cup {"CREATED", "STOPPING"}
              /\ Verdict(w, FALSE)
              /\ UNCHANGED <<status, flag>>
        /\ UNCHANGED <<stopAsked, setting, envVars, msg, consumer, claimed, chan>>

HaltFails(w) ==
    /\ Running
    /\ worker[w].pc \in {"halt", "haltstop"}
    /\ faults < MaxFaults
    /\ faults' = faults + 1
    /\ Verdict(w, FALSE)
    /\ UNCHANGED <<dbVars, redisVars, mode, exits, msg, consumer, claimed, chan>>

\* Mutant: a task that is being stopped counts as settled.
SettledOrStopping(t) == status[t] \in Terminal \cup {"STOPPING"}

\* safeGetTerminal.
Settled(t) == status[t] \in Terminal

\* settleMessage: Ack when the database says the task is terminal, Nack
\* otherwise; the worker's verdict decides only when the database cannot
\* tell (row gone, database failing, root context cancelled).
SettleMessage(w) ==
    LET t == Task(w)
        m == worker[w].m
    IN  /\ Running
        /\ worker[w].pc = "settle"
        /\ \/ /\ mode = "up" /\ Exists(t)
              /\ IF Settled(t) THEN Ack(m) ELSE Nack(m)
              /\ UNCHANGED faults
           \/ /\ \/ mode = "draining" /\ UNCHANGED faults
                 \/ ~Exists(t) /\ UNCHANGED faults
                 \/ faults < MaxFaults /\ faults' = faults + 1
              /\ IF worker[w].ok THEN Ack(m) ELSE Nack(m)
        /\ WorkerTo(w, "release")
        /\ UNCHANGED <<dbVars, redisVars, mode, exits, consumer, claimed, chan>>

\* The deferred releaseTask: executeTask returns.
ReleaseTask(w) ==
    /\ Running
    /\ worker[w].pc = "release"
    /\ claimed' = claimed \ {Task(w)}
    /\ worker' = [worker EXCEPT ![w] = IdleWorker]
    /\ UNCHANGED <<dbVars, redisVars, envVars, msg, consumer, chan>>

-----------------------------------------------------------------------------
(***************************************************************************)
(* The process.  Stop cancels the root context and waits for the workers,  *)
(* for a bounded time: the process may exit at any later moment.           *)
(***************************************************************************)
Stop ==
    /\ "shutdown" \in ExitKinds
    /\ mode = "up"
    /\ exits < MaxExits
    /\ exits' = exits + 1
    /\ mode' = "draining"
    /\ UNCHANGED <<dbVars, redisVars, msg, memVars, faults>>

LoseMemory ==
    /\ mode' = "down"
    /\ consumer' = IdleConsumer
    /\ claimed' = {}
    /\ chan' = <<>>
    /\ worker' = [w \in Workers |-> IdleWorker]

Exit ==
    /\ mode = "draining"
    /\ LoseMemory
    /\ UNCHANGED <<dbVars, redisVars, msg, exits, faults>>

Crash ==
    /\ "crash" \in ExitKinds
    /\ mode = "up"
    /\ exits < MaxExits
    /\ exits' = exits + 1
    /\ LoseMemory
    /\ UNCHANGED <<dbVars, redisVars, msg, faults>>

Restart ==
    /\ mode = "down"
    /\ mode' = "up"
    /\ UNCHANGED <<dbVars, redisVars, msg, memVars, exits, faults>>

-----------------------------------------------------------------------------
Init ==
    /\ status = [t \in Tasks |-> "FRESH"]
    /\ flag = [t \in Tasks |-> FALSE]
    /\ setting = {}
    /\ msg = [m \in Msgs |-> [task |-> NoTask, st |-> "unused", dc |-> 0]]
    /\ mode = "up"
    /\ consumer = IdleConsumer
    /\ claimed = {}
    /\ chan = <<>>
    /\ worker = [w \in Workers |-> IdleWorker]
    /\ faults = 0
    /\ exits = 0
    /\ stopAsked = [t \in Tasks |-> FALSE]

UserStep ==
    \E t \in Tasks :
        \/ CreateAndEnqueue(t) \/ RequestStop(t) \/ Remove(t)
        \/ SetCancelFlag(t) \/ CancelFlagExpires(t)

BrokerStep == \E m \in Msgs : AckWaitExpires(m)

ConsumerStep ==
    \/ \E m \in Msgs : Fetch(m)
    \/ StartRunning \/ StartRunningFails \/ ClaimAndQueue

WorkerStep(w) ==
    \/ Take(w) \/ CancelCheck(w) \/ PollCancel(w) \/ RunTask(w)
    \/ ClearStaleFlag(w) \/ Pipeline(w) \/ Complete(w) \/ Fail(w)
    \/ FinalWriteFails(w) \/ HaltRequest(w) \/ HaltStop(w) \/ HaltFails(w)
    \/ SettleMessage(w) \/ ReleaseTask(w)

ProcessStep == Stop \/ Exit \/ Crash \/ Restart

Next ==
    \/ UserStep \/ BrokerStep \/ ConsumerStep \/ ProcessStep
    \/ \E w \in Workers : WorkerStep(w)

Spec == Init /\ [][Next]_vars

\* Fairness.  The goroutines of a live process keep running, a pipeline
\* returns in the end, the broker lets AckWait expire and redelivers, a
\* supervisor restarts the process and Stop's deadline passes.  Users, flag
\* expiry, database faults and crashes owe nothing.
FairSpec ==
    /\ Spec
    /\ WF_vars(BrokerStep)
    /\ WF_vars(ConsumerStep)
    /\ \A w \in Workers : WF_vars(WorkerStep(w))
    /\ WF_vars(Exit)
    /\ WF_vars(Restart)

-----------------------------------------------------------------------------
TypeOK ==
    /\ status \in [Tasks -> Status]
    /\ flag \in [Tasks -> BOOLEAN]
    /\ setting \subseteq Tasks
    /\ msg \in [Msgs -> [task : Tasks \cup {NoTask},
                         st   : {"unused", "ready", "pending", "acked"},
                         dc   : 0..MaxDeliver]]
    /\ mode \in {"up", "draining", "down"}
    /\ consumer \in [pc : {"idle", "start", "claim"}, m : Msgs \cup {NoMsg}]
    /\ claimed \subseteq Tasks
    /\ chan \in Seq(Msgs)
    /\ worker \in [Workers -> [pc : {"idle", "check", "entry", "clear", "pipe",
                                     "complete", "fail", "panic", "halt",
                                     "haltstop", "settle", "release"},
                               m : Msgs \cup {NoMsg},
                               dead : BOOLEAN,
                               ok : BOOLEAN]]
    /\ faults \in 0..MaxFaults
    /\ exits \in 0..MaxExits
    /\ stopAsked \in [Tasks -> BOOLEAN]

\* claimTask "guards against duplicate execution": whatever is redelivered or
\* published twice, two workers of a process never execute the same task, and
\* none executes a task that also waits in the channel.
ExclusiveExecution ==
    /\ \A v, w \in Workers :
        Active(v) /\ Active(w) /\ v # w => Task(v) # Task(w)
    /\ \A w \in Workers : \A i \in DOMAIN chan :
        Active(w) => Task(w) # TaskOf(chan[i])
    /\ \A i, j \in DOMAIN chan : i # j => TaskOf(chan[i]) # TaskOf(chan[j])

\* At-least-once: a task that has not reached a terminal status is still
\* held by this process, or the broker will deliver a message for it.
\* Otherwise its row stays CREATED, RUNNING or STOPPING for ever, and
\* AssertIngestionTasksTerminal refuses every later re-parse.
HeldHere(t) ==
    \/ consumer.pc # "idle" /\ TaskOf(consumer.m) = t
    \/ \E i \in DOMAIN chan : TaskOf(chan[i]) = t
    \/ \E w \in Workers : worker[w].pc \notin {"idle", "release"} /\ Task(w) = t

Recoverable ==
    \A t \in Tasks : status[t] \in {"CREATED"} \cup Executing =>
        \/ HeldHere(t)
        \/ \E m \in Msgs : TaskOf(m) = t /\ Deliverable(m)

\* A row says STOPPED only if somebody asked to stop this run of the task.
StoppedOnlyOnRequest ==
    \A t \in Tasks : status[t] = "STOPPED" => stopAsked[t]

\* The pipeline of a task that has finished is never started again by a
\* redelivered message, however late the ack of the first delivery is.
FinishedNeverRerun ==
    [][\A w \in Workers :
        worker[w].pc = "clear" /\ worker'[w].pc = "pipe"
            => status[Task(w)] \notin Terminal]_vars

\* Every task that was enqueued reaches a terminal status (or is removed),
\* through crashes, restarts and cancellations, and a stop request on a running
\* task is honoured: STOPPING becomes STOPPED.
EveryTaskSettles ==
    \A t \in Tasks :
        /\ status[t] = "CREATED" ~> status[t] \in Terminal \cup {"GONE"}
        /\ status[t] = "STOPPING" ~> status[t] \in {"STOPPED", "GONE"}
=============================================================================
