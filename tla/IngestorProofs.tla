--------------------------- MODULE IngestorProofs ---------------------------
(***************************************************************************)
(* What an ingestor process promises, for any number of tasks, messages    *)
(* and workers and any capacity of the channel.                            *)
(*                                                                         *)
(* ExclusiveExecution (EInv): what makes it inductive is that whoever      *)
(* holds a task, the channel or a worker, has it in currentTasks (HeldOK), *)
(* and that a message never changes its task while somebody holds it.      *)
(*                                                                         *)
(* The other three hold without retries, when a task has one message.      *)
(* FinishedNeverRerun (FInv): a worker that has not started its pipeline   *)
(* is the only holder of an executing task.  StoppedOnlyOnRequest (SInv):  *)
(* all that leads to STOPPED goes back to a request.  Recoverable (RInv):  *)
(* a live task has a message that is not acknowledged, and its deliveries  *)
(* are counted by the exits of the process.                                *)
(***************************************************************************)
EXTENDS Ingestor, FiniteSetTheorems, TLAPS

WorkerRec == [pc : {"idle", "check", "entry", "clear", "pipe", "complete",
                    "fail", "panic", "halt", "haltstop", "settle", "release"},
              m : Msgs \cup {NoMsg}, dead : BOOLEAN, ok : BOOLEAN]
MsgRec    == [task : Tasks \cup {NoTask},
              st : {"unused", "ready", "pending", "acked"}, dc : 0..MaxDeliver]

\* TypeOK, in two parts.
EnvOK ==
    /\ status \in [Tasks -> Status]
    /\ flag \in [Tasks -> BOOLEAN]
    /\ setting \subseteq Tasks
    /\ mode \in {"up", "draining", "down"}
    /\ faults \in 0..MaxFaults
    /\ exits \in 0..MaxExits
    /\ stopAsked \in [Tasks -> BOOLEAN]

MemOK ==
    /\ msg \in [Msgs -> MsgRec]
    /\ consumer \in [pc : {"idle", "start", "claim"}, m : Msgs \cup {NoMsg}]
    /\ claimed \subseteq Tasks
    /\ chan \in Seq(Msgs)
    /\ worker \in [Workers -> WorkerRec]

Used(m) == msg[m].st # "unused"

\* Every message somebody holds has been published, and the tasks in the
\* channel and at the workers are claimed.
HeldOK ==
    /\ \A m \in Msgs : Used(m) => TaskOf(m) \in Tasks
    /\ consumer.pc # "idle" => consumer.m \in Msgs /\ Used(consumer.m)
    /\ \A i \in DOMAIN chan : Used(chan[i]) /\ TaskOf(chan[i]) \in claimed
    /\ \A w \in Workers : Active(w) =>
           worker[w].m \in Msgs /\ Used(worker[w].m) /\ Task(w) \in claimed

MemInv == MemOK /\ HeldOK /\ ExclusiveExecution
EInv   == EnvOK /\ MemInv

\* The stream changes, but no message in use becomes unused or changes task.
MsgKept ==
    /\ msg' \in [Msgs -> MsgRec]
    /\ \A m \in Msgs : Used(m) => msg'[m].st # "unused" /\ msg'[m].task = msg[m].task
    /\ \A m \in Msgs : msg'[m].st # "unused" => msg'[m].task \in Tasks

\* The type invariant splits into the surroundings and the memory of the process.
LEMMA TypeParts == TypeOK <=> EnvOK /\ MemOK
BY DEF TypeOK, EnvOK, MemOK, MsgRec, WorkerRec

-----------------------------------------------------------------------------
\* The broker's operations keep messages.
LEMMA AckKept ==
    ASSUME MemInv, NEW m \in Msgs, Used(m), Ack(m)
    PROVE  MsgKept
<1>1. msg \in [Msgs -> MsgRec] /\ \A n \in Msgs : Used(n) => msg[n].task \in Tasks
  BY DEF MemInv, MemOK, HeldOK, TaskOf
<1>2. msg' = [msg EXCEPT ![m] = [msg[m] EXCEPT !.st = "acked"]]
  BY <1>1 DEF Ack
<1> QED
  BY <1>1, <1>2 DEF MsgKept, MsgRec, Used

\* A Nack keeps the messages as well.
LEMMA NackKept ==
    ASSUME MemInv, NEW m \in Msgs, Nack(m)
    PROVE  MsgKept
<1>1. msg \in [Msgs -> MsgRec] /\ \A n \in Msgs : Used(n) => msg[n].task \in Tasks
  BY DEF MemInv, MemOK, HeldOK, TaskOf
<1>2. \/ msg' = msg
      \/ /\ msg[m].st = "pending"
         /\ msg' = [msg EXCEPT ![m] = [msg[m] EXCEPT !.st = "ready"]]
  BY <1>1 DEF Nack, MsgRec
<1> QED
  BY <1>1, <1>2 DEF MsgKept, MsgRec, Used

\* So does a step that leaves the broker alone.
LEMMA SameKept == ASSUME MemInv, UNCHANGED msg PROVE MsgKept
BY DEF MemInv, MemOK, HeldOK, MsgKept, MsgRec, Used, TaskOf

\* Steps that leave the memory of the process alone.
LEMMA MemKept ==
    ASSUME MemInv, MsgKept, UNCHANGED memVars
    PROVE  MemInv'
<1>1. MemOK'
  BY DEF MemInv, MemOK, MsgKept, memVars
<1>2. HeldOK'
  BY DEF MemInv, MemOK, HeldOK, MsgKept, memVars, Used, TaskOf, Task, Active
<1>3. ExclusiveExecution'
  <2>1. \A w \in Workers : Active(w) =>
            msg'[worker[w].m].task = msg[worker[w].m].task
    BY DEF MemInv, HeldOK, MsgKept
  <2>2. \A i \in DOMAIN chan : msg'[chan[i]].task = msg[chan[i]].task
    BY DEF MemInv, MemOK, HeldOK, MsgKept
  <2> QED
    BY <2>1, <2>2 DEF MemInv, ExclusiveExecution, memVars, TaskOf, Task, Active
<1> QED
  BY <1>1, <1>2, <1>3 DEF MemInv

\* Only the consumer moves on.
LEMMA ConsumerMoves ==
    ASSUME MemInv, MsgKept, UNCHANGED <<claimed, chan, worker>>,
           consumer' \in [pc : {"idle", "start", "claim"}, m : Msgs \cup {NoMsg}],
           consumer'.pc # "idle" =>
               consumer'.m \in Msgs /\ msg'[consumer'.m].st # "unused"
    PROVE  MemInv'
<1>1. MemOK'
  BY DEF MemInv, MemOK, MsgKept
<1>2. HeldOK'
  BY DEF MemInv, MemOK, HeldOK, MsgKept, Used, TaskOf, Task, Active
<1>3. ExclusiveExecution'
  <2>1. \A w \in Workers : Active(w) =>
            msg'[worker[w].m].task = msg[worker[w].m].task
    BY DEF MemInv, HeldOK, MsgKept
  <2>2. \A i \in DOMAIN chan : msg'[chan[i]].task = msg[chan[i]].task
    BY DEF MemInv, MemOK, HeldOK, MsgKept
  <2> QED
    BY <2>1, <2>2 DEF MemInv, ExclusiveExecution, TaskOf, Task, Active
<1> QED
  BY <1>1, <1>2, <1>3 DEF MemInv

\* A worker goes on with the task it holds.
LEMMA WorkerMoves ==
    ASSUME MemInv, MsgKept, UNCHANGED <<consumer, claimed, chan>>,
           NEW w \in Workers, NEW r \in WorkerRec,
           Active(w), r.pc # "idle", r.m = worker[w].m,
           worker' = [worker EXCEPT ![w] = r]
    PROVE  MemInv'
<1>0. /\ \A v \in Workers : worker'[v] = IF v = w THEN r ELSE worker[v]
      /\ \A v \in Workers : worker'[v].m = worker[v].m
      /\ \A v \in Workers : worker'[v].pc # "idle" <=> worker[v].pc # "idle"
  BY DEF MemInv, MemOK, Active
<1>1. MemOK'
  BY <1>0 DEF MemInv, MemOK, MsgKept
<1>2. HeldOK'
  BY <1>0 DEF MemInv, MemOK, HeldOK, MsgKept, Used, TaskOf, Task, Active
<1>3. ExclusiveExecution'
  <2>1. \A v \in Workers : Active(v) =>
            msg'[worker[v].m].task = msg[worker[v].m].task
    BY DEF MemInv, HeldOK, MsgKept
  <2>2. \A i \in DOMAIN chan : msg'[chan[i]].task = msg[chan[i]].task
    BY DEF MemInv, MemOK, HeldOK, MsgKept
  <2> QED
    BY <1>0, <2>1, <2>2 DEF MemInv, ExclusiveExecution, TaskOf, Task, Active
<1> QED
  BY <1>1, <1>2, <1>3 DEF MemInv

ActivePC == {"check", "entry", "clear", "pipe", "complete", "fail", "panic",
             "halt", "haltstop", "settle", "release"}

\* A worker goes on to another place of its code with what it holds.
LEMMA WorkerToMoves ==
    ASSUME MemInv, MsgKept, UNCHANGED <<consumer, claimed, chan>>,
           NEW w \in Workers, NEW pc \in ActivePC, Active(w), WorkerTo(w, pc)
    PROVE  MemInv'
<1> DEFINE r == [worker[w] EXCEPT !.pc = pc]
<1>1. worker[w] \in WorkerRec /\ worker \in [Workers -> WorkerRec]
  BY DEF MemInv, MemOK
<1>2. r \in WorkerRec /\ r.pc # "idle" /\ r.m = worker[w].m
  BY <1>1 DEF WorkerRec, ActivePC
<1>3. worker' = [worker EXCEPT ![w] = r]
  BY <1>1 DEF WorkerTo
<1> QED
  BY <1>2, <1>3, WorkerMoves

\* A worker decides how the run of its task ended.
LEMMA VerdictMoves ==
    ASSUME MemInv, MsgKept, UNCHANGED <<consumer, claimed, chan>>,
           NEW w \in Workers, NEW ok \in BOOLEAN, Active(w), Verdict(w, ok)
    PROVE  MemInv'
<1> DEFINE r == [worker[w] EXCEPT !.pc = "settle", !.ok = ok]
<1>1. worker[w] \in WorkerRec /\ worker \in [Workers -> WorkerRec]
  BY DEF MemInv, MemOK
<1>2. r \in WorkerRec /\ r.pc # "idle" /\ r.m = worker[w].m
  BY <1>1 DEF WorkerRec
<1>3. worker' = [worker EXCEPT ![w] = r]
  BY <1>1 DEF Verdict
<1> QED
  BY <1>2, <1>3, WorkerMoves

\* A worker whose context is dead goes on.
LEMMA DeadMoves ==
    ASSUME MemInv, MsgKept, UNCHANGED <<consumer, claimed, chan>>,
           NEW w \in Workers, NEW pc \in ActivePC, NEW dead \in BOOLEAN, Active(w),
           worker' = [worker EXCEPT ![w] = [worker[w] EXCEPT !.pc = pc, !.dead = dead]]
    PROVE  MemInv'
<1> DEFINE r == [worker[w] EXCEPT !.pc = pc, !.dead = dead]
<1>1. worker[w] \in WorkerRec
  BY DEF MemInv, MemOK
<1>2. r \in WorkerRec /\ r.pc # "idle" /\ r.m = worker[w].m
  BY <1>1 DEF WorkerRec, ActivePC
<1> QED
  BY <1>2, WorkerMoves

\* An empty memory holds nothing.
LEMMA MemoryLost ==
    ASSUME MemInv, LoseMemory, UNCHANGED msg
    PROVE  MemInv'
<1>1. /\ consumer' = IdleConsumer /\ claimed' = {} /\ chan' = <<>>
      /\ \A w \in Workers : worker'[w].pc = "idle"
      /\ msg' = msg
  BY DEF LoseMemory, IdleWorker
<1>2. MemOK'
  BY DEF MemInv, MemOK, LoseMemory, IdleConsumer, IdleWorker, WorkerRec
<1>3. HeldOK'
  BY <1>1 DEF MemInv, HeldOK, IdleConsumer, Used, TaskOf, Active
<1>4. ExclusiveExecution'
  BY <1>1 DEF ExclusiveExecution, Active
<1> QED
  BY <1>2, <1>3, <1>4 DEF MemInv

-----------------------------------------------------------------------------
\* Actions outside the process, and those of the process that only change
\* its mode.
LEMMA CreateAndEnqueueMem ==
    ASSUME MemInv, NEW t \in Tasks, CreateAndEnqueue(t)
    PROVE  MemInv'
<1>1. PICK m \in Msgs :
        /\ ~Used(m)
        /\ msg' = [msg EXCEPT ![m] = [task |-> t, st |-> "ready", dc |-> 0]]
  BY DEF CreateAndEnqueue, Used
<1>2. [task |-> t, st |-> "ready", dc |-> 0] \in MsgRec
  BY IngestorAssumption DEF MsgRec
<1>3. MsgKept
  BY <1>1, <1>2 DEF MemInv, MemOK, HeldOK, MsgKept, Used, TaskOf
<1> QED
  BY <1>3, MemKept DEF CreateAndEnqueue, memVars

\* What users do does not reach into the memory of the process.
LEMMA UserMem ==
    ASSUME MemInv, UserStep
    PROVE  MemInv'
<1>1. ASSUME NEW t \in Tasks, CreateAndEnqueue(t) PROVE MemInv'
  BY <1>1, CreateAndEnqueueMem
<1>2. ASSUME NEW t \in Tasks,
             \/ RequestStop(t) \/ Remove(t) \/ SetCancelFlag(t) \/ CancelFlagExpires(t)
      PROVE  MemInv'
  BY <1>2, SameKept, MemKept
     DEF RequestStop, Remove, SetCancelFlag, CancelFlagExpires, memVars
<1> QED
  BY <1>1, <1>2 DEF UserStep

\* Neither does the passing of AckWait.
LEMMA BrokerMem ==
    ASSUME MemInv, BrokerStep
    PROVE  MemInv'
BY NackKept, MemKept DEF BrokerStep, AckWaitExpires, memVars

\* Shutdown, exit, crash and restart: the memory is kept or lost as a whole.
LEMMA ProcessMem ==
    ASSUME MemInv, ProcessStep
    PROVE  MemInv'
<1>1. CASE Stop \/ Restart
  BY <1>1, SameKept, MemKept DEF Stop, Restart, memVars
<1>2. CASE Exit \/ Crash
  BY <1>2, MemoryLost DEF Exit, Crash
<1> QED
  BY <1>1, <1>2 DEF ProcessStep

-----------------------------------------------------------------------------
\* The consumer.
LEMMA FetchMem ==
    ASSUME MemInv, NEW m \in Msgs, Fetch(m)
    PROVE  MemInv'
<1>1. msg \in [Msgs -> MsgRec] /\ \A n \in Msgs : Used(n) => msg[n].task \in Tasks
  BY DEF MemInv, MemOK, HeldOK, TaskOf
<1>2. /\ msg[m].st = "ready" /\ msg[m].dc < MaxDeliver
      /\ msg' = [msg EXCEPT ![m] = [msg[m] EXCEPT !.st = "pending",
                                                  !.dc = msg[m].dc + 1]]
  BY <1>1 DEF Fetch
<1>3. [msg[m] EXCEPT !.st = "pending", !.dc = msg[m].dc + 1] \in MsgRec
  <2>1. msg[m] \in MsgRec /\ msg[m].dc \in 0..MaxDeliver
    BY <1>1 DEF MsgRec
  <2>2. msg[m].dc + 1 \in 0..MaxDeliver
    BY <1>2, <2>1, IngestorAssumption
  <2> QED
    BY <2>1, <2>2 DEF MsgRec
<1>4. MsgKept
  BY <1>1, <1>2, <1>3 DEF MsgKept, Used, MsgRec
<1>5. consumer' = [pc |-> "start", m |-> m] /\ msg'[m].st # "unused"
  BY <1>1, <1>2 DEF Fetch, MsgRec
<1> QED
  BY <1>4, <1>5, ConsumerMoves DEF Fetch

\* The consumer marks the task RUNNING, or gives the message back.
LEMMA StartRunningMem ==
    ASSUME MemInv, StartRunning \/ StartRunningFails
    PROVE  MemInv'
<1> DEFINE m == consumer.m
<1>1. /\ m \in Msgs /\ Used(m) /\ consumer.pc = "start"
      /\ consumer \in [pc : {"idle", "start", "claim"}, m : Msgs \cup {NoMsg}]
  BY DEF MemInv, MemOK, HeldOK, StartRunning, StartRunningFails
<1>2. MsgKept
  BY <1>1, AckKept, NackKept, SameKept DEF StartRunning, StartRunningFails
<1>3. consumer' = IdleConsumer \/ consumer' = [consumer EXCEPT !.pc = "claim"]
  BY DEF StartRunning, StartRunningFails
<1>4. /\ consumer' \in [pc : {"idle", "start", "claim"}, m : Msgs \cup {NoMsg}]
      /\ consumer'.pc # "idle" => consumer'.m = m
  BY <1>1, <1>3 DEF IdleConsumer
<1>5. msg'[m].st # "unused"
  BY <1>1, <1>2 DEF MsgKept
<1> QED
  BY <1>1, <1>2, <1>4, <1>5, ConsumerMoves DEF StartRunning, StartRunningFails

\* A task enters the channel only when nobody holds it, and is claimed from
\* then on.
LEMMA ClaimAndQueueMem ==
    ASSUME MemInv, ClaimAndQueue
    PROVE  MemInv'
<1> DEFINE m == consumer.m
           t == TaskOf(m)
<1>1. /\ m \in Msgs /\ Used(m) /\ t \in Tasks /\ consumer' = IdleConsumer
  BY DEF MemInv, HeldOK, ClaimAndQueue
<1>2. CASE UNCHANGED <<claimed, chan>> /\ (Ack(m) \/ Nack(m))
  <2>1. MsgKept
    BY <1>1, <1>2, AckKept, NackKept
  <2> QED
    BY <1>1, <1>2, <2>1, ConsumerMoves DEF ClaimAndQueue, IdleConsumer
<1>3. CASE /\ t \notin claimed /\ claimed' = claimed \cup {t}
           /\ chan' = Append(chan, m) /\ UNCHANGED msg
  <2>1. /\ msg' = msg /\ worker' = worker /\ chan \in Seq(Msgs)
        /\ chan' \in Seq(Msgs) /\ DOMAIN chan' = 1..Len(chan) + 1
        /\ \A i \in DOMAIN chan' :
              \/ i \in DOMAIN chan /\ chan'[i] = chan[i]
              \/ i = Len(chan) + 1 /\ chan'[i] = m
    BY <1>1, <1>3 DEF ClaimAndQueue, MemInv, MemOK
  <2>2. MemOK'
    BY <1>1, <1>3, <2>1 DEF MemInv, MemOK, IdleConsumer
  <2>3. HeldOK'
    BY <1>1, <1>3, <2>1 DEF MemInv, HeldOK, Used, TaskOf, Task, Active, IdleConsumer
  <2>4. /\ \A w \in Workers : Active(w) => Task(w) # t
        /\ \A i \in DOMAIN chan : TaskOf(chan[i]) # t
    BY <1>3 DEF MemInv, HeldOK
  <2>5. ExclusiveExecution'
    BY <2>1, <2>4 DEF MemInv, ExclusiveExecution, Active, Task, TaskOf
  <2> QED
    BY <2>2, <2>3, <2>5 DEF MemInv
<1> QED
  BY <1>2, <1>3 DEF ClaimAndQueue, Claimable

-----------------------------------------------------------------------------
\* The workers.
\* The task of a busy worker is claimed and its message is a used one.
LEMMA WorkerFacts ==
    ASSUME MemInv, NEW w \in Workers, Active(w)
    PROVE  /\ worker[w] \in WorkerRec /\ worker \in [Workers -> WorkerRec]
           /\ worker[w].m \in Msgs /\ Used(worker[w].m)
           /\ Task(w) \in Tasks /\ Task(w) \in claimed
BY DEF MemInv, MemOK, HeldOK, Task, TaskOf

\* A worker takes over what the channel held.
LEMMA TakeMem ==
    ASSUME MemInv, NEW w \in Workers, Take(w)
    PROVE  MemInv'
<1> DEFINE m == Head(chan)
           r == [IdleWorker EXCEPT !.pc = "check", !.m = m]
<1>1. /\ chan \in Seq(Msgs) /\ chan # <<>> /\ chan' = Tail(chan)
      /\ worker[w].pc = "idle" /\ worker' = [worker EXCEPT ![w] = r]
      /\ worker \in [Workers -> WorkerRec]
      /\ msg' = msg /\ consumer' = consumer /\ claimed' = claimed
  BY DEF Take, MemInv, MemOK
<1>2. /\ m \in Msgs /\ m = chan[1] /\ 1 \in DOMAIN chan
      /\ chan' \in Seq(Msgs)
      /\ \A i \in DOMAIN chan' :
            i + 1 \in DOMAIN chan /\ chan'[i] = chan[i + 1] /\ i + 1 # 1
  BY <1>1
<1>3. /\ r \in WorkerRec /\ r.pc = "check" /\ r.m = m
  BY <1>2 DEF IdleWorker, WorkerRec
<1>4. \A v \in Workers : worker'[v] = IF v = w THEN r ELSE worker[v]
  BY <1>1
<1>5. Used(m) /\ TaskOf(m) \in claimed
  BY <1>2 DEF MemInv, HeldOK
<1>6. MemOK'
  BY <1>1, <1>2, <1>3, <1>4 DEF MemInv, MemOK
<1>7. HeldOK'
  <2>1. \A v \in Workers : worker'[v].pc # "idle" =>
            /\ worker'[v].m \in Msgs /\ msg[worker'[v].m].st # "unused"
            /\ msg[worker'[v].m].task \in claimed
    BY <1>2, <1>3, <1>4, <1>5 DEF MemInv, HeldOK, Used, Active, Task, TaskOf
  <2>2. \A i \in DOMAIN chan' : Used(chan'[i]) /\ TaskOf(chan'[i]) \in claimed
    BY <1>2 DEF MemInv, HeldOK
  <2> QED
    BY <1>1, <2>1, <2>2 DEF MemInv, HeldOK, Used, Active, Task, TaskOf
<1>8. ExclusiveExecution'
  <2>1. \A v \in Workers : v # w /\ Active(v) => Task(v) # TaskOf(m)
    BY <1>2 DEF MemInv, ExclusiveExecution
  <2>2. \A i \in DOMAIN chan' : TaskOf(chan'[i]) # TaskOf(m)
    BY <1>2 DEF MemInv, ExclusiveExecution
  <2>3. \A i, j \in DOMAIN chan' : i # j => TaskOf(chan'[i]) # TaskOf(chan'[j])
    <3>1. \A i, j \in DOMAIN chan' : i # j => i + 1 # j + 1
      BY <1>1
    <3> QED
      BY <1>2, <3>1 DEF MemInv, ExclusiveExecution
  <2>4. \A v \in Workers : \A i \in DOMAIN chan' :
            v # w /\ Active(v) => Task(v) # TaskOf(chan'[i])
    BY <1>2 DEF MemInv, ExclusiveExecution
  <2> QED
    BY <1>1, <1>3, <1>4, <2>1, <2>2, <2>3, <2>4
       DEF MemInv, ExclusiveExecution, Active, Task, TaskOf
<1> QED
  BY <1>6, <1>7, <1>8 DEF MemInv

\* The claim is given up by the only one who holds the task.
LEMMA ReleaseTaskMem ==
    ASSUME MemInv, NEW w \in Workers, ReleaseTask(w)
    PROVE  MemInv'
<1>1. /\ Active(w) /\ claimed' = claimed \ {Task(w)}
      /\ worker \in [Workers -> WorkerRec]
      /\ worker' = [worker EXCEPT ![w] = IdleWorker]
      /\ msg' = msg /\ consumer' = consumer /\ chan' = chan
  BY DEF ReleaseTask, Active, MemInv, MemOK
<1>2. /\ IdleWorker \in WorkerRec /\ IdleWorker.pc = "idle"
      /\ \A v \in Workers : worker'[v] = IF v = w THEN IdleWorker ELSE worker[v]
  BY <1>1 DEF IdleWorker, WorkerRec
<1>3. MemOK'
  BY <1>1, <1>2 DEF MemInv, MemOK
<1>4. /\ \A v \in Workers : v # w /\ Active(v) => Task(v) # Task(w)
      /\ \A i \in DOMAIN chan : TaskOf(chan[i]) # Task(w)
  BY <1>1 DEF MemInv, ExclusiveExecution
<1>5. HeldOK'
  BY <1>1, <1>2, <1>4 DEF MemInv, HeldOK, Used, Active, Task, TaskOf
<1>6. ExclusiveExecution'
  BY <1>1, <1>2 DEF MemInv, ExclusiveExecution, Active, Task, TaskOf
<1> QED
  BY <1>3, <1>5, <1>6 DEF MemInv

\* Everything else a worker does happens to the task it holds.
LEMMA CancelMem ==
    ASSUME MemInv, EnvOK, NEW w \in Workers, CancelCheck(w) \/ PollCancel(w)
    PROVE  MemInv'
<1>1. Active(w) /\ MsgKept
  BY SameKept DEF CancelCheck, PollCancel, Active
<1>2. worker[w] \in WorkerRec /\ worker \in [Workers -> WorkerRec] /\ Task(w) \in Tasks
  BY <1>1, WorkerFacts
<1>3. CASE CancelCheck(w)
  <2> DEFINE dead == mode = "up" /\ CancelSeen(Task(w))
  <2>1. dead \in BOOLEAN
    BY <1>2 DEF EnvOK, CancelSeen
  <2>2. worker' = [worker EXCEPT ![w] = [worker[w] EXCEPT !.pc = "entry", !.dead = dead]]
    BY <1>2, <1>3 DEF CancelCheck
  <2> HIDE DEF dead
  <2> QED
    BY <1>1, <1>3, <2>1, <2>2, DeadMoves DEF CancelCheck, ActivePC
<1>4. CASE PollCancel(w)
  <2>1. /\ worker' = [worker EXCEPT ![w] =
                        [worker[w] EXCEPT !.pc = worker[w].pc, !.dead = TRUE]]
        /\ worker[w].pc \in ActivePC
    BY <1>2, <1>4 DEF PollCancel, ActivePC, WorkerRec
  <2> QED
    BY <1>1, <1>4, <2>1, DeadMoves DEF PollCancel
<1> QED
  BY <1>3, <1>4

\* runTask and the pipeline stay with the task of the worker.
LEMMA RunMem ==
    ASSUME MemInv, NEW w \in Workers,
           RunTask(w) \/ ClearStaleFlag(w) \/ Pipeline(w)
    PROVE  MemInv'
<1>1. Active(w) /\ MsgKept
  BY SameKept DEF RunTask, ClearStaleFlag, Pipeline, Active
<1>2. PICK pc \in ActivePC : WorkerTo(w, pc)
  BY DEF RunTask, ClearStaleFlag, Pipeline, ActivePC
<1> QED
  BY <1>1, <1>2, WorkerToMoves DEF RunTask, ClearStaleFlag, Pipeline

\* The final write of a run, whether it succeeds or fails.
LEMMA FinalMem ==
    ASSUME MemInv, NEW w \in Workers,
           Complete(w) \/ Fail(w) \/ FinalWriteFails(w) \/ HaltStop(w) \/ HaltFails(w)
    PROVE  MemInv'
<1>1. Active(w) /\ MsgKept
  BY SameKept DEF Complete, Fail, FinalWriteFails, HaltStop, HaltFails, Active
<1>2. \E ok \in BOOLEAN : Verdict(w, ok)
  <2>1. \A t : (status[t] \in Terminal) \in BOOLEAN
    OBVIOUS
  <2>2. CASE Complete(w)
    BY <2>1, <2>2, Zenon DEF Complete
  <2>3. CASE Fail(w)
    <3> DEFINE ok == worker[w].pc = "fail" /\ status[Task(w)] \in Terminal \cup {"RUNNING"}
    <3>1. ok \in BOOLEAN /\ Verdict(w, ok)
      BY <2>3, Zenon DEF Fail
    <3> QED
      BY <3>1, Zenon
  <2>4. CASE FinalWriteFails(w) \/ HaltStop(w) \/ HaltFails(w)
    BY <2>4 DEF FinalWriteFails, HaltStop, HaltFails
  <2> QED
    BY <2>2, <2>3, <2>4
<1> QED
  BY <1>1, <1>2, VerdictMoves DEF Complete, Fail, FinalWriteFails, HaltStop, HaltFails

\* The first half of markStopped.
LEMMA HaltRequestMem ==
    ASSUME MemInv, NEW w \in Workers, HaltRequest(w)
    PROVE  MemInv'
<1>1. Active(w) /\ MsgKept
  BY SameKept DEF HaltRequest, Active
<1>2. WorkerTo(w, "haltstop") \/ Verdict(w, FALSE)
  BY DEF HaltRequest
<1> QED
  BY <1>1, <1>2, WorkerToMoves, VerdictMoves DEF HaltRequest, ActivePC

\* settleMessage answers the broker; the claim is kept until releaseTask.
LEMMA SettleMem ==
    ASSUME MemInv, NEW w \in Workers, SettleMessage(w)
    PROVE  MemInv'
<1>1. Active(w)
  BY DEF SettleMessage, Active
<1>2. MsgKept
  BY <1>1, WorkerFacts, AckKept, NackKept DEF SettleMessage
<1> QED
  BY <1>1, <1>2, WorkerToMoves DEF SettleMessage, ActivePC

\* Every step keeps the memory part of the invariant.
LEMMA NextMem ==
    ASSUME EInv, [Next]_vars
    PROVE  MemInv'
<1>1. ASSUME NEW w \in Workers, WorkerStep(w) PROVE MemInv'
  BY <1>1, TakeMem, CancelMem, RunMem, FinalMem, HaltRequestMem, SettleMem,
     ReleaseTaskMem DEF WorkerStep, EInv
<1>2. CASE ConsumerStep
  BY <1>2, FetchMem, StartRunningMem, ClaimAndQueueMem DEF ConsumerStep, EInv
<1>3. CASE UNCHANGED vars
  BY <1>3, SameKept, MemKept DEF vars, memVars, EInv
<1> QED
  BY <1>1, <1>2, <1>3, UserMem, BrokerMem, ProcessMem DEF Next, EInv

-----------------------------------------------------------------------------
\* The rest of the state keeps its types.
LEMMA UserEnv ==
    ASSUME EInv, UserStep \/ BrokerStep \/ ProcessStep
    PROVE  EnvOK'
<1>1. ASSUME NEW t \in Tasks, CreateAndEnqueue(t) PROVE EnvOK'
  BY <1>1, IngestorAssumption DEF EInv, EnvOK, CreateAndEnqueue, SetStatus, Status,
     RowStatus, redisVars, envVars
<1>2. ASSUME NEW t \in Tasks, RequestStop(t) \/ Remove(t) PROVE EnvOK'
  BY <1>2 DEF EInv, EnvOK, RequestStop, Remove, SetStatus, Status, RowStatus,
     Terminal, Executing, redisVars, envVars
<1>3. ASSUME NEW t \in Tasks, SetCancelFlag(t) \/ CancelFlagExpires(t) PROVE EnvOK'
  BY <1>3 DEF EInv, EnvOK, SetCancelFlag, CancelFlagExpires, SetFlag, dbVars, envVars
<1>4. CASE BrokerStep
  BY <1>4 DEF EInv, EnvOK, BrokerStep, AckWaitExpires, dbVars, redisVars, envVars
<1>5. CASE ProcessStep
  BY <1>5, IngestorAssumption DEF EInv, EnvOK, ProcessStep, Stop, Exit, Crash, Restart,
     LoseMemory, dbVars, redisVars
<1> QED
  BY <1>1, <1>2, <1>3, <1>4, <1>5 DEF UserStep

\* Types of the surroundings under the consumer's steps.
LEMMA ConsumerEnv ==
    ASSUME EInv, ConsumerStep
    PROVE  EnvOK'
<1>1. CASE \E m \in Msgs : Fetch(m)
  BY <1>1 DEF EInv, EnvOK, Fetch, dbVars, redisVars, envVars
<1>2. CASE StartRunning
  BY <1>2 DEF EInv, EnvOK, StartRunning, SetStatus, Status, RowStatus, Terminal,
     Executing, redisVars, envVars
<1>3. CASE StartRunningFails
  BY <1>3, IngestorAssumption DEF EInv, EnvOK, StartRunningFails, dbVars, redisVars
<1>4. CASE ClaimAndQueue
  BY <1>4 DEF EInv, EnvOK, ClaimAndQueue, dbVars, redisVars, envVars
<1> QED
  BY <1>1, <1>2, <1>3, <1>4 DEF ConsumerStep

\* Types of the surroundings under the workers' steps.
LEMMA WorkerEnv ==
    ASSUME EInv, NEW w \in Workers, WorkerStep(w)
    PROVE  EnvOK'
<1>1. CASE Take(w) \/ CancelCheck(w) \/ PollCancel(w) \/ RunTask(w) \/ Pipeline(w)
           \/ ReleaseTask(w)
  BY <1>1 DEF EInv, EnvOK, Take, CancelCheck, PollCancel, RunTask, Pipeline,
     ReleaseTask, dbVars, redisVars, envVars
<1>2. CASE ClearStaleFlag(w)
  BY <1>2 DEF EInv, EnvOK, ClearStaleFlag, SetFlag, dbVars, envVars
<1>3. CASE Complete(w) \/ Fail(w)
  <2>1. CASE Complete(w)
    BY <2>1 DEF EInv, EnvOK, Complete, SetStatus, SetFlag, Status, RowStatus,
       Terminal, Executing, envVars
  <2>2. CASE Fail(w)
    BY <2>2 DEF EInv, EnvOK, Fail, SetStatus, Status, RowStatus, Terminal,
       Executing, redisVars, envVars
  <2> QED
    BY <1>3, <2>1, <2>2
<1>4. CASE FinalWriteFails(w) \/ HaltFails(w) \/ SettleMessage(w)
  <2>1. /\ UNCHANGED <<dbVars, redisVars, mode, exits>>
        /\ faults' = faults \/ (faults < MaxFaults /\ faults' = faults + 1)
    BY <1>4, Zenon DEF FinalWriteFails, HaltFails, SettleMessage
  <2> QED
    BY <2>1, IngestorAssumption DEF EInv, EnvOK, dbVars, redisVars
<1>5. CASE HaltRequest(w)
  BY <1>5 DEF EInv, EnvOK, HaltRequest, SetStatus, SetFlag, Status, RowStatus,
     Terminal, Executing, envVars
<1>6. CASE HaltStop(w)
  BY <1>6 DEF EInv, EnvOK, HaltStop, SetStatus, SetFlag, Status, RowStatus,
     Terminal, Executing, envVars
<1> QED
  BY <1>1, <1>2, <1>3, <1>4, <1>5, <1>6 DEF WorkerStep

\* Types of the surroundings under every step.
LEMMA NextEnv ==
    ASSUME EInv, [Next]_vars
    PROVE  EnvOK'
<1>1. CASE UNCHANGED vars
  BY <1>1 DEF EInv, EnvOK, vars
<1> QED
  BY <1>1, UserEnv, ConsumerEnv, WorkerEnv DEF Next

-----------------------------------------------------------------------------
\* The invariant holds at the start, with nothing claimed.
LEMMA InitExclusive == Init => EInv
<1> SUFFICES ASSUME Init PROVE EInv
  OBVIOUS
<1>1. EnvOK
  BY IngestorAssumption DEF Init, EnvOK, Status
<1>2. MemOK
  BY IngestorAssumption DEF Init, MemOK, MsgRec, WorkerRec, IdleConsumer, IdleWorker
<1>3. HeldOK /\ ExclusiveExecution
  BY DEF Init, HeldOK, ExclusiveExecution, Used, Active, IdleConsumer, IdleWorker
<1> QED
  BY <1>1, <1>2, <1>3 DEF EInv, MemInv

\* The inductive invariant holds in every reachable state.
THEOREM IngestorInvariance == Spec => []EInv
<1>1. EInv /\ [Next]_vars => EInv'
  BY NextMem, NextEnv DEF EInv
<1> QED
  BY InitExclusive, <1>1, PTL DEF Spec

\* Every variable of the process and its surroundings keeps its type.
THEOREM IngestorTypes == Spec => []TypeOK
<1>1. EInv => TypeOK
  BY TypeParts DEF EInv, MemInv
<1> QED
  BY IngestorInvariance, <1>1, PTL

\* No task is ever executed by two workers of a process, or queued and
\* executed, or queued twice: whatever is redelivered or published again,
\* with any number of crashes, faults and slow holders.
THEOREM Exclusive == Spec => []ExclusiveExecution
<1>1. EInv => ExclusiveExecution
  BY DEF EInv, MemInv
<1> QED
  BY IngestorInvariance, <1>1, PTL

-----------------------------------------------------------------------------
(***************************************************************************)
(* One message for every task: without retries nothing is published twice. *)
(***************************************************************************)

\* A task that has not been started or is running: nobody has asked to stop it.
Ahead == {"CREATED", "RUNNING"}

\* Assumption of this section and the next ones: no FAILED or STOPPED task is enqueued again.
NoRetry == "retry" \notin UserOps

\* Without retries a status never goes back.
OnlyForward(t) ==
    /\ status'[t] = "FRESH" => status[t] = "FRESH"
    /\ status'[t] = "CREATED" => status[t] \in {"FRESH", "CREATED"}
    /\ status'[t] = "RUNNING" => status[t] \in Ahead
    /\ status[t] \in Terminal => status'[t] \in Terminal \cup {"GONE"}
    /\ status[t] = "GONE" => status'[t] = "GONE"

\* Every step moves the status of a task forward.
LEMMA StatusMoves ==
    ASSUME EInv, NoRetry, [Next]_vars, NEW t \in Tasks
    PROVE  OnlyForward(t)
<1>0. status \in [Tasks -> Status]
  BY DEF EInv, EnvOK
<1>1. CASE UNCHANGED status
  BY <1>1 DEF OnlyForward, Ahead, Terminal
<1> USE <1>0 DEF OnlyForward, SetStatus, Ahead, Terminal, Executing, Status, RowStatus, Retryable, NoRetry
<1>2. CASE UserStep
  BY <1>2 DEF UserStep, CreateAndEnqueue, RequestStop, Remove, Exists, SetCancelFlag, CancelFlagExpires, dbVars
<1>3. CASE ConsumerStep
  BY <1>3 DEF ConsumerStep, Fetch, StartRunning, StartRunningFails, ClaimAndQueue, dbVars, NothingToRun, Exists
<1>4. ASSUME NEW w \in Workers, WorkerStep(w) PROVE OnlyForward(t)
  <2>2. CASE Complete(w) \/ Fail(w)
    BY <2>2 DEF Complete, Fail
  <2>3. CASE HaltRequest(w) \/ HaltStop(w)
    BY <2>3 DEF HaltRequest, HaltStop
  <2>4. CASE \/ Take(w) \/ CancelCheck(w) \/ PollCancel(w) \/ RunTask(w) \/ ClearStaleFlag(w)
             \/ Pipeline(w) \/ FinalWriteFails(w) \/ HaltFails(w) \/ SettleMessage(w) \/ ReleaseTask(w)
    <3>1. UNCHANGED status
      BY <2>4 DEF Take, CancelCheck, PollCancel, RunTask, ClearStaleFlag, Pipeline,
         FinalWriteFails, HaltFails, SettleMessage, ReleaseTask, dbVars
    <3> QED
      BY <1>1, <3>1
  <2> QED
    BY <1>4, <2>2, <2>3, <2>4 DEF WorkerStep
<1>5. CASE BrokerStep \/ ProcessStep \/ UNCHANGED vars
  <2>1. UNCHANGED status
    BY <1>5 DEF BrokerStep, AckWaitExpires, ProcessStep, Stop, Exit, Crash, Restart, dbVars, vars
  <2> QED
    BY <1>1, <2>1
<1> QED
  BY <1>2, <1>3, <1>4, <1>5 DEF Next

\* What every step but CreateAndEnqueue does to a message.
Keeps(m) ==
    /\ msg'[m].task = msg[m].task
    /\ msg'[m].st = "unused" <=> msg[m].st = "unused"
    /\ msg[m].st = "acked" => msg'[m].st = "acked"

\* An ack or a nack of a message in use keeps all messages.
LEMMA AnswerKeeps ==
    ASSUME EInv, NEW m \in Msgs, NEW n \in Msgs, (Ack(n) /\ Used(n)) \/ Nack(n)
    PROVE  Keeps(m)
<1>1. msg \in [Msgs -> MsgRec]
  BY DEF EInv, MemInv, MemOK
<1> QED
  BY <1>1 DEF Ack, Nack, MsgRec, Used, Keeps

\* Every step but a creation keeps all messages.
LEMMA MsgMoves ==
    ASSUME EInv, [Next]_vars, \A t \in Tasks : ~CreateAndEnqueue(t), NEW m \in Msgs
    PROVE  Keeps(m)
<1>0. msg \in [Msgs -> MsgRec]
  BY DEF EInv, MemInv, MemOK
<1>1. CASE UNCHANGED msg
  BY <1>1 DEF Keeps
<1>3. ASSUME NEW n \in Msgs, Fetch(n) PROVE Keeps(m)
  BY <1>3, <1>0 DEF Fetch, MsgRec, Keeps
<1>4. CASE StartRunning \/ StartRunningFails \/ ClaimAndQueue
  <2>1. consumer.m \in Msgs /\ Used(consumer.m)
    BY <1>4 DEF EInv, MemInv, HeldOK, StartRunning, StartRunningFails, ClaimAndQueue
  <2>2. Ack(consumer.m) \/ Nack(consumer.m) \/ UNCHANGED msg
    BY <1>4 DEF StartRunning, StartRunningFails, ClaimAndQueue
  <2> QED
    BY <1>1, AnswerKeeps, <2>1, <2>2
<1>5. ASSUME NEW w \in Workers, SettleMessage(w) PROVE Keeps(m)
  <2>1. worker[w].m \in Msgs /\ Used(worker[w].m)
    BY <1>5, WorkerFacts DEF EInv, SettleMessage, Active
  <2>2. Ack(worker[w].m) \/ Nack(worker[w].m)
    BY <1>5 DEF SettleMessage
  <2> QED
    BY AnswerKeeps, <2>1, <2>2
<1>6. CASE BrokerStep
  <2>1. PICK n \in Msgs : Nack(n)
    BY <1>6 DEF BrokerStep, AckWaitExpires
  <2> QED
    BY <2>1, AnswerKeeps
<1>7. ASSUME NEW w \in Workers, WorkerStep(w), ~SettleMessage(w) PROVE UNCHANGED msg
  BY <1>7 DEF WorkerStep, Take, CancelCheck, PollCancel, RunTask, ClearStaleFlag, Pipeline,
         FinalWriteFails, HaltFails, ReleaseTask, Complete, Fail, HaltRequest, HaltStop
<1>8. ASSUME NEW t \in Tasks, RequestStop(t) \/ Remove(t) \/ SetCancelFlag(t) \/ CancelFlagExpires(t)
      PROVE UNCHANGED msg
  BY <1>8 DEF RequestStop, Remove, SetCancelFlag, CancelFlagExpires
<1>9. CASE ProcessStep \/ UNCHANGED vars
  BY <1>1, <1>9 DEF ProcessStep, Stop, Exit, Crash, Restart, vars
<1>10. CASE UserStep
  <2>1. UNCHANGED msg
    BY <1>8, <1>10 DEF UserStep
  <2> QED
    BY <1>1, <2>1
<1>11. CASE ConsumerStep
  BY <1>3, <1>4, <1>11 DEF ConsumerStep
<1> QED
  BY <1>1, <1>5, <1>6, <1>7, <1>9, <1>10, <1>11 DEF Next

\* A message in use stays in use, with its task.
LEMMA UsedKept ==
    ASSUME EInv, [Next]_vars, NEW m \in Msgs, Used(m)
    PROVE  /\ msg'[m].task = msg[m].task /\ msg'[m].st # "unused"
           /\ msg[m].st = "acked" => msg'[m].st = "acked"
<1>1. CASE \A t \in Tasks : ~CreateAndEnqueue(t)
  BY <1>1, MsgMoves DEF Keeps, Used
<1>2. ASSUME NEW t \in Tasks, CreateAndEnqueue(t) PROVE msg'[m] = msg[m]
  BY <1>2 DEF CreateAndEnqueue, EInv, MemInv, MemOK, Used
<1> QED
  BY <1>1, <1>2 DEF Used

\* Without retries a message is created for a task that has none.
LEMMA Creates ==
    ASSUME EInv, NoRetry, NEW t \in Tasks, CreateAndEnqueue(t)
    PROVE  /\ status[t] = "FRESH" /\ status' = [status EXCEPT ![t] = "CREATED"]
           /\ UNCHANGED <<redisVars, envVars, memVars>>
           /\ \E m \in Msgs :
                /\ msg[m].st = "unused" /\ msg'[m] = [task |-> t, st |-> "ready", dc |-> 0]
                /\ \A n \in Msgs : n # m => msg'[n] = msg[n]
BY DEF CreateAndEnqueue, NoRetry, SetStatus, EInv, MemInv, MemOK

\* A task has at most one message, and none before it is created.
OneMessage ==
    /\ \A m, n \in Msgs : Used(m) /\ Used(n) /\ TaskOf(m) = TaskOf(n) => m = n
    /\ \A m \in Msgs : Used(m) => status[TaskOf(m)] # "FRESH"

\* OneMessage is preserved: a creation is for a task without a message.
LEMMA OneMessageStep ==
    ASSUME EInv, NoRetry, OneMessage, [Next]_vars
    PROVE  OneMessage'
<1>1. \A m \in Msgs : Used(m) => TaskOf(m) \in Tasks
  BY DEF EInv, MemInv, HeldOK
<1>2. CASE \A t \in Tasks : ~CreateAndEnqueue(t)
  BY <1>1, <1>2, MsgMoves, StatusMoves DEF OneMessage, OnlyForward, TaskOf, Used, Keeps
<1>3. ASSUME NEW t \in Tasks, CreateAndEnqueue(t)
      PROVE  OneMessage'
  <2>0. status \in [Tasks -> Status]
    BY DEF EInv, EnvOK
  <2>1. PICK m \in Msgs :
          /\ msg[m].st = "unused" /\ msg'[m] = [task |-> t, st |-> "ready", dc |-> 0]
          /\ \A n \in Msgs : n # m => msg'[n] = msg[n]
    BY <1>3, Creates
  <2>2. status[t] = "FRESH" /\ status' = [status EXCEPT ![t] = "CREATED"]
    BY <1>3, Creates
  <2>3. /\ \A n \in Msgs : Used(n) => TaskOf(n) # t
        /\ \A n \in Msgs : Used(n)' => n = m \/ (Used(n) /\ TaskOf(n)' = TaskOf(n))
        /\ TaskOf(m)' = t
    BY <2>1, <2>2 DEF OneMessage, Used, TaskOf
  <2>5. \A n \in Msgs : Used(n)' => status'[TaskOf(n)'] # "FRESH"
    BY <1>1, <2>0, <2>2, <2>3 DEF OneMessage
  <2> QED
    BY <1>1, <2>3, <2>5 DEF OneMessage
<1> QED
  BY <1>2, <1>3

-----------------------------------------------------------------------------
(***************************************************************************)
(* A cancellation is only seen for a task that is being stopped.           *)
(***************************************************************************)

\* The cancel flag is set, or about to be, and a worker's own context is dead,
\* only for a task that has left CREATED and RUNNING.
StopFirst ==
    /\ \A t \in Tasks : flag[t] \/ t \in setting => status[t] \notin Ahead \cup {"FRESH"}
    /\ \A w \in Workers : Active(w) /\ worker[w].dead => status[Task(w)] \notin Ahead

\* A flag is only set for a task that is being stopped.
LEMMA FlagMoves ==
    ASSUME EInv, [Next]_vars, NEW t \in Tasks, flag'[t] \/ t \in setting'
    PROVE  flag[t] \/ t \in setting \/ status'[t] = "STOPPING"
<1>0. flag \in [Tasks -> BOOLEAN] /\ status \in [Tasks -> Status]
  BY DEF EInv, EnvOK
<1>1. CASE UNCHANGED <<flag, setting>>
  BY <1>1
<1>2. ASSUME NEW u \in Tasks,
             CreateAndEnqueue(u) \/ RequestStop(u) \/ Remove(u) \/ SetCancelFlag(u) \/ CancelFlagExpires(u)
      PROVE  flag[t] \/ t \in setting \/ status'[t] = "STOPPING"
  BY <1>0, <1>2 DEF CreateAndEnqueue, RequestStop, Remove, SetCancelFlag, CancelFlagExpires, SetFlag,
     SetStatus, redisVars
<1>3. ASSUME NEW w \in Workers, WorkerStep(w)
      PROVE  flag[t] \/ t \in setting \/ status'[t] = "STOPPING"
  <2>1. CASE ClearStaleFlag(w) \/ Complete(w) \/ HaltRequest(w) \/ HaltStop(w)
    BY <1>0, <2>1 DEF ClearStaleFlag, Complete, HaltRequest, HaltStop, SetFlag, SetStatus, Exists
  <2>2. CASE \/ Take(w) \/ CancelCheck(w) \/ PollCancel(w) \/ RunTask(w) \/ Fail(w)
             \/ Pipeline(w) \/ FinalWriteFails(w) \/ HaltFails(w) \/ SettleMessage(w) \/ ReleaseTask(w)
    BY <2>2, <1>1 DEF Take, CancelCheck, PollCancel, RunTask, Fail, Pipeline, FinalWriteFails, HaltFails,
       SettleMessage, ReleaseTask, redisVars
  <2> QED
    BY <1>3, <2>1, <2>2 DEF WorkerStep
<1>4. CASE UserStep
  BY <1>2, <1>4 DEF UserStep
<1>5. CASE ConsumerStep
  BY <1>1, <1>5 DEF ConsumerStep, Fetch, StartRunning, StartRunningFails, ClaimAndQueue, redisVars
<1>6. CASE BrokerStep \/ ProcessStep \/ UNCHANGED vars
  BY <1>1, <1>6 DEF BrokerStep, AckWaitExpires, ProcessStep, Stop, Exit, Crash, Restart, redisVars, vars
<1> QED
  BY <1>3, <1>4, <1>5, <1>6 DEF Next

\* A context dies for a task whose cancellation was seen.
LEMMA DeadComesFrom ==
    ASSUME EInv, [Next]_vars, NEW w \in Workers, worker'[w].pc # "idle", worker'[w].dead
    PROVE  /\ Active(w) /\ worker'[w].m = worker[w].m
           /\ worker[w].dead \/ CancelSeen(Task(w))
<1> DEFINE G == /\ Active(w) /\ worker'[w].m = worker[w].m
                /\ worker[w].dead \/ CancelSeen(Task(w))
<1>0. worker \in [Workers -> WorkerRec]
  BY DEF EInv, MemInv, MemOK
<1>1. CASE UNCHANGED worker
  BY <1>1 DEF Active
<1>2. ASSUME NEW v \in Workers, WorkerStep(v) PROVE G
  <2>1. CASE Take(v) \/ ReleaseTask(v)
    <3>1. \E r : worker' = [worker EXCEPT ![v] = r] /\ (r.pc = "idle" \/ r.dead = FALSE)
      BY <2>1 DEF Take, ReleaseTask, IdleWorker
    <3> QED
      BY <1>0, <3>1 DEF Active
  <2>2. CASE CancelCheck(v) \/ PollCancel(v)
    BY <1>0, <2>2 DEF CancelCheck, PollCancel, Active, WorkerRec
  <2>3. CASE \/ RunTask(v) \/ ClearStaleFlag(v) \/ Pipeline(v) \/ Complete(v) \/ Fail(v)
             \/ FinalWriteFails(v) \/ HaltFails(v) \/ HaltRequest(v) \/ HaltStop(v) \/ SettleMessage(v)
    <3>1. Active(v)
      BY <2>3 DEF Active, RunTask, ClearStaleFlag, Pipeline, Complete, Fail, FinalWriteFails, HaltFails,
         HaltRequest, HaltStop, SettleMessage
    <3>2. \E pc, ok : worker' = [worker EXCEPT ![v].pc = pc, ![v].ok = ok] \/ WorkerTo(v, pc)
      BY <2>3, Zenon DEF RunTask, ClearStaleFlag, Pipeline, Complete, Fail, FinalWriteFails, HaltFails,
         HaltRequest, HaltStop, SettleMessage, Verdict
    <3> QED
      BY <1>0, <3>1, <3>2 DEF Active, WorkerTo, WorkerRec
  <2> QED
    BY <1>2, <2>1, <2>2, <2>3 DEF WorkerStep
<1>3. CASE UserStep
  BY <1>1, <1>3 DEF UserStep, CreateAndEnqueue, RequestStop, Remove, SetCancelFlag, CancelFlagExpires, memVars
<1>4. CASE ConsumerStep
  BY <1>1, <1>4 DEF ConsumerStep, Fetch, StartRunning, StartRunningFails, ClaimAndQueue
<1>5. CASE Exit \/ Crash
  BY <1>5 DEF Exit, Crash, LoseMemory, IdleWorker
<1>6. CASE BrokerStep \/ Stop \/ Restart \/ UNCHANGED vars
  BY <1>1, <1>6 DEF BrokerStep, AckWaitExpires, Stop, Restart, memVars, vars
<1> QED
  BY <1>2, <1>3, <1>4, <1>5, <1>6 DEF Next, ProcessStep

\* StopFirst is preserved.
LEMMA StopFirstStep ==
    ASSUME EInv, NoRetry, OneMessage, StopFirst, [Next]_vars
    PROVE  StopFirst'
<1>1. \A t \in Tasks : flag'[t] \/ t \in setting' => status'[t] \notin Ahead \cup {"FRESH"}
  BY FlagMoves, StatusMoves DEF StopFirst, OnlyForward, Ahead
<1>2. ASSUME NEW w \in Workers, Active(w)', worker'[w].dead PROVE status'[Task(w)'] \notin Ahead
  <2>1. /\ Active(w) /\ worker'[w].m = worker[w].m
        /\ worker[w].dead \/ CancelSeen(Task(w))
    BY <1>2, DeadComesFrom DEF Active
  <2>2. worker[w].m \in Msgs /\ Used(worker[w].m) /\ Task(w) \in Tasks
    BY <2>1, WorkerFacts DEF EInv
  <2>3. status[Task(w)] \notin Ahead \cup {"FRESH"}
    BY <2>1, <2>2 DEF StopFirst, CancelSeen, Ahead, OneMessage, Task
  <2>4. Task(w)' = Task(w)
    BY <2>1, <2>2, UsedKept DEF Task, TaskOf
  <2> QED
    BY <2>2, <2>3, <2>4, StatusMoves DEF OnlyForward, Ahead
<1> QED
  BY <1>1, <1>2 DEF StopFirst

-----------------------------------------------------------------------------
(***************************************************************************)
(* Where the worker, the consumer and the channel of the next state come from.*)
(***************************************************************************)

\* The consumer works on m.
Has(m) == consumer.pc # "idle" /\ consumer.m = m

\* A worker before its pipeline.
Early  == {"check", "entry", "clear"}

\* A worker whose context died in the run: AckWait may expire under it.
Shadowed(w) ==
    worker[w].dead /\ worker[w].pc \in {"pipe", "complete", "fail", "panic", "settle"}

\* A worker that is the only holder of its message.
Sole(w) == Active(w) /\ worker[w].pc # "release" /\ ~Shadowed(w)

\* A worker that is busy after a step has taken a task or goes on with its own.
GoesOn(w) ==
    /\ Active(w)
    /\ worker'[w].m = worker[w].m
    /\ worker'[w].pc \in Early => worker[w].pc \in Early
    /\ worker[w].pc = "release" => worker'[w].pc = "release"
    /\ Shadowed(w) => worker'[w].pc = "release" \/ Shadowed(w)'

\* A worker's step leaves the other workers alone.
LEMMA OthersKept ==
    ASSUME EInv, NEW v \in Workers, WorkerStep(v), NEW w \in Workers, v # w
    PROVE  worker'[w] = worker[w]
<1> USE DEF EInv, MemInv, MemOK
<1>1. CASE Take(v) \/ ReleaseTask(v)
  <2>1. \E r : worker' = [worker EXCEPT ![v] = r]
    BY <1>1 DEF Take, ReleaseTask
  <2> QED
    BY <2>1
<1>2. CASE CancelCheck(v)
  BY <1>2 DEF CancelCheck
<1>3. CASE PollCancel(v)
  BY <1>3 DEF PollCancel
<1>4. CASE \/ RunTask(v) \/ ClearStaleFlag(v) \/ Pipeline(v) \/ Complete(v) \/ Fail(v)
           \/ FinalWriteFails(v) \/ HaltFails(v) \/ HaltRequest(v) \/ HaltStop(v) \/ SettleMessage(v)
  <2>1. \E pc, ok : worker' = [worker EXCEPT ![v].pc = pc, ![v].ok = ok] \/ WorkerTo(v, pc)
    BY <1>4, Zenon DEF RunTask, ClearStaleFlag, Pipeline, Complete, Fail, FinalWriteFails, HaltFails,
       HaltRequest, HaltStop, SettleMessage, Verdict
  <2> QED
    BY <2>1 DEF WorkerTo
<1> QED
  BY <1>1, <1>2, <1>3, <1>4 DEF WorkerStep

\* A worker that is busy after a step has just taken a task or goes on with one.
LEMMA WorkerFrom ==
    ASSUME EInv, [Next]_vars, NEW w \in Workers, worker'[w].pc # "idle"
    PROVE  Take(w) \/ GoesOn(w)
<1>0. worker \in [Workers -> WorkerRec]
  BY DEF EInv, MemInv, MemOK
<1>1. CASE worker'[w] = worker[w]
  BY <1>1 DEF GoesOn, Active, Shadowed
<1>2. ASSUME NEW v \in Workers, WorkerStep(v) PROVE Take(w) \/ GoesOn(w)
  <2>1. CASE v # w
    <3>1. worker'[w] = worker[w]
      BY <1>2, <2>1, OthersKept
    <3> QED
      BY <1>1, <3>1
  <2>2. CASE v = w
    <3> USE <1>0, <2>2 DEF GoesOn, Active, Shadowed, Early, WorkerRec
    <3>1. CASE ReleaseTask(v)
      BY <3>1 DEF ReleaseTask, IdleWorker
    <3>2. CASE CancelCheck(v)
      <4>1. worker'[w].pc = "entry" /\ worker'[w].m = worker[w].m /\ worker[w].pc = "check"
        BY <3>2 DEF CancelCheck
      <4> QED
        BY <4>1
    <3>7. CASE PollCancel(v)
      <4>1. worker' = [worker EXCEPT ![v].dead = TRUE] /\ ~worker[v].dead /\ worker[v].pc \in {"entry", "clear", "pipe", "complete", "fail"}
        BY <3>7, Zenon DEF PollCancel
      <4>2. worker'[w].pc = worker[w].pc /\ worker'[w].m = worker[w].m
        BY <4>1
      <4>3. ~Shadowed(w) /\ worker[w].pc # "idle"
        BY <4>1
      <4>4. worker[w].pc # "release"
        BY <4>1
      <4> QED
        BY <4>2, <4>3, <4>4, Zenon
    <3>3. CASE RunTask(v) \/ ClearStaleFlag(v) \/ Pipeline(v)
      <4>1. \E pc : /\ worker' = [worker EXCEPT ![v].pc = pc]
                    /\ \/ worker[v].pc = "entry" /\ pc \in {"halt", "clear"}
                       \/ worker[v].pc = "clear" /\ pc = "pipe"
                       \/ worker[v].pc = "pipe" /\ pc \in {"complete", "fail", "panic", "settle"}
        BY <3>3 DEF RunTask, ClearStaleFlag, Pipeline, WorkerTo
      <4> QED
        BY <4>1
    <3>4. CASE Complete(v) \/ Fail(v) \/ FinalWriteFails(v) \/ HaltFails(v) \/ HaltStop(v)
      <4>1. /\ worker[v].pc \in {"complete", "fail", "panic", "halt", "haltstop"}
            /\ \E ok : worker' = [worker EXCEPT ![v].pc = "settle", ![v].ok = ok]
        BY <3>4, Zenon DEF Complete, Fail, FinalWriteFails, HaltFails, HaltStop, Verdict
      <4> QED
        BY <4>1
    <3>5. CASE HaltRequest(v)
      BY <3>5 DEF HaltRequest, WorkerTo, Verdict
    <3>6. CASE SettleMessage(v)
      BY <3>6 DEF SettleMessage, WorkerTo
    <3> QED
      BY <1>2, <3>1, <3>2, <3>3, <3>4, <3>5, <3>6, <3>7 DEF WorkerStep
  <2> QED
    BY <2>1, <2>2
<1>3. CASE UserStep
  BY <1>1, <1>3 DEF UserStep, CreateAndEnqueue, RequestStop, Remove, SetCancelFlag, CancelFlagExpires, memVars
<1>4. CASE ConsumerStep
  BY <1>1, <1>4 DEF ConsumerStep, Fetch, StartRunning, StartRunningFails, ClaimAndQueue
<1>5. CASE Exit \/ Crash
  BY <1>5 DEF Exit, Crash, LoseMemory, IdleWorker
<1>6. CASE BrokerStep \/ Stop \/ Restart \/ UNCHANGED vars
  BY <1>1, <1>6 DEF BrokerStep, AckWaitExpires, Stop, Restart, memVars, vars
<1> QED
  BY <1>2, <1>3, <1>4, <1>5, <1>6 DEF Next, ProcessStep

\* What may happen to the consumer.
Starts ==
    /\ mode = "up"
    /\ consumer.pc = "start" /\ consumer'.pc = "claim" /\ consumer'.m = consumer.m
    /\ status[TaskOf(consumer.m)] \in Ahead
    /\ status' = [status EXCEPT ![TaskOf(consumer.m)] = "RUNNING"]
    /\ UNCHANGED <<msg, worker>>

\* The consumer stays, becomes idle, goes on to the claim or fetches.
LEMMA ConsumerFrom ==
    ASSUME EInv, [Next]_vars
    PROVE  consumer' = consumer \/ consumer' = IdleConsumer \/ Starts \/ \E m \in Msgs : Fetch(m)
<1>0. /\ consumer \in [pc : {"idle", "start", "claim"}, m : Msgs \cup {NoMsg}]
      /\ status \in [Tasks -> Status]
  BY DEF EInv, EnvOK, MemInv, MemOK
<1>1. CASE StartRunning
  <2>1. consumer.m \in Msgs /\ TaskOf(consumer.m) \in Tasks
    BY <1>1 DEF EInv, MemInv, HeldOK, StartRunning
  <2> QED
    BY <1>0, <1>1, <2>1 DEF StartRunning, Starts, NothingToRun, Exists, Ahead, Status, RowStatus, Executing,
       SetStatus
<1>2. CASE StartRunningFails \/ ClaimAndQueue
  BY <1>2 DEF StartRunningFails, ClaimAndQueue
<1>3. CASE UserStep \/ BrokerStep
  BY <1>3 DEF UserStep, CreateAndEnqueue, RequestStop, Remove, SetCancelFlag, CancelFlagExpires, memVars,
     BrokerStep, AckWaitExpires
<1>4. ASSUME NEW w \in Workers, WorkerStep(w) PROVE consumer' = consumer
  BY <1>4 DEF WorkerStep, Take, CancelCheck, PollCancel, RunTask, ClearStaleFlag, Pipeline, Complete, Fail,
     FinalWriteFails, HaltFails, HaltRequest, HaltStop, SettleMessage, ReleaseTask
<1>5. CASE ProcessStep \/ UNCHANGED vars
  BY <1>5 DEF ProcessStep, Stop, Exit, Crash, Restart, LoseMemory, memVars, vars
<1> QED
  BY <1>1, <1>2, <1>3, <1>4, <1>5 DEF Next, ConsumerStep

\* What is in the channel was there or has just been claimed.
Queues ==
    /\ consumer.pc = "claim" /\ TaskOf(consumer.m) \notin claimed /\ consumer' = IdleConsumer
    /\ chan' = Append(chan, consumer.m)
    /\ UNCHANGED <<status, msg>>

\* Whatever the channel holds was there or has just been claimed.
LEMMA ChanFrom ==
    ASSUME EInv, [Next]_vars, NEW i \in DOMAIN chan'
    PROVE  \/ \E j \in DOMAIN chan : chan'[i] = chan[j]
           \/ Queues /\ chan'[i] = consumer.m
<1>0. chan \in Seq(Msgs)
  BY DEF EInv, MemInv, MemOK
<1>1. CASE UNCHANGED chan
  BY <1>1
<1>2. CASE ClaimAndQueue
  <2>1. CASE Queues
    BY <1>0, <2>1 DEF Queues
  <2> QED
    BY <1>1, <1>2, <2>1 DEF ClaimAndQueue, Claimable, Queues, dbVars
<1>3. ASSUME NEW w \in Workers, WorkerStep(w)
      PROVE  \E j \in DOMAIN chan : chan'[i] = chan[j]
  <2>1. CASE Take(w)
    <3>1. chan # <<>> /\ chan' = Tail(chan)
      BY <2>1 DEF Take
    <3>2. i + 1 \in DOMAIN chan /\ chan'[i] = chan[i + 1]
      BY <1>0, <3>1
    <3> QED
      BY <3>2
  <2> QED
    BY <1>1, <1>3, <2>1 DEF WorkerStep, CancelCheck, PollCancel, RunTask, ClearStaleFlag, Pipeline, Complete, Fail,
     FinalWriteFails, HaltFails, HaltRequest, HaltStop, SettleMessage, ReleaseTask
<1>4. CASE UserStep \/ BrokerStep
  BY <1>1, <1>4 DEF UserStep, CreateAndEnqueue, RequestStop, Remove, SetCancelFlag, CancelFlagExpires, memVars,
     BrokerStep, AckWaitExpires
<1>5. CASE (\E m \in Msgs : Fetch(m)) \/ StartRunning \/ StartRunningFails
  BY <1>1, <1>5 DEF Fetch, StartRunning, StartRunningFails
<1>6. CASE Exit \/ Crash
  BY <1>6 DEF Exit, Crash, LoseMemory
<1>7. CASE Stop \/ Restart \/ UNCHANGED vars
  BY <1>1, <1>7 DEF Stop, Restart, memVars, vars
<1> QED
  BY <1>2, <1>3, <1>4, <1>5, <1>6, <1>7 DEF Next, ConsumerStep, ProcessStep

\* A delivery ends when AckWait expires or whoever holds the message answers.
LEMMA PendingKept ==
    ASSUME EInv, [Next]_vars, NEW m \in Msgs, msg[m].st = "pending", msg'[m].st # "pending"
    PROVE  \/ ~Protected(m)
           \/ Has(m) /\ consumer' = IdleConsumer
           \/ \E w \in Workers : worker[w].pc = "settle" /\ worker[w].m = m /\ worker'[w].pc = "release"
<1>0. msg \in [Msgs -> MsgRec] /\ worker \in [Workers -> WorkerRec]
  BY DEF EInv, MemInv, MemOK
<1>1. msg' # msg
  OBVIOUS
<1>2. CASE UserStep
  BY <1>0, <1>1, <1>2 DEF UserStep, CreateAndEnqueue, RequestStop, Remove, SetCancelFlag, CancelFlagExpires
<1>3. CASE BrokerStep
  BY <1>0, <1>3 DEF BrokerStep, AckWaitExpires, Nack
<1>4. ASSUME NEW n \in Msgs, Fetch(n) PROVE FALSE
  BY <1>0, <1>4 DEF Fetch, MsgRec
<1>5. CASE StartRunning \/ StartRunningFails \/ ClaimAndQueue
  <2>1. Ack(consumer.m) \/ Nack(consumer.m)
    BY <1>1, <1>5 DEF StartRunning, StartRunningFails, ClaimAndQueue
  <2>2. consumer.m = m
    BY <1>0, <2>1 DEF Ack, Nack
  <2> QED
    BY <1>1, <1>5, <2>2 DEF StartRunning, StartRunningFails, ClaimAndQueue, Has
<1>6. ASSUME NEW w \in Workers, WorkerStep(w)
      PROVE  worker[w].pc = "settle" /\ worker[w].m = m /\ worker'[w].pc = "release"
  <2>1. SettleMessage(w)
    BY <1>1, <1>6 DEF WorkerStep, Take, CancelCheck, PollCancel, RunTask, ClearStaleFlag, Pipeline, Complete, Fail,
     FinalWriteFails, HaltFails, HaltRequest, HaltStop, ReleaseTask
  <2>2. Ack(worker[w].m) \/ Nack(worker[w].m)
    BY <2>1 DEF SettleMessage
  <2> QED
    BY <1>0, <2>1, <2>2 DEF SettleMessage, Ack, Nack, WorkerTo, WorkerRec
<1>7. CASE ProcessStep \/ UNCHANGED vars
  BY <1>1, <1>7 DEF ProcessStep, Stop, Exit, Crash, Restart, vars
<1> QED
  BY <1>2, <1>3, <1>4, <1>5, <1>6, <1>7 DEF Next, ConsumerStep

\* Who ends a task.
LEMMA ExecutingKept ==
    ASSUME EInv, StopFirst, [Next]_vars, NEW t \in Tasks, status[t] \in Executing, status'[t] \notin Executing
    PROVE  \/ consumer.pc = "start" /\ TaskOf(consumer.m) = t /\ consumer' = IdleConsumer
           \/ \E w \in Workers : Sole(w) /\ Task(w) = t /\ worker[w].pc \in {"complete", "fail", "panic", "haltstop"}
<1>0. status \in [Tasks -> Status] /\ worker \in [Workers -> WorkerRec]
  BY DEF EInv, EnvOK, MemInv, MemOK
<1>1. CASE UserStep
  BY <1>0, <1>1 DEF UserStep, CreateAndEnqueue, RequestStop, Remove, SetCancelFlag, CancelFlagExpires, dbVars, SetStatus,
     Executing, Retryable
<1>2. CASE ConsumerStep
  BY <1>0, <1>2 DEF ConsumerStep, Fetch, StartRunning, StartRunningFails, ClaimAndQueue, dbVars, SetStatus, Executing
<1>3. ASSUME NEW w \in Workers, WorkerStep(w)
      PROVE  Sole(w) /\ Task(w) = t /\ worker[w].pc \in {"complete", "fail", "panic", "haltstop"}
  <2>1. Complete(w) \/ Fail(w) \/ HaltRequest(w) \/ HaltStop(w)
    BY <1>3 DEF WorkerStep, Take, CancelCheck, PollCancel, RunTask, ClearStaleFlag, Pipeline,
     FinalWriteFails, HaltFails, SettleMessage, ReleaseTask, dbVars
  <2>2. CASE Complete(w)
    BY <1>0, <2>2 DEF Complete, SetStatus, Sole, Shadowed, Active
  <2>3. CASE Fail(w)
    <3>1. status[Task(w)] = "RUNNING" /\ Task(w) = t /\ worker[w].pc \in {"fail", "panic"}
      BY <1>0, <2>3 DEF Fail, SetStatus
    <3>2. Active(w) /\ ~worker[w].dead
      BY <3>1 DEF StopFirst, Ahead, Active
    <3> QED
      BY <3>1, <3>2 DEF Sole, Shadowed
  <2>4. CASE HaltRequest(w)
    BY <1>0, <2>4 DEF HaltRequest, SetStatus, Executing
  <2>5. CASE HaltStop(w)
    BY <1>0, <2>5 DEF HaltStop, SetStatus, Executing, Terminal, Sole, Shadowed, Active
  <2> QED
    BY <2>1, <2>2, <2>3, <2>4, <2>5
<1>4. CASE BrokerStep \/ ProcessStep \/ UNCHANGED vars
  BY <1>4 DEF BrokerStep, AckWaitExpires, ProcessStep, Stop, Exit, Crash, Restart, dbVars, vars
<1> QED
  BY <1>1, <1>2, <1>3, <1>4 DEF Next

-----------------------------------------------------------------------------
(***************************************************************************)
(* No task that is over is run again.                                      *)
(***************************************************************************)

\* Assumption: no message waits in the channel for longer than AckWait.
QuickQueue == "queued" \notin SlowHolders

\* A process that is down holds nothing.
DownEmpty ==
    mode = "down" => consumer = IdleConsumer /\ chan = <<>> /\ \A w \in Workers : ~Active(w)

\* Whoever holds a message alone has it in flight.
SoleHolder ==
    \A w \in Workers : Sole(w) =>
        /\ ~Has(worker[w].m)
        /\ mode = "up" => msg[worker[w].m].st = "pending"

\* What the consumer is about to start or to claim is in flight and, at the claim,
\* executing and held by no worker that has still to answer for it.
ConsumerOK ==
    /\ consumer.pc = "claim" =>
          /\ status[TaskOf(consumer.m)] \in Executing
          /\ msg[consumer.m].st = "pending"
          /\ \A w \in Workers : Active(w) /\ worker[w].m = consumer.m => worker[w].pc = "release"
    /\ consumer.pc = "start" /\ status[TaskOf(consumer.m)] \in Ahead
          => msg[consumer.m].st = "pending"

\* What waits in the channel is executing and in flight.
QueuedOK ==
    \A i \in DOMAIN chan :
        /\ status[TaskOf(chan[i])] \in Executing
        /\ msg[chan[i]].st = "pending"
        /\ ~Has(chan[i])

\* Who has not started its pipeline works on an executing task.
RunOK == \A w \in Workers : worker[w].pc \in Early => status[Task(w)] \in Executing

\* The inductive invariant behind FinishedNeverRerun.
FInv == OneMessage /\ StopFirst /\ DownEmpty /\ SoleHolder /\ ConsumerOK /\ QueuedOK /\ RunOK

\* DownEmpty is preserved.
LEMMA DownEmptyStep ==
    ASSUME EInv, DownEmpty, [Next]_vars
    PROVE  DownEmpty'
<1>0. mode \in {"up", "draining", "down"} /\ worker \in [Workers -> WorkerRec]
  BY DEF EInv, EnvOK, MemInv, MemOK
<1>1. CASE UNCHANGED <<mode, memVars>>
  BY <1>1 DEF DownEmpty, memVars, Active
<1>2. CASE mode \in {"up", "draining"} /\ mode' = mode
  BY <1>2 DEF DownEmpty
<1>3. CASE UserStep \/ BrokerStep
  BY <1>1, <1>3 DEF UserStep, CreateAndEnqueue, RequestStop, Remove, SetCancelFlag, CancelFlagExpires, envVars,
     BrokerStep, AckWaitExpires
<1>4. CASE ConsumerStep
  BY <1>2, <1>4 DEF ConsumerStep, Fetch, StartRunning, StartRunningFails, ClaimAndQueue, envVars, Running
<1>5. ASSUME NEW w \in Workers, WorkerStep(w) PROVE mode \in {"up", "draining"} /\ mode' = mode
  BY <1>5 DEF WorkerStep, Take, CancelCheck, PollCancel, RunTask, ClearStaleFlag, Pipeline, Complete, Fail,
     FinalWriteFails, HaltFails, HaltRequest, HaltStop, SettleMessage, ReleaseTask, envVars, Running
<1>6. CASE Exit \/ Crash
  BY <1>6 DEF Exit, Crash, LoseMemory, DownEmpty, Active, IdleWorker
<1>7. CASE Stop \/ Restart \/ UNCHANGED vars
  BY <1>1, <1>7 DEF Stop, Restart, vars, memVars, DownEmpty
<1> QED
  BY <1>2, <1>3, <1>4, <1>5, <1>6, <1>7 DEF Next, ProcessStep

\* The same task means the same message.
LEMMA SameMessage ==
    ASSUME EInv, OneMessage
    PROVE  /\ \A v, w \in Workers : Active(v) /\ Active(w) /\ worker[v].m = worker[w].m => v = w
           /\ \A w \in Workers : Active(w) => worker[w].m \in Msgs /\ Used(worker[w].m) /\ Task(w) \in Tasks
           /\ \A i \in DOMAIN chan : chan[i] \in Msgs /\ Used(chan[i]) /\ TaskOf(chan[i]) \in Tasks
           /\ consumer.pc # "idle" =>
                consumer.m \in Msgs /\ Used(consumer.m) /\ TaskOf(consumer.m) \in Tasks
           /\ \A w \in Workers : Active(w) /\ consumer.pc # "idle" /\ TaskOf(consumer.m) = Task(w)
                => Has(worker[w].m)
           /\ \A i \in DOMAIN chan : consumer.pc # "idle" /\ TaskOf(consumer.m) = TaskOf(chan[i])
                => Has(chan[i])
<1>1. \A i \in DOMAIN chan : chan[i] \in Msgs
  BY DEF EInv, MemInv, MemOK
<1> QED
  BY <1>1 DEF EInv, MemInv, HeldOK, ExclusiveExecution, OneMessage, Has, Task

\* The consumer takes a message only from the broker.
LEMMA NotTaken ==
    ASSUME EInv, [Next]_vars, NEW m \in Msgs, ~Has(m), msg[m].st # "ready"
    PROVE  ~Has(m)'
<1>1. CASE consumer' = consumer \/ consumer' = IdleConsumer
  BY <1>1 DEF Has, IdleConsumer
<1>2. CASE Starts
  BY <1>2 DEF Has, Starts
<1>3. ASSUME NEW n \in Msgs, Fetch(n) PROVE ~Has(m)'
  BY <1>3 DEF Has, Fetch
<1> QED
  BY <1>1, <1>2, <1>3, ConsumerFrom

\* RunOK is preserved: only its own worker ends a task.
LEMMA RunOKStep ==
    ASSUME EInv, NoRetry, FInv, [Next]_vars
    PROVE  RunOK'
<1> SUFFICES ASSUME NEW w \in Workers, worker'[w].pc \in Early
             PROVE  status'[Task(w)'] \in Executing
  BY DEF RunOK
<1>1. CASE Take(w)
  <2>1. chan # <<>> /\ worker'[w].m = Head(chan) /\ status' = status /\ msg' = msg
    BY <1>1 DEF Take, dbVars, EInv, MemInv, MemOK
  <2>2. Head(chan) = chan[1] /\ 1 \in DOMAIN chan
    BY <2>1 DEF EInv, MemInv, MemOK
  <2> QED
    BY <2>1, <2>2 DEF FInv, QueuedOK, Task, TaskOf
<1>2. CASE GoesOn(w)
  <2>1. Active(w) /\ worker[w].pc \in Early /\ worker'[w].m = worker[w].m /\ Sole(w)
    BY <1>2 DEF GoesOn, Early, Sole, Shadowed
  <2>2. status[Task(w)] \in Executing /\ Task(w) \in Tasks /\ Task(w)' = Task(w)
    BY <2>1, SameMessage, UsedKept DEF FInv, RunOK, Task, TaskOf
  <2>3. ~(consumer.pc = "start" /\ TaskOf(consumer.m) = Task(w))
    BY <2>1, SameMessage DEF FInv, SoleHolder
  <2>4. ASSUME NEW v \in Workers, Sole(v), Task(v) = Task(w), worker[v].pc \in {"complete", "fail", "panic", "haltstop"}
        PROVE  FALSE
    BY <2>1, <2>4 DEF EInv, MemInv, ExclusiveExecution, Sole, Early
  <2> QED
    BY <2>2, <2>3, <2>4, ExecutingKept DEF FInv
<1> QED
  BY <1>1, <1>2, WorkerFrom DEF Early

\* QueuedOK is preserved: nobody else ends a queued task, and AckWait does not expire.
LEMMA QueuedOKStep ==
    ASSUME EInv, NoRetry, QuickQueue, FInv, [Next]_vars
    PROVE  QueuedOK'
<1> SUFFICES ASSUME NEW i \in DOMAIN chan'
             PROVE  /\ status'[msg'[chan'[i]].task] \in Executing
                    /\ msg'[chan'[i]].st = "pending"
                    /\ ~(consumer'.pc # "idle" /\ consumer'.m = chan'[i])
  BY DEF QueuedOK, Has, TaskOf
<1>1. CASE Queues /\ chan'[i] = consumer.m
  BY <1>1 DEF Queues, FInv, ConsumerOK, TaskOf, IdleConsumer
<1>2. ASSUME NEW j \in DOMAIN chan, chan'[i] = chan[j]
      PROVE  /\ status'[msg'[chan'[i]].task] \in Executing
             /\ msg'[chan'[i]].st = "pending"
             /\ ~(consumer'.pc # "idle" /\ consumer'.m = chan'[i])
  <2>0. PICK m \in Msgs : m = chan[j] /\ m = chan'[i]
    BY <1>2 DEF EInv, MemInv, MemOK
  <2>1. /\ status[TaskOf(m)] \in Executing /\ msg[m].st = "pending" /\ ~Has(m)
        /\ Used(m) /\ TaskOf(m) \in Tasks
    BY <2>0, SameMessage DEF FInv, QueuedOK
  <2>2. msg'[m].task = msg[m].task
    BY <2>1, UsedKept
  <2>3. \A w \in Workers : Active(w) => Task(w) # TaskOf(m)
    BY <2>0 DEF EInv, MemInv, ExclusiveExecution
  <2>4. status'[TaskOf(m)] \in Executing
    <3>1. ~(consumer.pc = "start" /\ TaskOf(consumer.m) = TaskOf(m))
      BY <2>0, <2>1, SameMessage DEF FInv
    <3> QED
      BY <2>1, <2>3, <3>1, ExecutingKept DEF FInv, Sole
  <2>5. msg'[m].st = "pending"
    <3>0. chan # <<>>
      BY <2>0
    <3>1. Protected(m)
      <4>1. Running
        BY <3>0 DEF FInv, DownEmpty, Running, EInv, EnvOK
      <4> QED
        BY <2>0, <4>1 DEF Protected, QuickQueue
    <3>2. ~\E w \in Workers : worker[w].pc = "settle" /\ worker[w].m = m
      BY <2>3 DEF Active, Task
    <3> QED
      BY <2>1, <3>1, <3>2, PendingKept
  <2>6. ~Has(m)'
    BY <2>1, NotTaken
  <2> QED
    BY <2>0, <2>2, <2>4, <2>5, <2>6 DEF TaskOf, Has
<1> QED
  BY <1>1, <1>2, ChanFrom

\* ConsumerOK is preserved.
LEMMA ConsumerOKStep ==
    ASSUME EInv, NoRetry, FInv, [Next]_vars
    PROVE  ConsumerOK'
<1>0. /\ consumer \in [pc : {"idle", "start", "claim"}, m : Msgs \cup {NoMsg}]
      /\ status \in [Tasks -> Status] /\ worker \in [Workers -> WorkerRec]
  BY DEF EInv, EnvOK, MemInv, MemOK
<1> DEFINE m == consumer.m
           t == TaskOf(m)
<1>1. CASE consumer' = IdleConsumer
  BY <1>1 DEF ConsumerOK, IdleConsumer
<1>2. ASSUME NEW n \in Msgs, Fetch(n) PROVE ConsumerOK'
  BY <1>2 DEF Fetch, ConsumerOK, EInv, MemInv, MemOK, MsgRec
<1>4. CASE Starts
  <2>1. /\ consumer'.pc = "claim" /\ consumer'.m = m /\ status[t] \in Ahead /\ consumer.pc = "start"
        /\ status' = [status EXCEPT ![t] = "RUNNING"] /\ msg' = msg /\ worker' = worker
    BY <1>4 DEF Starts
  <2>2. m \in Msgs /\ Used(m) /\ t \in Tasks
    BY <2>1, SameMessage DEF FInv
  <2>3. msg[m].st = "pending"
    BY <2>1 DEF FInv, ConsumerOK
  <2>4. ASSUME NEW w \in Workers, Active(w), worker[w].m = m PROVE worker[w].pc = "release"
    <3>1. ~Sole(w)
      BY <2>1, <2>4 DEF FInv, SoleHolder, Has
    <3>2. ~Shadowed(w)
      BY <2>1, <2>4 DEF FInv, StopFirst, Shadowed, Task
    <3> QED
      BY <2>4, <3>1, <3>2 DEF Sole
  <2> QED
    BY <1>0, <2>1, <2>2, <2>3, <2>4 DEF ConsumerOK, TaskOf, Executing, Active
<1>5. CASE consumer' = consumer /\ consumer.pc = "claim"
  <2>1. /\ m \in Msgs /\ Used(m) /\ t \in Tasks
        /\ status[t] \in Executing /\ msg[m].st = "pending"
        /\ \A w \in Workers : Active(w) /\ worker[w].m = m => worker[w].pc = "release"
    BY <1>5, SameMessage DEF FInv, ConsumerOK
  <2>2. TaskOf(m)' = t
    BY <1>5, <2>1, UsedKept DEF TaskOf
  <2>3. status'[t] \in Executing
    <3>1. ASSUME NEW v \in Workers, Sole(v), Task(v) = t PROVE FALSE
      BY <1>5, <2>1, <3>1, SameMessage DEF FInv, Sole, SoleHolder, Has
    <3> QED
      BY <1>5, <2>1, <3>1, ExecutingKept DEF FInv
  <2>4. msg'[m].st = "pending"
    <3>1. Protected(m)
      BY <1>5 DEF Protected, FInv, DownEmpty, Running, EInv, EnvOK, IdleConsumer
    <3>2. ~\E w \in Workers : worker[w].pc = "settle" /\ worker[w].m = m
      BY <2>1 DEF Active
    <3> QED
      BY <1>5, <2>1, <3>1, <3>2, PendingKept DEF IdleConsumer
  <2>5. ASSUME NEW w \in Workers, worker'[w].pc # "idle", worker'[w].m = m PROVE worker'[w].pc = "release"
    <3>1. CASE Take(w)
      <4>1. chan # <<>> /\ worker'[w].m = Head(chan)
        BY <3>1 DEF Take, EInv, MemInv, MemOK
      <4>2. Head(chan) = chan[1] /\ 1 \in DOMAIN chan
        BY <4>1 DEF EInv, MemInv, MemOK
      <4> QED
        BY <1>5, <2>5, <4>1, <4>2 DEF FInv, QueuedOK, Has
    <3>2. CASE GoesOn(w)
      BY <2>1, <2>5, <3>2 DEF GoesOn
    <3> QED
      BY <2>5, <3>1, <3>2, WorkerFrom
  <2> QED
    BY <1>5, <2>2, <2>3, <2>4, <2>5 DEF ConsumerOK, Active
<1>6. CASE consumer' = consumer /\ consumer.pc = "start"
  <2> SUFFICES ASSUME status'[t'] \in Ahead PROVE msg'[m].st = "pending"
    BY <1>6 DEF ConsumerOK
  <2>1. m \in Msgs /\ Used(m) /\ t \in Tasks
    BY <1>6, SameMessage DEF FInv
  <2>2. t' = t
    BY <1>6, <2>1, UsedKept DEF TaskOf
  <2>3. status[t] \in Ahead
    BY <2>1, <2>2, StatusMoves DEF OnlyForward, Ahead, FInv, OneMessage
  <2>4. msg[m].st = "pending"
    BY <1>6, <2>3 DEF FInv, ConsumerOK
  <2>5. Protected(m)
    BY <1>6 DEF Protected, FInv, DownEmpty, Running, EInv, EnvOK, IdleConsumer
  <2>6. ASSUME NEW w \in Workers, worker[w].pc = "settle", worker[w].m = m PROVE FALSE
    <3>1. ~Sole(w)
      BY <1>6, <2>6 DEF FInv, SoleHolder, Has
    <3>2. ~Shadowed(w)
      BY <2>3, <2>6 DEF FInv, StopFirst, Shadowed, Task, Active
    <3> QED
      BY <2>6, <3>1, <3>2 DEF Sole, Active
  <2> QED
    BY <1>6, <2>1, <2>4, <2>5, <2>6, PendingKept DEF IdleConsumer
<1>7. CASE consumer' = consumer /\ consumer.pc = "idle"
  BY <1>7 DEF ConsumerOK
<1> QED
  BY <1>0, <1>1, <1>2, <1>4, <1>5, <1>6, <1>7, ConsumerFrom

\* SoleHolder is preserved.
LEMMA SoleHolderStep ==
    ASSUME EInv, NoRetry, FInv, [Next]_vars
    PROVE  SoleHolder'
<1> SUFFICES ASSUME NEW w \in Workers, Sole(w)'
             PROVE  /\ ~(consumer'.pc # "idle" /\ consumer'.m = worker'[w].m)
                    /\ mode' = "up" => msg'[worker'[w].m].st = "pending"
  BY DEF SoleHolder, Has
<1>1. CASE Take(w)
  <2>1. chan # <<>> /\ worker'[w].m = Head(chan) /\ msg' = msg /\ consumer' = consumer
    BY <1>1 DEF Take, EInv, MemInv, MemOK
  <2>2. Head(chan) = chan[1] /\ 1 \in DOMAIN chan
    BY <2>1 DEF EInv, MemInv, MemOK
  <2> QED
    BY <2>1, <2>2 DEF FInv, QueuedOK, Has
<1>2. CASE GoesOn(w)
  <2> DEFINE m == worker[w].m
  <2>1. Sole(w) /\ worker'[w].m = m /\ worker'[w].pc # "release"
    BY <1>2 DEF GoesOn, Sole, Active
  <2>2. ~Has(m) /\ (mode = "up" => msg[m].st = "pending")
    BY <2>1 DEF FInv, SoleHolder
  <2>3. m \in Msgs
    BY <2>1, SameMessage DEF FInv, Sole
  <2>4. ASSUME mode' = "up" PROVE mode = "up"
    <3>1. mode # "down"
      BY <2>1 DEF FInv, DownEmpty, Sole
    <3>2. mode # "draining"
      <4>1. mode' = mode \/ ProcessStep
        BY DEF Next, vars, UserStep, CreateAndEnqueue, RequestStop, Remove, SetCancelFlag, CancelFlagExpires, envVars,
           BrokerStep, AckWaitExpires, ConsumerStep, Fetch, StartRunning, StartRunningFails, ClaimAndQueue,
           WorkerStep, Take, CancelCheck, PollCancel, RunTask, ClearStaleFlag, Pipeline, Complete, Fail,
           FinalWriteFails, HaltFails, HaltRequest, HaltStop, SettleMessage, ReleaseTask
      <4> QED
        BY <2>4, <4>1 DEF ProcessStep, Stop, Exit, Crash, Restart, LoseMemory
    <3> QED
      BY <3>1, <3>2 DEF EInv, EnvOK
  <2>5. ASSUME mode' = "up" PROVE msg'[m].st = "pending"
    <3>1. mode = "up" /\ msg[m].st = "pending"
      BY <2>2, <2>4, <2>5
    <3>2. Protected(m)
      BY <2>1, <3>1 DEF Protected, Running, CtxDead, Sole, Shadowed
    <3>3. ASSUME NEW v \in Workers, worker[v].pc = "settle", worker[v].m = m, worker'[v].pc = "release"
          PROVE  FALSE
      <4>1. v = w
        BY <2>1, <3>3, SameMessage DEF FInv, Sole, Active
      <4> QED
        BY <2>1, <3>3, <4>1
    <3> QED
      BY <2>2, <2>3, <3>1, <3>2, <3>3, PendingKept
  <2>6. ~(consumer'.pc # "idle" /\ consumer'.m = m)
    <3>1. CASE mode = "up"
      BY <2>2, <2>3, <3>1, NotTaken DEF Has
    <3>2. CASE mode # "up"
      <4>1. ~\E n \in Msgs : Fetch(n)
        BY <3>2 DEF Fetch
      <4> QED
        BY <2>2, <4>1, ConsumerFrom DEF Has, IdleConsumer, Starts
    <3> QED
      BY <3>1, <3>2
  <2> QED
    BY <2>1, <2>5, <2>6
<1> QED
  BY <1>1, <1>2, WorkerFrom DEF Sole, Active

\* The invariant is inductive ...
LEMMA FInvStep ==
    ASSUME NoRetry, QuickQueue
    PROVE  EInv /\ FInv /\ [Next]_vars => FInv'
BY OneMessageStep, StopFirstStep, DownEmptyStep, SoleHolderStep, ConsumerOKStep, QueuedOKStep, RunOKStep DEF FInv

\* ... and holds at the start.
LEMMA FInvInit == Init => FInv
BY DEF Init, FInv, OneMessage, StopFirst, DownEmpty, SoleHolder, ConsumerOK, QueuedOK, RunOK, Used, Active, Sole,
   IdleWorker, IdleConsumer, Early, Has

\* Without retries and without a message that outlives AckWait in the channel,
\* no worker ever starts the pipeline of a task that has finished, whatever is
\* redelivered: with crashes, shutdowns, failing database calls and cancelled
\* pipelines that unwind for longer than AckWait.
THEOREM NeverRerun ==
    ASSUME NoRetry, QuickQueue
    PROVE  Spec => FinishedNeverRerun
<1> DEFINE Fresh == \A w \in Workers :
                      worker[w].pc = "clear" /\ worker'[w].pc = "pipe" => status[Task(w)] \notin Terminal
<1>1. FInv => Fresh
  BY DEF FInv, RunOK, Early, Executing, Terminal
<1>2. EInv /\ FInv /\ [Next]_vars => FInv'
  BY FInvStep
<1> HIDE DEF Fresh
<1>3. Spec => [][Fresh]_vars
  BY FInvInit, IngestorInvariance, <1>1, <1>2, PTL DEF Spec
<1> QED
  BY <1>3 DEF FinishedNeverRerun, Fresh

-----------------------------------------------------------------------------
(***************************************************************************)
(* No task is stopped unasked.                                             *)
(***************************************************************************)

\* A worker in markStopped.
Halting == {"halt", "haltstop"}

\* Assumption: the process ends by crashing, never gracefully (a graceful
\* shutdown cancels every context, and the tasks become STOPPED unasked).
NoShutdown == "shutdown" \notin ExitKinds

\* The root context is not cancelled.
NotDraining == mode # "draining"

\* Everything that leads to STOPPED goes back to a request of a user: the statuses,
\* the flag, a request that has still to set it, a dead context and markStopped.
StopKnown ==
    /\ \A t \in Tasks :
        status[t] \in {"STOPPED", "STOPPING"} \/ flag[t] \/ t \in setting => stopAsked[t]
    /\ \A w \in Workers :
        Active(w) /\ (worker[w].dead \/ worker[w].pc \in Halting) => stopAsked[Task(w)]

\* Without graceful shutdowns the root context stays alive.
LEMMA NotDrainingStep ==
    ASSUME EInv, NoShutdown, NotDraining, [Next]_vars
    PROVE  NotDraining'
<1>1. CASE UserStep \/ BrokerStep \/ ConsumerStep \/ UNCHANGED vars
  BY <1>1 DEF UserStep, CreateAndEnqueue, RequestStop, Remove, SetCancelFlag, CancelFlagExpires, envVars,
     BrokerStep, AckWaitExpires, ConsumerStep, Fetch, StartRunning, StartRunningFails, ClaimAndQueue, vars, NotDraining
<1>2. CASE \E w \in Workers : WorkerStep(w)
  BY <1>2 DEF WorkerStep, Take, CancelCheck, PollCancel, RunTask, ClearStaleFlag, Pipeline, Complete, Fail,
     FinalWriteFails, HaltFails, HaltRequest, HaltStop, SettleMessage, ReleaseTask, envVars, NotDraining
<1>3. CASE ProcessStep
  BY <1>3 DEF ProcessStep, Stop, Exit, Crash, Restart, LoseMemory, NotDraining, NoShutdown
<1> QED
  BY <1>1, <1>2, <1>3 DEF Next

\* A worker starts to unwind when its context is dead.
LEMMA HaltComesFrom ==
    ASSUME EInv, [Next]_vars, NEW w \in Workers, worker'[w].pc \in Halting
    PROVE  /\ Active(w) /\ worker'[w].m = worker[w].m
           /\ worker[w].dead => worker'[w].dead
           /\ worker[w].pc \in Halting \/ CtxDead(w)
<1> DEFINE G == /\ Active(w) /\ worker'[w].m = worker[w].m
                /\ worker[w].dead => worker'[w].dead
                /\ worker[w].pc \in Halting \/ CtxDead(w)
<1>0. worker \in [Workers -> WorkerRec]
  BY DEF EInv, MemInv, MemOK
<1>1. CASE UNCHANGED worker
  BY <1>1 DEF Active, Halting
<1>2. ASSUME NEW v \in Workers, WorkerStep(v) PROVE G
  <2>1. CASE Take(v) \/ ReleaseTask(v)
    <3>1. \E r \in {[pc |-> "check", m |-> Head(chan), dead |-> FALSE, ok |-> FALSE], IdleWorker} :
            worker' = [worker EXCEPT ![v] = r]
      BY <2>1 DEF Take, ReleaseTask, IdleWorker
    <3> QED
      BY <1>0, <3>1 DEF Active, Halting, IdleWorker
  <2>2. CASE CancelCheck(v)
    BY <1>0, <2>2 DEF CancelCheck, Active, WorkerRec, Halting
  <2>3. CASE PollCancel(v)
    BY <1>0, <2>3 DEF PollCancel, Active, WorkerRec, Halting
  <2>4. CASE RunTask(v)
    BY <1>0, <2>4 DEF RunTask, Active, WorkerRec, Halting, WorkerTo
  <2>5. CASE HaltRequest(v)
    BY <1>0, <2>5 DEF HaltRequest, Active, WorkerRec, Halting, WorkerTo, Verdict
  <2>6. CASE \/ ClearStaleFlag(v) \/ Pipeline(v) \/ Complete(v) \/ Fail(v)
             \/ FinalWriteFails(v) \/ HaltFails(v) \/ HaltStop(v) \/ SettleMessage(v)
    <3>1. \/ \E ok : worker' = [worker EXCEPT ![v].pc = "settle", ![v].ok = ok]
          \/ \E pc : WorkerTo(v, pc) /\ pc \in {"pipe", "complete", "fail", "panic", "settle", "release"}
      BY <2>6 DEF ClearStaleFlag, Pipeline, Complete, Fail, FinalWriteFails, HaltFails,
         HaltStop, SettleMessage, Verdict, Halting
    <3> QED
      BY <1>0, <3>1 DEF Active, WorkerTo, WorkerRec, Halting
  <2> QED
    BY <1>2, <2>1, <2>2, <2>3, <2>4, <2>5, <2>6 DEF WorkerStep
<1>3. CASE UserStep
  BY <1>1, <1>3 DEF UserStep, CreateAndEnqueue, RequestStop, Remove, SetCancelFlag, CancelFlagExpires, memVars
<1>4. CASE ConsumerStep
  BY <1>1, <1>4 DEF ConsumerStep, Fetch, StartRunning, StartRunningFails, ClaimAndQueue
<1>5. CASE Exit \/ Crash
  BY <1>5 DEF Exit, Crash, LoseMemory, IdleWorker, Halting
<1>6. CASE BrokerStep \/ Stop \/ Restart \/ UNCHANGED vars
  BY <1>1, <1>6 DEF BrokerStep, AckWaitExpires, Stop, Restart, memVars, vars
<1> QED
  BY <1>2, <1>3, <1>4, <1>5, <1>6 DEF Next, ProcessStep

\* Only creating the task anew forgets that somebody asked to stop it.
LEMMA AskedKept ==
    ASSUME EInv, [Next]_vars, NEW t \in Tasks, ~CreateAndEnqueue(t), stopAsked[t]
    PROVE  stopAsked'[t]
<1>0. stopAsked \in [Tasks -> BOOLEAN]
  BY DEF EInv, EnvOK
<1>1. CASE UNCHANGED stopAsked
  BY <1>1
<1>2. CASE UserStep
  BY <1>0, <1>2 DEF UserStep, CreateAndEnqueue, RequestStop, Remove, SetCancelFlag, CancelFlagExpires, dbVars
<1>3. CASE \/ BrokerStep \/ ConsumerStep \/ ProcessStep \/ UNCHANGED vars
  BY <1>1, <1>3 DEF BrokerStep, AckWaitExpires, ConsumerStep, Fetch, StartRunning, StartRunningFails, ClaimAndQueue,
     ProcessStep, Stop, Exit, Crash, Restart, dbVars, vars
<1>4. CASE \E w \in Workers : WorkerStep(w)
  BY <1>1, <1>4 DEF WorkerStep, Take, CancelCheck, PollCancel, RunTask, ClearStaleFlag, Pipeline, Complete, Fail,
     FinalWriteFails, HaltFails, HaltRequest, HaltStop, SettleMessage, ReleaseTask, dbVars
<1> QED
  BY <1>2, <1>3, <1>4 DEF Next

\* A task begins to stop on a request or under a worker that unwinds.
LEMMA StopComesFrom ==
    ASSUME EInv, [Next]_vars, NEW t \in Tasks, status'[t] \in {"STOPPED", "STOPPING"},
           status[t] \notin {"STOPPED", "STOPPING"}
    PROVE  stopAsked'[t] \/ \E w \in Workers : worker[w].pc \in Halting /\ Task(w) = t
<1>0. status \in [Tasks -> Status] /\ stopAsked \in [Tasks -> BOOLEAN]
  BY DEF EInv, EnvOK
<1>1. status' # status
  OBVIOUS
<1>2. CASE UserStep
  BY <1>0, <1>1, <1>2 DEF UserStep, CreateAndEnqueue, RequestStop, Remove, SetCancelFlag, CancelFlagExpires, dbVars,
     SetStatus
<1>3. CASE ConsumerStep
  BY <1>0, <1>1, <1>3 DEF ConsumerStep, Fetch, StartRunning, StartRunningFails, ClaimAndQueue, dbVars, SetStatus
<1>4. ASSUME NEW w \in Workers, WorkerStep(w)
      PROVE  worker[w].pc \in Halting /\ Task(w) = t
  <2>1. Complete(w) \/ Fail(w) \/ HaltRequest(w) \/ HaltStop(w)
    BY <1>1, <1>4 DEF WorkerStep, Take, CancelCheck, PollCancel, RunTask, ClearStaleFlag, Pipeline,
     FinalWriteFails, HaltFails, SettleMessage, ReleaseTask, dbVars
  <2>2. CASE Complete(w) \/ Fail(w)
    BY <1>0, <2>2 DEF Complete, Fail, SetStatus
  <2>3. CASE HaltRequest(w) \/ HaltStop(w)
    BY <1>0, <2>3 DEF HaltRequest, HaltStop, SetStatus, Halting
  <2> QED
    BY <2>1, <2>2, <2>3
<1>5. CASE BrokerStep \/ ProcessStep \/ UNCHANGED vars
  BY <1>1, <1>5 DEF BrokerStep, AckWaitExpires, ProcessStep, Stop, Exit, Crash, Restart, dbVars, vars
<1> QED
  BY <1>2, <1>3, <1>4, <1>5 DEF Next

\* The inductive invariant behind StoppedOnlyOnRequest.
SInv == OneMessage /\ StopFirst /\ NotDraining /\ StopKnown

\* StopKnown is preserved.
LEMMA StopKnownStep ==
    ASSUME EInv, NoRetry, SInv, [Next]_vars
    PROVE  StopKnown'
<1>0. \A w \in Workers : Active(w) => worker[w].m \in Msgs /\ Used(worker[w].m) /\ Task(w) \in Tasks
  BY WorkerFacts DEF EInv
<1>1. ASSUME NEW t \in Tasks, status'[t] \in {"STOPPED", "STOPPING"} \/ flag'[t] \/ t \in setting'
      PROVE  stopAsked'[t]
  <2>1. ~CreateAndEnqueue(t)
    <3>1. SUFFICES ASSUME CreateAndEnqueue(t) PROVE FALSE
      OBVIOUS
    <3>2. /\ status[t] = "FRESH" /\ status' = [status EXCEPT ![t] = "CREATED"]
          /\ flag' = flag /\ setting' = setting
      BY <3>1, Creates DEF redisVars
    <3>3. ~flag[t] /\ t \notin setting
      BY <3>2 DEF SInv, StopFirst
    <3> QED
      BY <1>1, <3>2, <3>3 DEF EInv, EnvOK
  <2>2. CASE stopAsked[t]
    BY <2>1, <2>2, AskedKept
  <2>3. CASE ~stopAsked[t]
    <3>1. status[t] \notin {"STOPPED", "STOPPING"} /\ ~flag[t] /\ t \notin setting
      BY <2>3 DEF SInv, StopKnown
    <3>2. status'[t] \in {"STOPPED", "STOPPING"}
      BY <1>1, <3>1, FlagMoves
    <3>3. ASSUME NEW w \in Workers, worker[w].pc \in Halting, Task(w) = t PROVE FALSE
      BY <2>3, <3>3 DEF SInv, StopKnown, Halting, Active
    <3> QED
      BY <3>1, <3>2, <3>3, StopComesFrom
  <2> QED
    BY <2>2, <2>3
<1>2. ASSUME NEW w \in Workers, Active(w)', worker'[w].dead \/ worker'[w].pc \in Halting
      PROVE  stopAsked'[Task(w)']
  <2>1. /\ Active(w) /\ worker'[w].m = worker[w].m
        /\ worker[w].dead \/ CancelSeen(Task(w)) \/ worker[w].pc \in Halting
    BY <1>2, DeadComesFrom, HaltComesFrom DEF Active, CtxDead, SInv, NotDraining
  <2>2. Task(w)' = Task(w) /\ Task(w) \in Tasks
    BY <1>0, <2>1, UsedKept DEF Task, TaskOf
  <2>3. stopAsked[Task(w)]
    BY <2>1, <2>2 DEF SInv, StopKnown, CancelSeen
  <2>4. ~CreateAndEnqueue(Task(w))
    BY <1>0, <2>1, <2>2, Creates DEF SInv, OneMessage, Task
  <2> QED
    BY <2>2, <2>3, <2>4, AskedKept
<1> QED
  BY <1>1, <1>2 DEF StopKnown

\* Without retries and graceful shutdowns a task is STOPPED only if a user asked
\* for it, with any crashes, failing database calls, redeliveries and expired flags.
THEOREM StoppedOnRequest ==
    ASSUME NoRetry, NoShutdown
    PROVE  Spec => []StoppedOnlyOnRequest
<1>1. Init => SInv
  BY DEF Init, SInv, OneMessage, StopFirst, NotDraining, StopKnown, Used, Active, IdleWorker
<1>2. EInv /\ SInv /\ [Next]_vars => SInv'
  BY OneMessageStep, StopFirstStep, NotDrainingStep, StopKnownStep DEF SInv
<1>3. SInv => StoppedOnlyOnRequest
  BY DEF SInv, StopKnown, StoppedOnlyOnRequest
<1> QED
  BY IngestorInvariance, <1>1, <1>2, <1>3, PTL DEF Spec

-----------------------------------------------------------------------------
(***************************************************************************)
(* A process that drops nothing: workers settle what they are done with.   *)
(***************************************************************************)

\* Assumptions: no database call fails ...
NoFaults   == MaxFaults = 0

\* ... the channel has room for every task ...
RoomForAll == IsFiniteSet(Tasks) /\ Capacity >= Cardinality(Tasks)

\* ... and those made above.
Quiescent  == NoRetry /\ QuickQueue /\ NoFaults

\* A worker that answers for its message or has done so.
Settling == {"settle", "release"}

\* A task that has not ended.
Live     == {"CREATED"} \cup Executing

\* Workers hold started tasks; while the root context lives they answer only for tasks
\* that are not RUNNING and enter markStopped with a dead context of their own; a
\* positive verdict is for a task that is over; no worker holds what is being claimed.
Quiet ==
    /\ \A w \in Workers : Active(w) => status[Task(w)] # "CREATED"
    /\ mode # "draining" => \A w \in Workers :
        /\ worker[w].pc \in Settling => status[Task(w)] \notin Ahead
        /\ worker[w].pc \in Halting => worker[w].dead
    /\ \A w \in Workers : Active(w) /\ worker[w].ok => status[Task(w)] \notin Live
    /\ consumer.pc = "claim" => \A w \in Workers : Active(w) => worker[w].m # consumer.m

\* Whatever is claimed is in the channel or at a worker.
Claims ==
    \A t \in claimed : \/ \E i \in DOMAIN chan : TaskOf(chan[i]) = t
                       \/ \E w \in Workers : Active(w) /\ Task(w) = t

\* What a claim needs in order to succeed.
QInv == FInv /\ Quiet /\ Claims

\* Who settles a message has finished with its task.
LEMMA SettleComesFrom ==
    ASSUME EInv, Quiescent, QInv, mode # "draining", [Next]_vars, NEW w \in Workers, worker'[w].pc \in Settling
    PROVE  /\ Active(w) /\ worker'[w].m = worker[w].m
           /\ status[Task(w)] \notin Ahead \/ status'[Task(w)] \notin Ahead
<1> DEFINE G == /\ Active(w) /\ worker'[w].m = worker[w].m
                /\ status[Task(w)] \notin Ahead \/ status'[Task(w)] \notin Ahead
<1>0. /\ worker \in [Workers -> WorkerRec] /\ status \in [Tasks -> Status] /\ faults = 0 /\ mode # "draining"
      /\ \A v \in Workers : Active(v) => Task(v) \in Tasks
  <2>1. faults \in 0..MaxFaults /\ MaxFaults = 0
    BY DEF EInv, EnvOK, Quiescent, NoFaults
  <2>2. faults = 0
    BY <2>1
  <2> QED
    BY <2>2, SameMessage DEF EInv, EnvOK, MemInv, MemOK, QInv, FInv
<1>q. /\ Active(w) => status[Task(w)] # "CREATED"
      /\ worker[w].pc \in Settling => status[Task(w)] \notin Ahead
      /\ worker[w].pc \in Halting => worker[w].dead
      /\ Active(w) /\ worker[w].dead => status[Task(w)] \notin Ahead
  BY DEF QInv, Quiet, FInv, StopFirst
<1>1. CASE worker'[w] = worker[w]
  BY <1>1, <1>q DEF Active, Settling
<1>2. ASSUME NEW v \in Workers, WorkerStep(v) PROVE G
  <2>1. CASE v # w
    <3>1. worker'[w] = worker[w]
      BY <1>2, <2>1, OthersKept
    <3> QED
      BY <1>1, <3>1
  <2>2. CASE v = w
    <3> USE <1>0, <2>2 DEF Settling
    <3>1. CASE Take(v) \/ ReleaseTask(v)
      <4>1. \E r \in {[pc |-> "check", m |-> Head(chan), dead |-> FALSE, ok |-> FALSE], IdleWorker} :
              worker' = [worker EXCEPT ![v] = r]
        BY <3>1 DEF Take, ReleaseTask, IdleWorker
      <4> QED
        BY <4>1 DEF IdleWorker
    <3>2. CASE CancelCheck(v)
      BY <3>2 DEF CancelCheck, WorkerRec
    <3>3. CASE PollCancel(v)
      <4>1. worker'[v].pc = worker[v].pc /\ worker[v].pc \in {"entry", "clear", "pipe", "complete", "fail"}
        BY <3>3 DEF PollCancel, WorkerRec
      <4> QED
        BY <4>1
    <3>4. CASE RunTask(v) \/ ClearStaleFlag(v)
      BY <3>4 DEF RunTask, ClearStaleFlag, WorkerTo, WorkerRec
    <3>5. CASE Pipeline(v)
      BY <3>5, <1>q DEF Pipeline, WorkerTo, WorkerRec, Active, CtxDead
    <3>6. CASE Complete(v)
      <4>0. \E ok : worker' = [worker EXCEPT ![v].pc = "settle", ![v].ok = ok]
        BY <3>6, Zenon DEF Complete, Verdict
      <4>1. worker[v].pc = "complete" /\ worker'[v].m = worker[v].m
        BY <3>6, <4>0 DEF Complete
      <4>2. status[Task(v)] \in Executing => status' = [status EXCEPT ![Task(v)] = "COMPLETED"]
                                           \/ status' = [status EXCEPT ![Task(v)] = "STOPPED"]
        BY <3>6 DEF Complete, SetStatus, Executing
      <4> QED
        BY <1>q, <4>1, <4>2 DEF Active, Ahead, Executing
    <3>7. CASE Fail(v)
      <4>1. worker[v].pc \in {"fail", "panic"} /\ worker'[v].m = worker[v].m
        BY <3>7 DEF Fail, Verdict
      <4>2. status[Task(v)] = "RUNNING" => status' = [status EXCEPT ![Task(v)] = "FAILED"]
        BY <3>7 DEF Fail, SetStatus
      <4> QED
        BY <1>q, <4>1, <4>2 DEF Active, Ahead
    <3>8. CASE FinalWriteFails(v)
      <4>1. worker[v].pc \in {"complete", "fail", "panic"} /\ worker'[v].m = worker[v].m
        BY <3>8 DEF FinalWriteFails, Verdict
      <4>2. worker[v].dead
        BY <3>8 DEF FinalWriteFails, Quiescent, NoFaults
      <4> QED
        BY <1>q, <4>1, <4>2 DEF Active
    <3>9. CASE HaltRequest(v) \/ HaltStop(v) \/ HaltFails(v)
      <4>1. worker[v].pc \in Halting
        BY <3>9, Zenon DEF HaltRequest, HaltStop, HaltFails, Halting
      <4>2. worker'[v].m = worker[v].m
        <5>1. CASE HaltRequest(v)
          <6>1. WorkerTo(v, "haltstop") \/ Verdict(v, FALSE)
            BY <5>1, Zenon DEF HaltRequest
          <6> QED
            BY <6>1 DEF WorkerTo, Verdict, WorkerRec
        <5>2. CASE HaltStop(v) \/ HaltFails(v)
          <6>1. \E ok : worker' = [worker EXCEPT ![v].pc = "settle", ![v].ok = ok]
            BY <5>2, Zenon DEF HaltStop, HaltFails, Verdict
          <6> QED
            BY <6>1
        <5> QED
          BY <3>9, <5>1, <5>2
      <4> QED
        BY <1>q, <4>1, <4>2 DEF Active, Halting
    <3>10. CASE SettleMessage(v)
      <4>1. worker[v].pc = "settle" /\ worker'[v].m = worker[v].m
        BY <3>10 DEF SettleMessage, WorkerTo
      <4> QED
        BY <1>q, <4>1 DEF Active
    <3> QED
      BY <1>2, <3>1, <3>2, <3>3, <3>4, <3>5, <3>6, <3>7, <3>8, <3>9, <3>10 DEF WorkerStep
  <2> QED
    BY <2>1, <2>2
<1>3. CASE UserStep
  BY <1>1, <1>3 DEF UserStep, CreateAndEnqueue, RequestStop, Remove, SetCancelFlag, CancelFlagExpires, memVars
<1>4. CASE ConsumerStep
  BY <1>1, <1>4 DEF ConsumerStep, Fetch, StartRunning, StartRunningFails, ClaimAndQueue
<1>5. CASE Exit \/ Crash
  BY <1>5 DEF Exit, Crash, LoseMemory, IdleWorker, Settling
<1>6. CASE BrokerStep \/ Stop \/ Restart \/ UNCHANGED vars
  BY <1>1, <1>6 DEF BrokerStep, AckWaitExpires, Stop, Restart, memVars, vars
<1> QED
  BY <1>2, <1>3, <1>4, <1>5, <1>6 DEF Next, ProcessStep

\* The process drains until it exits.
LEMMA DrainingEnds ==
    ASSUME [Next]_vars, mode = "draining", mode' # "draining"
    PROVE  Exit
<1>1. CASE UserStep \/ BrokerStep \/ ConsumerStep \/ UNCHANGED vars
  BY <1>1 DEF UserStep, CreateAndEnqueue, RequestStop, Remove, SetCancelFlag, CancelFlagExpires, envVars,
     BrokerStep, AckWaitExpires, ConsumerStep, Fetch, StartRunning, StartRunningFails, ClaimAndQueue, vars
<1>2. CASE \E w \in Workers : WorkerStep(w)
  BY <1>2 DEF WorkerStep, Take, CancelCheck, PollCancel, RunTask, ClearStaleFlag, Pipeline, Complete, Fail,
     FinalWriteFails, HaltFails, HaltRequest, HaltStop, SettleMessage, ReleaseTask, envVars
<1>3. CASE ProcessStep
  BY <1>3 DEF ProcessStep, Stop, Crash, Restart
<1> QED
  BY <1>1, <1>2, <1>3 DEF Next

\* A verdict is only positive for a task that is over.
LEMMA OkComesFrom ==
    ASSUME EInv, FInv, [Next]_vars, NEW w \in Workers, worker'[w].pc # "idle", worker'[w].ok
    PROVE  /\ Active(w) /\ worker'[w].m = worker[w].m
           /\ worker[w].ok \/ status'[Task(w)] \notin Live
<1> DEFINE G == /\ Active(w) /\ worker'[w].m = worker[w].m
                /\ worker[w].ok \/ status'[Task(w)] \notin Live
<1>0. /\ worker \in [Workers -> WorkerRec] /\ status \in [Tasks -> Status]
      /\ \A v \in Workers : Active(v) => Task(v) \in Tasks
  BY SameMessage DEF EInv, EnvOK, MemInv, MemOK, FInv
<1>1. CASE worker'[w] = worker[w]
  BY <1>1 DEF Active
<1>2. ASSUME NEW v \in Workers, WorkerStep(v) PROVE G
  <2>1. CASE v # w
    <3>1. worker'[w] = worker[w]
      BY <1>2, <2>1, OthersKept
    <3> QED
      BY <1>1, <3>1
  <2>2. CASE v = w
    <3> USE <1>0, <2>2
    <3>1. CASE Take(v) \/ ReleaseTask(v)
      <4>1. \E r \in {[pc |-> "check", m |-> Head(chan), dead |-> FALSE, ok |-> FALSE], IdleWorker} :
              worker' = [worker EXCEPT ![v] = r]
        BY <3>1 DEF Take, ReleaseTask, IdleWorker
      <4> QED
        BY <4>1 DEF IdleWorker
    <3>2. CASE CancelCheck(v)
      BY <3>2 DEF CancelCheck, WorkerRec, Active
    <3>3. CASE PollCancel(v)
      BY <3>3 DEF PollCancel, WorkerRec, Active
    <3>4. CASE RunTask(v) \/ ClearStaleFlag(v) \/ Pipeline(v) \/ SettleMessage(v)
      <4>1. Active(v) /\ \E pc : WorkerTo(v, pc)
        BY <3>4 DEF RunTask, ClearStaleFlag, Pipeline, SettleMessage, Active
      <4> QED
        BY <4>1 DEF WorkerTo, WorkerRec
    <3>5. CASE FinalWriteFails(v) \/ HaltFails(v)
      <4>1. Active(v) /\ Verdict(v, FALSE)
        BY <3>5 DEF FinalWriteFails, HaltFails, Active
      <4> QED
        BY <4>1 DEF Verdict, WorkerRec
    <3>6. CASE HaltRequest(v)
      <4>1. Active(v) /\ (WorkerTo(v, "haltstop") \/ Verdict(v, FALSE))
        BY <3>6, Zenon DEF HaltRequest, Active
      <4> QED
        BY <4>1 DEF Verdict, WorkerTo, WorkerRec
    <3>7. CASE Complete(v)
      <4>1. \/ Verdict(v, TRUE) /\ status' = [status EXCEPT ![Task(v)] = "COMPLETED"]
            \/ Verdict(v, TRUE) /\ status' = [status EXCEPT ![Task(v)] = "STOPPED"]
            \/ Verdict(v, status[Task(v)] \in Terminal) /\ status' = status
        BY <3>7, Zenon DEF Complete, SetStatus
      <4>2. Active(v)
        BY <3>7 DEF Complete, Active
      <4> QED
        BY <4>1, <4>2 DEF Verdict, WorkerRec, Live, Executing, Terminal
    <3>8. CASE Fail(v)
      <4>1. Active(v) /\ Verdict(v, worker[v].pc = "fail" /\ status[Task(v)] \in Terminal \cup {"RUNNING"})
        BY <3>8 DEF Fail, Active
      <4>2. \/ status[Task(v)] = "RUNNING" /\ status' = [status EXCEPT ![Task(v)] = "FAILED"]
            \/ status[Task(v)] # "RUNNING" /\ status' = status
        BY <3>8 DEF Fail, SetStatus
      <4>3. status[Task(v)] \in Terminal \cup {"RUNNING"} => status'[Task(v)] \notin Live
        BY <4>1, <4>2 DEF Live, Executing, Terminal
      <4>4. worker'[v].m = worker[v].m /\ status[Task(v)] \in Terminal \cup {"RUNNING"}
        BY <4>1 DEF Verdict, WorkerRec
      <4> QED
        BY <4>1, <4>3, <4>4
    <3>9. CASE HaltStop(v)
      <4>1. Active(v) /\ (Verdict(v, TRUE) \/ Verdict(v, FALSE))
        BY <3>9, Zenon DEF HaltStop, Active
      <4>2. Verdict(v, FALSE) \/ status'[Task(v)] \in Terminal
        <5>1. \/ Verdict(v, FALSE)
              \/ status[Task(v)] \in Terminal /\ status' = [status EXCEPT ![Task(v)] = status[Task(v)]]
              \/ status' = [status EXCEPT ![Task(v)] = "STOPPED"]
          BY <3>9, Zenon DEF HaltStop, SetStatus
        <5> QED
          BY <4>1, <5>1 DEF Terminal
      <4> QED
        BY <4>1, <4>2 DEF Verdict, WorkerRec, Live, Executing, Terminal
    <3> QED
      BY <1>2, <3>1, <3>2, <3>3, <3>4, <3>5, <3>6, <3>7, <3>8, <3>9 DEF WorkerStep
  <2> QED
    BY <2>1, <2>2
<1>3. CASE UserStep
  BY <1>1, <1>3 DEF UserStep, CreateAndEnqueue, RequestStop, Remove, SetCancelFlag, CancelFlagExpires, memVars
<1>4. CASE ConsumerStep
  BY <1>1, <1>4 DEF ConsumerStep, Fetch, StartRunning, StartRunningFails, ClaimAndQueue
<1>5. CASE Exit \/ Crash
  BY <1>5 DEF Exit, Crash, LoseMemory, IdleWorker
<1>6. CASE BrokerStep \/ Stop \/ Restart \/ UNCHANGED vars
  BY <1>1, <1>6 DEF BrokerStep, AckWaitExpires, Stop, Restart, memVars, vars
<1> QED
  BY <1>2, <1>3, <1>4, <1>5, <1>6 DEF Next, ProcessStep

\* A task becomes live by being created.
LEMMA LiveFrom ==
    ASSUME EInv, NoRetry, [Next]_vars, NEW t \in Tasks, status'[t] \in Live, ~CreateAndEnqueue(t)
    PROVE  status[t] \in Live
<1>0. status \in [Tasks -> Status]
  BY DEF EInv, EnvOK
<1>1. CASE status' = status
  BY <1>1
<1> USE <1>0 DEF Live, Executing, SetStatus
<1>2. CASE UserStep
  BY <1>2 DEF UserStep, CreateAndEnqueue, RequestStop, Remove, SetCancelFlag, CancelFlagExpires, dbVars
<1>3. CASE ConsumerStep
  BY <1>3 DEF ConsumerStep, Fetch, StartRunning, StartRunningFails, ClaimAndQueue, dbVars, NothingToRun, Exists,
     RowStatus, Terminal
<1>4. ASSUME NEW w \in Workers, WorkerStep(w) PROVE status[t] \in Live
  <2>1. CASE Complete(w) \/ Fail(w)
    BY <2>1 DEF Complete, Fail
  <2>2. CASE HaltRequest(w) \/ HaltStop(w)
    BY <2>2 DEF HaltRequest, HaltStop, Terminal
  <2>3. CASE ~(Complete(w) \/ Fail(w) \/ HaltRequest(w) \/ HaltStop(w))
    BY <1>1, <1>4, <2>3 DEF WorkerStep, Take, CancelCheck, PollCancel, RunTask, ClearStaleFlag, Pipeline,
     FinalWriteFails, HaltFails, SettleMessage, ReleaseTask, dbVars
  <2> QED
    BY <2>1, <2>2, <2>3
<1>5. CASE BrokerStep \/ ProcessStep \/ UNCHANGED vars
  BY <1>1, <1>5 DEF BrokerStep, AckWaitExpires, ProcessStep, Stop, Exit, Crash, Restart, dbVars, vars
<1> QED
  BY <1>2, <1>3, <1>4, <1>5 DEF Next

\* Quiet is preserved.
LEMMA QuietStep ==
    ASSUME EInv, Quiescent, QInv, [Next]_vars
    PROVE  Quiet'
<1> USE DEF QInv
<1>0. \A w \in Workers : Active(w) => worker[w].m \in Msgs /\ Used(worker[w].m) /\ Task(w) \in Tasks
  BY WorkerFacts DEF EInv
<1>m. ASSUME NEW w \in Workers, Active(w), worker'[w].m = worker[w].m PROVE Task(w)' = Task(w)
  BY <1>0, <1>m, UsedKept DEF Task, TaskOf
<1>f. ASSUME NEW w \in Workers, Active(w) PROVE status[Task(w)] # "FRESH" /\ OnlyForward(Task(w))
  BY <1>0, <1>f, StatusMoves DEF FInv, OneMessage, Task, Quiescent
<1>h. ASSUME NEW w \in Workers, Take(w)
      PROVE  /\ chan # <<>> /\ worker'[w].m = Head(chan) /\ status' = status /\ msg' = msg /\ consumer' = consumer
             /\ Head(chan) = chan[1] /\ 1 \in DOMAIN chan /\ worker'[w].pc = "check"
  <2>1. chan # <<>> /\ worker'[w].m = Head(chan) /\ status' = status /\ msg' = msg /\ consumer' = consumer /\ worker'[w].pc = "check"
    BY <1>h DEF Take, dbVars, EInv, MemInv, MemOK
  <2> QED
    BY <2>1 DEF EInv, MemInv, MemOK
<1>1. ASSUME NEW w \in Workers, Active(w)' PROVE status'[Task(w)'] # "CREATED"
  <2>1. CASE Take(w)
    BY <1>h, <2>1 DEF FInv, QueuedOK, Executing, Task, TaskOf
  <2>2. CASE GoesOn(w)
    BY <1>m, <1>f, <2>2 DEF GoesOn, OnlyForward, Quiet
  <2> QED
    BY <1>1, <2>1, <2>2, WorkerFrom DEF Active
<1>d. ASSUME mode' # "draining", NEW w \in Workers, worker'[w].pc # "idle" PROVE mode # "draining"
  BY <1>d, DrainingEnds DEF Exit, LoseMemory, IdleWorker
<1>2. ASSUME mode' # "draining", NEW w \in Workers, worker'[w].pc \in Settling PROVE status'[Task(w)'] \notin Ahead
  <2>1. mode # "draining"
    BY <1>2, <1>d DEF Settling
  <2> QED
    BY <1>2, <1>m, <1>f, <2>1, SettleComesFrom DEF OnlyForward, Ahead
<1>3. ASSUME mode' # "draining", NEW w \in Workers, worker'[w].pc \in Halting PROVE worker'[w].dead
  <2>1. mode # "draining"
    BY <1>3, <1>d DEF Halting
  <2> QED
    BY <1>3, <2>1, HaltComesFrom DEF Quiet, CtxDead
<1>5. ASSUME NEW w \in Workers, Active(w)', worker'[w].ok PROVE status'[Task(w)'] \notin Live
  <2>1. Active(w) /\ worker'[w].m = worker[w].m /\ (worker[w].ok \/ status'[Task(w)] \notin Live)
    BY <1>5, OkComesFrom DEF Active
  <2>2. ~CreateAndEnqueue(Task(w))
    BY <1>f, <2>1, <1>0, Creates DEF Quiescent
  <2> QED
    BY <1>0, <1>m, <2>1, <2>2, LiveFrom DEF Quiet, Quiescent
<1>4. ASSUME consumer'.pc = "claim", NEW w \in Workers, Active(w)' PROVE worker'[w].m # consumer'.m
  <2>1. CASE Starts
    <3>1. Active(w) /\ worker'[w] = worker[w] /\ consumer'.m = consumer.m /\ consumer.pc = "start"
      BY <1>4, <2>1 DEF Starts, Active
    <3>2. status[TaskOf(consumer.m)] \in Ahead /\ mode # "draining"
      BY <2>1 DEF Starts
    <3> SUFFICES ASSUME worker[w].m = consumer.m PROVE FALSE
      BY <3>1
    <3>3. status[Task(w)] \in Ahead
      BY <3>2 DEF Task
    <3>4. ~Shadowed(w)
      BY <3>1, <3>3 DEF FInv, StopFirst, Shadowed
    <3>5. ~Sole(w)
      BY <3>1 DEF FInv, SoleHolder, Has
    <3> QED
      BY <3>1, <3>2, <3>3, <3>4, <3>5 DEF Sole, Quiet, Settling
  <2>2. CASE consumer' = consumer
    <3>1. CASE Take(w)
      BY <1>h, <1>4, <2>2, <3>1 DEF FInv, QueuedOK, Has
    <3>2. CASE GoesOn(w)
      BY <1>4, <2>2, <3>2 DEF GoesOn, Quiet
    <3> QED
      BY <1>4, <3>1, <3>2, WorkerFrom DEF Active
  <2>3. CASE consumer' = IdleConsumer
    BY <1>4, <2>3 DEF IdleConsumer
  <2>4. ASSUME NEW n \in Msgs, Fetch(n) PROVE FALSE
    <3>1. consumer' = [pc |-> "start", m |-> n]
      BY <2>4 DEF Fetch
    <3> QED
      BY <1>4, <3>1
  <2> QED
    BY <2>1, <2>2, <2>3, <2>4, ConsumerFrom
<1> QED
  BY <1>1, <1>2, <1>3, <1>4, <1>5 DEF Quiet

-----------------------------------------------------------------------------
(***************************************************************************)
(* Whatever is claimed is held, and a claim with room succeeds.            *)
(***************************************************************************)
\* Held by the channel or by a worker that has not answered for it.
Held(m) ==
    \/ \E i \in DOMAIN chan : chan[i] = m
    \/ \E w \in Workers : worker[w].pc \notin {"idle", "release"} /\ worker[w].m = m

\* A worker keeps its task until it releases it.
LEMMA ActiveKept ==
    ASSUME EInv, NEW v \in Workers, WorkerStep(v), NEW w \in Workers, Active(w), ~ReleaseTask(w)
    PROVE  /\ worker'[w].pc # "idle" /\ worker'[w].m = worker[w].m
           /\ worker'[w].pc = "release" => worker[w].pc = "release" \/ SettleMessage(w)
<1>0. worker \in [Workers -> WorkerRec]
  BY DEF EInv, MemInv, MemOK
<1>1. CASE v # w
  <2>1. worker'[w] = worker[w]
    BY <1>1, OthersKept
  <2> QED
    BY <2>1 DEF Active
<1>2. CASE v = w
  <2> USE <1>0, <1>2
  <2>1. CASE Take(v)
    BY <2>1 DEF Take, Active
  <2>2. CASE CancelCheck(v)
    BY <2>2 DEF CancelCheck, WorkerRec
  <2>3. CASE PollCancel(v)
    BY <2>3 DEF PollCancel, WorkerRec
  <2>4. CASE RunTask(v) \/ ClearStaleFlag(v)
    <3>1. \E pc : WorkerTo(v, pc) /\ pc \in {"halt", "clear", "pipe"}
      BY <2>4 DEF RunTask, ClearStaleFlag
    <3> QED
      BY <3>1 DEF WorkerTo, WorkerRec
  <2>5. CASE Pipeline(v)
    BY <2>5 DEF Pipeline, WorkerTo, WorkerRec
  <2>6. CASE Complete(v) \/ Fail(v) \/ FinalWriteFails(v) \/ HaltFails(v) \/ HaltStop(v)
    <3>1. \E ok : worker' = [worker EXCEPT ![v].pc = "settle", ![v].ok = ok]
      BY <2>6, Zenon DEF Complete, Fail, FinalWriteFails, HaltFails, HaltStop, Verdict
    <3> QED
      BY <3>1 DEF WorkerRec
  <2>7. CASE HaltRequest(v)
    <3>1. WorkerTo(v, "haltstop") \/ Verdict(v, FALSE)
      BY <2>7, Zenon DEF HaltRequest
    <3> QED
      BY <3>1 DEF WorkerTo, Verdict, WorkerRec
  <2>8. CASE SettleMessage(v)
    <3>1. WorkerTo(v, "release")
      BY <2>8 DEF SettleMessage
    <3> QED
      BY <3>1, <2>8 DEF WorkerTo, WorkerRec
  <2> QED
    BY <2>1, <2>2, <2>3, <2>4, <2>5, <2>6, <2>7, <2>8 DEF WorkerStep
<1> QED
  BY <1>1, <1>2

\* Steps that leave alone who holds what.
LEMMA MemorySteps ==
    ASSUME [Next]_vars
    PROVE  \/ UNCHANGED <<claimed, chan, worker>>
           \/ ClaimAndQueue
           \/ \E w \in Workers : WorkerStep(w)
           \/ (Exit \/ Crash) /\ claimed' = {}
<1>1. CASE UserStep \/ BrokerStep
  BY <1>1 DEF UserStep, CreateAndEnqueue, RequestStop, Remove, SetCancelFlag, CancelFlagExpires, memVars,
     BrokerStep, AckWaitExpires
<1>2. CASE ConsumerStep
  BY <1>2 DEF ConsumerStep, Fetch, StartRunning, StartRunningFails
<1>3. CASE ProcessStep \/ UNCHANGED vars
  BY <1>3 DEF ProcessStep, Stop, Exit, Crash, Restart, LoseMemory, memVars, vars
<1> QED
  BY <1>1, <1>2, <1>3 DEF Next

\* The tail of the channel keeps all but the head.
LEMMA ChanKept ==
    ASSUME EInv, NEW w \in Workers, Take(w), NEW i \in DOMAIN chan
    PROVE  \/ worker'[w].m = chan[i] /\ worker'[w].pc = "check"
           \/ \E j \in DOMAIN chan' : chan'[j] = chan[i]
<1>0. chan \in Seq(Msgs) /\ worker \in [Workers -> WorkerRec]
  BY DEF EInv, MemInv, MemOK
<1>1. /\ chan # <<>> /\ chan' = Tail(chan) /\ worker'[w].m = Head(chan) /\ worker'[w].pc = "check"
  BY <1>0 DEF Take
<1>2. CASE i = 1
  BY <1>0, <1>1, <1>2
<1>3. CASE i # 1
  <2>1. i - 1 \in DOMAIN chan' /\ chan'[i - 1] = chan[i]
    BY <1>0, <1>1, <1>3
  <2> QED
    BY <2>1
<1> QED
  BY <1>2, <1>3

\* Claims is preserved: the claim goes with the worker, and only the worker gives it up.
LEMMA ClaimsStep ==
    ASSUME EInv, FInv, Claims, [Next]_vars
    PROVE  Claims'
<1>0. /\ chan \in Seq(Msgs) /\ worker \in [Workers -> WorkerRec] /\ claimed \subseteq Tasks
  BY DEF EInv, MemInv, MemOK
<1>a. ASSUME NEW i \in DOMAIN chan PROVE msg'[chan[i]].task = TaskOf(chan[i])
  BY <1>a, UsedKept, SameMessage DEF FInv, TaskOf
<1>b. ASSUME NEW w \in Workers, Active(w) PROVE msg'[worker[w].m].task = Task(w)
  BY <1>b, UsedKept, SameMessage DEF FInv, TaskOf, Task
<1> SUFFICES ASSUME NEW t \in claimed'
             PROVE  \/ \E i \in DOMAIN chan' : msg'[chan'[i]].task = t
                    \/ \E w \in Workers : worker'[w].pc # "idle" /\ msg'[worker'[w].m].task = t
  BY DEF Claims, Task, TaskOf, Active
<1>1. CASE UNCHANGED <<claimed, chan, worker>>
  BY <1>a, <1>b, <1>1 DEF Claims, Active
<1>2. CASE ClaimAndQueue
  <2>1. CASE UNCHANGED <<claimed, chan, worker>>
    BY <1>1, <2>1
  <2>2. CASE /\ claimed' = claimed \cup {TaskOf(consumer.m)} /\ chan' = Append(chan, consumer.m)
             /\ worker' = worker /\ msg' = msg
    <3>1. consumer.m \in Msgs
      BY <1>2 DEF EInv, MemInv, HeldOK, ClaimAndQueue
    <3>2. CASE t = TaskOf(consumer.m)
      <4>1. Len(chan) + 1 \in DOMAIN chan' /\ chan'[Len(chan) + 1] = consumer.m
        BY <1>0, <2>2, <3>1
      <4> QED
        BY <2>2, <3>2, <4>1 DEF TaskOf
    <3>3. CASE t \in claimed
      <4>1. \A i \in DOMAIN chan : i \in DOMAIN chan' /\ chan'[i] = chan[i]
        BY <1>0, <2>2, <3>1
      <4> QED
        BY <1>a, <1>b, <2>2, <3>3, <4>1 DEF Claims, Active
    <3> QED
      BY <2>2, <3>2, <3>3
  <2> QED
    BY <1>2, <2>1, <2>2 DEF ClaimAndQueue
<1>3. ASSUME NEW v \in Workers, WorkerStep(v)
      PROVE  \/ \E i \in DOMAIN chan' : msg'[chan'[i]].task = t
             \/ \E w \in Workers : worker'[w].pc # "idle" /\ msg'[worker'[w].m].task = t
  <2>1. CASE ReleaseTask(v)
    <3>1. t \in claimed /\ t # Task(v) /\ chan' = chan /\ \A w \in Workers : w # v => worker'[w] = worker[w]
      BY <1>0, <2>1 DEF ReleaseTask
    <3> QED
      BY <1>a, <1>b, <3>1 DEF Claims, Active
  <2>2. CASE ~ReleaseTask(v)
    <3>1. claimed' = claimed
      BY <1>3, <2>2 DEF WorkerStep, Take, CancelCheck, PollCancel, RunTask, ClearStaleFlag, Pipeline, Complete, Fail,
         FinalWriteFails, HaltFails, HaltRequest, HaltStop, SettleMessage
    <3>2. CASE Take(v)
      <4>1. ASSUME NEW i \in DOMAIN chan, TaskOf(chan[i]) = t
            PROVE  \/ \E j \in DOMAIN chan' : msg'[chan'[j]].task = t
                   \/ worker'[v].pc # "idle" /\ msg'[worker'[v].m].task = t
        BY <1>a, <3>2, <4>1, ChanKept
      <4>2. ASSUME NEW w \in Workers, Active(w), Task(w) = t
            PROVE  worker'[w].pc # "idle" /\ msg'[worker'[w].m].task = t
        <5>1. worker'[w] = worker[w]
          BY <3>2, <4>2, <1>0 DEF Take, Active
        <5> QED
          BY <1>b, <4>2, <5>1 DEF Active
      <4> QED
        BY <3>1, <4>1, <4>2 DEF Claims
    <3>3. CASE ~Take(v)
      <4>1. chan' = chan
        BY <1>3, <2>2, <3>3 DEF WorkerStep, CancelCheck, PollCancel, RunTask, ClearStaleFlag, Pipeline, Complete, Fail,
           FinalWriteFails, HaltFails, HaltRequest, HaltStop, SettleMessage
      <4>2. ASSUME NEW w \in Workers, Active(w), Task(w) = t
            PROVE  worker'[w].pc # "idle" /\ msg'[worker'[w].m].task = t
        <5>1. CASE ReleaseTask(w) /\ w # v
          BY <1>3, <4>2, <5>1, OthersKept, <1>b DEF Active
        <5>2. CASE ~ReleaseTask(w)
          BY <1>3, <4>2, <5>2, ActiveKept, <1>b
        <5> QED
          BY <2>2, <5>1, <5>2
      <4> QED
        BY <1>a, <3>1, <4>1, <4>2 DEF Claims
    <3> QED
      BY <3>2, <3>3
  <2> QED
    BY <2>1, <2>2
<1> QED
  BY <1>1, <1>2, <1>3, MemorySteps

\* With room for every task the channel is never full when a task is claimed,
\* and the task is claimed: nobody of this process holds it.
LEMMA ClaimSucceeds ==
    ASSUME EInv, RoomForAll, QInv, ClaimAndQueue
    PROVE  Queues
<1>0. /\ chan \in Seq(Msgs) /\ consumer.m \in Msgs /\ TaskOf(consumer.m) \in Tasks /\ consumer.pc = "claim"
  BY SameMessage DEF EInv, MemInv, MemOK, QInv, FInv, ClaimAndQueue
<1>1. \A i \in DOMAIN chan : TaskOf(chan[i]) # TaskOf(consumer.m) /\ TaskOf(chan[i]) \in Tasks
  BY <1>0, SameMessage DEF QInv, FInv, QueuedOK
<1>2. TaskOf(consumer.m) \notin claimed
  <2>1. ASSUME NEW w \in Workers, Active(w), Task(w) = TaskOf(consumer.m) PROVE FALSE
    BY <1>0, <2>1, SameMessage DEF QInv, FInv, Quiet, Has
  <2> QED
    BY <1>1, <2>1 DEF QInv, Claims
<1>3. Len(chan) < Capacity
  <2> SUFFICES ASSUME Len(chan) >= Capacity PROVE FALSE
    BY <1>0, IngestorAssumption
  <2> DEFINE S == 0 .. Len(chan)
             f == [i \in S |-> IF i = 0 THEN TaskOf(consumer.m) ELSE TaskOf(chan[i])]
  <2>1. IsFiniteSet(S) /\ Cardinality(S) = Len(chan) + 1
    BY <1>0, FS_Interval
  <2>2. IsFiniteSet(Tasks) /\ Cardinality(Tasks) < Cardinality(S)
    <3>1. Cardinality(Tasks) \in Nat /\ IsFiniteSet(Tasks)
      BY FS_CardinalityType DEF RoomForAll
    <3> HIDE DEF S
    <3> QED
      BY <1>0, <2>1, <3>1, IngestorAssumption DEF RoomForAll
  <2>3. f \in [S -> Tasks]
    BY <1>0, <1>1
  <2>4. PICK x, y \in S : x # y /\ f[x] = f[y]
    <3> HIDE DEF S, f
    <3> QED
      BY <2>1, <2>2, <2>3, FS_PigeonHole
  <2>5. \A i, j \in DOMAIN chan : i # j => TaskOf(chan[i]) # TaskOf(chan[j])
    BY DEF EInv, MemInv, ExclusiveExecution
  <2> QED
    BY <1>0, <1>1, <2>4, <2>5
<1>4. consumer' = IdleConsumer /\ chan' = Append(chan, consumer.m) /\ UNCHANGED <<status, msg>>
  <2>1. Claimable(TaskOf(consumer.m)) /\ ~(Len(chan) >= Capacity)
    BY <1>0, <1>2, <1>3, IngestorAssumption DEF Claimable
  <2> QED
    BY <2>1, Zenon DEF ClaimAndQueue, dbVars
<1> QED
  BY <1>0, <1>2, <1>4 DEF Queues

-----------------------------------------------------------------------------
(***************************************************************************)
(* A live task has a message that is not acknowledged.                     *)
(***************************************************************************)

\* Assumption: a message survives every exit and one more redelivery (16 deliveries
\* in the code).
EnoughDeliveries == MaxDeliver >= MaxExits + 2

\* Nothing fails.
LEMMA Fine == ASSUME EInv, Quiescent, QInv PROVE faults = 0 /\ MaxFaults = 0
<1>1. faults \in 0..MaxFaults /\ MaxFaults = 0
  BY DEF EInv, EnvOK, Quiescent, NoFaults
<1> QED
  BY <1>1

\* A message is acknowledged for a task that is over.
LEMMA AckFrom ==
    ASSUME EInv, Quiescent, RoomForAll, QInv, [Next]_vars, NEW m \in Msgs, Used(m),
           msg[m].st # "acked", msg'[m].st = "acked"
    PROVE  status'[TaskOf(m)] \notin Live
<1>0. msg \in [Msgs -> MsgRec] /\ status \in [Tasks -> Status] /\ TaskOf(m) \in Tasks
  BY DEF EInv, EnvOK, MemInv, MemOK, HeldOK
<1>1. msg' # msg
  OBVIOUS
<1>n. ASSUME NEW n \in Msgs, Nack(n) PROVE FALSE
  BY <1>0, <1>n DEF Nack, MsgRec
<1>a. ASSUME NEW n \in Msgs, Ack(n) PROVE n = m
  BY <1>0, <1>a DEF Ack
<1>2. CASE UserStep
  <2>1. PICK t \in Tasks : CreateAndEnqueue(t)
    BY <1>1, <1>2 DEF UserStep, RequestStop, Remove, SetCancelFlag, CancelFlagExpires
  <2>2. msg'[m].st \in {msg[m].st, "ready"}
    BY <1>0, <2>1 DEF CreateAndEnqueue
  <2> QED
    BY <2>2
<1>3. CASE BrokerStep
  BY <1>n, <1>3 DEF BrokerStep, AckWaitExpires
<1>4. ASSUME NEW n \in Msgs, Fetch(n) PROVE FALSE
  BY <1>0, <1>4 DEF Fetch, MsgRec
<1>5. CASE StartRunning
  <2>1. Ack(consumer.m) /\ consumer.m \in Msgs
    BY <1>1, <1>5, SameMessage DEF StartRunning, QInv, FInv
  <2>2. consumer.m = m
    BY <1>a, <2>1
  <2>3. \/ NothingToRun(TaskOf(m)) /\ status' = status
        \/ status' = [status EXCEPT ![TaskOf(m)] = "STOPPED"]
    BY <1>1, <1>5, <2>2, Zenon DEF StartRunning, SetStatus
  <2> QED
    BY <1>0, <2>3 DEF NothingToRun, Exists, RowStatus, Live, Executing, Terminal
<1>6. CASE StartRunningFails
  BY <1>6, <1>n, SameMessage, Fine DEF StartRunningFails, QInv, FInv
<1>7. CASE ClaimAndQueue
  BY <1>1, <1>7, ClaimSucceeds DEF Queues
<1>8. ASSUME NEW w \in Workers, WorkerStep(w) PROVE status'[TaskOf(m)] \notin Live
  <2>1. SettleMessage(w)
    BY <1>1, <1>8 DEF WorkerStep, Take, CancelCheck, PollCancel, RunTask, ClearStaleFlag, Pipeline, Complete, Fail,
     FinalWriteFails, HaltFails, HaltRequest, HaltStop, ReleaseTask
  <2>2. worker[w].m \in Msgs
    BY <2>1, SameMessage DEF SettleMessage, QInv, FInv, Active
  <2>3. Ack(worker[w].m)
    BY <1>n, <2>1, <2>2 DEF SettleMessage
  <2>4. worker[w].m = m
    BY <1>a, <2>2, <2>3
  <2>5. Settled(Task(w)) \/ ~Exists(Task(w)) \/ worker[w].ok
    BY <1>n, <2>1, <2>2, Fine DEF SettleMessage
  <2>6. status' = status
    BY <2>1 DEF SettleMessage, dbVars
  <2>7. worker[w].ok => status[Task(w)] \notin Live
    BY <2>1 DEF SettleMessage, QInv, Quiet, Active
  <2> QED
    BY <1>0, <2>4, <2>5, <2>6, <2>7 DEF Settled, Exists, Task, Live, Executing, Terminal, RowStatus
<1>9. CASE ProcessStep \/ UNCHANGED vars
  BY <1>1, <1>9 DEF ProcessStep, Stop, Exit, Crash, Restart, vars
<1> QED
  BY <1>2, <1>3, <1>4, <1>5, <1>6, <1>7, <1>8, <1>9 DEF Next, ConsumerStep

\* Every live task has a message, and a live task's message is not acknowledged.
Backed ==
    /\ \A m \in Msgs : msg[m].st = "acked" => status[TaskOf(m)] \notin Live
    /\ \A t \in Tasks : status[t] \in Live => \E m \in Msgs : Used(m) /\ TaskOf(m) = t

\* Backed is preserved.
LEMMA BackedStep ==
    ASSUME EInv, Quiescent, RoomForAll, QInv, Backed, [Next]_vars
    PROVE  Backed'
<1>0. NoRetry /\ OneMessage /\ \A m \in Msgs : Used(m) => TaskOf(m) \in Tasks
  BY DEF Quiescent, QInv, FInv, EInv, MemInv, HeldOK
<1>1. ASSUME NEW m \in Msgs, msg'[m].st = "acked" PROVE status'[msg'[m].task] \notin Live
  <2>1. Used(m)
    <3> SUFFICES ASSUME ~Used(m) PROVE FALSE
      OBVIOUS
    <3>1. CASE \A t \in Tasks : ~CreateAndEnqueue(t)
      BY <1>1, <3>1, MsgMoves DEF Keeps, Used
    <3>2. ASSUME NEW t \in Tasks, CreateAndEnqueue(t) PROVE FALSE
      <4>1. PICK n \in Msgs : /\ msg'[n] = [task |-> t, st |-> "ready", dc |-> 0]
                              /\ \A k \in Msgs : k # n => msg'[k] = msg[k]
        BY <1>0, <3>2, Creates
      <4> QED
        BY <1>1, <4>1 DEF Used
    <3> QED
      BY <3>1, <3>2
  <2>2. msg'[m].task = TaskOf(m) /\ TaskOf(m) \in Tasks
    BY <1>0, <2>1, UsedKept DEF TaskOf
  <2>3. CASE msg[m].st # "acked"
    BY <1>1, <2>1, <2>2, <2>3, AckFrom
  <2>4. CASE msg[m].st = "acked"
    <3>1. status[TaskOf(m)] \notin Live
      BY <2>4 DEF Backed
    <3>2. ~CreateAndEnqueue(TaskOf(m))
      BY <1>0, <2>1, <2>2, Creates DEF OneMessage
    <3> QED
      BY <1>0, <2>2, <3>1, <3>2, LiveFrom
  <2> QED
    BY <2>3, <2>4
<1>2. ASSUME NEW t \in Tasks, status'[t] \in Live
      PROVE  \E m \in Msgs : msg'[m].st # "unused" /\ msg'[m].task = t
  <2>1. CASE CreateAndEnqueue(t)
    <3>1. PICK n \in Msgs : msg'[n] = [task |-> t, st |-> "ready", dc |-> 0]
      BY <1>0, <2>1, Creates
    <3> QED
      BY <3>1
  <2>2. CASE ~CreateAndEnqueue(t)
    <3>1. PICK m \in Msgs : Used(m) /\ TaskOf(m) = t
      BY <1>0, <1>2, <2>2, LiveFrom DEF Backed
    <3> QED
      BY <3>1, UsedKept DEF TaskOf
  <2> QED
    BY <2>1, <2>2
<1> QED
  BY <1>1, <1>2 DEF Backed, TaskOf, Used

-----------------------------------------------------------------------------
(***************************************************************************)
(* Deliveries are counted by exits.                                        *)
(***************************************************************************)

\* A task being stopped may be redelivered once more, under its unwinding pipeline.
Extra(t) == IF status[t] = "STOPPING" THEN 1 ELSE 0

\* The deliveries of a message: one for each exit so far (the exit of a draining
\* process counts when it begins to drain), one that is in progress and one for the stop.
WithinBudget(m) ==
    /\ mode = "draining" => msg[m].dc <= exits + Extra(TaskOf(m))
    /\ Has(m) => msg[m].dc <= exits + 1 + Extra(TaskOf(m))
    /\ Has(m) /\ consumer.pc = "claim" => msg[m].dc <= exits + 1
    /\ Held(m) /\ ~Has(m) => msg[m].dc <= exits + 1
    /\ ~Held(m) /\ ~Has(m) => msg[m].dc <= exits + Extra(TaskOf(m))

\* No message of a live task exceeds its deliveries.
Budget == \A m \in Msgs : Used(m) /\ status[TaskOf(m)] \in Live => WithinBudget(m)

\* The inductive invariant behind Recoverable.
RInv == QInv /\ Backed /\ Budget

\* How the consumer parts with a message.
LEMMA HasEnds ==
    ASSUME EInv, Quiescent, RoomForAll, QInv, [Next]_vars, NEW m \in Msgs, Has(m), ~Has(m)'
    PROVE  Crash \/ Queues \/ mode = "draining" \/ status'[TaskOf(m)] \notin Live
<1>0. status \in [Tasks -> Status] /\ TaskOf(m) \in Tasks /\ consumer.m = m /\ consumer.pc # "idle"
  BY SameMessage DEF EInv, EnvOK, QInv, FInv, Has
<1>1. consumer' # consumer
  BY DEF Has
<1>2. CASE UserStep \/ BrokerStep
  BY <1>1, <1>2 DEF UserStep, CreateAndEnqueue, RequestStop, Remove, SetCancelFlag, CancelFlagExpires, memVars,
     BrokerStep, AckWaitExpires
<1>3. ASSUME NEW n \in Msgs, Fetch(n) PROVE FALSE
  BY <1>0, <1>3 DEF Fetch, IdleConsumer
<1>4. CASE StartRunning
  <2>1. consumer' # [consumer EXCEPT !.pc = "claim"]
    BY <1>0 DEF Has, EInv, MemInv, MemOK
  <2>2. \/ NothingToRun(TaskOf(m)) /\ status' = status
        \/ status' = [status EXCEPT ![TaskOf(m)] = "STOPPED"]
    BY <1>0, <1>4, <2>1, Zenon DEF StartRunning, SetStatus
  <2> QED
    BY <1>0, <2>2 DEF NothingToRun, Exists, RowStatus, Live, Executing, Terminal
<1>5. CASE StartRunningFails
  BY <1>5, Fine DEF StartRunningFails
<1>6. CASE ClaimAndQueue
  BY <1>6, ClaimSucceeds
<1>7. CASE \E w \in Workers : WorkerStep(w)
  BY <1>1, <1>7 DEF WorkerStep, Take, CancelCheck, PollCancel, RunTask, ClearStaleFlag, Pipeline, Complete, Fail,
     FinalWriteFails, HaltFails, HaltRequest, HaltStop, SettleMessage, ReleaseTask
<1>8. CASE ProcessStep \/ UNCHANGED vars
  BY <1>1, <1>8 DEF ProcessStep, Stop, Exit, Restart, memVars, vars
<1> QED
  BY <1>2, <1>3, <1>4, <1>5, <1>6, <1>7, <1>8 DEF Next, ConsumerStep

\* How the channel and the workers part with a message.
LEMMA HeldEnds ==
    ASSUME EInv, [Next]_vars, NEW m \in Msgs, Held(m), ~Held(m)'
    PROVE  \/ Exit \/ Crash
           \/ \E w \in Workers : SettleMessage(w) /\ worker[w].m = m
<1>0. chan \in Seq(Msgs) /\ worker \in [Workers -> WorkerRec]
  BY DEF EInv, MemInv, MemOK
<1>1. ~UNCHANGED <<chan, worker>>
  BY DEF Held
<1>2. CASE ClaimAndQueue
  <2>1. worker' = worker /\ (chan' = chan \/ chan' = Append(chan, consumer.m)) /\ consumer.m \in Msgs
    BY <1>2 DEF ClaimAndQueue, EInv, MemInv, HeldOK
  <2>2. \A i \in DOMAIN chan : i \in DOMAIN chan' /\ chan'[i] = chan[i]
    BY <1>0, <2>1
  <2> QED
    BY <2>1, <2>2 DEF Held
<1>3. ASSUME NEW v \in Workers, WorkerStep(v)
      PROVE  \E w \in Workers : SettleMessage(w) /\ worker[w].m = m
  <2>1. ASSUME NEW w \in Workers, worker[w].pc \notin {"idle", "release"}, worker[w].m = m
        PROVE  SettleMessage(w) /\ worker[w].m = m
    <3>1. ~ReleaseTask(w)
      BY <2>1 DEF ReleaseTask
    <3>2. worker'[w].pc # "idle" /\ worker'[w].m = m /\ (worker'[w].pc = "release" => SettleMessage(w))
      BY <1>3, <2>1, <3>1, ActiveKept DEF Active
    <3> QED
      BY <2>1, <3>2 DEF Held
  <2>2. ASSUME NEW i \in DOMAIN chan, chan[i] = m PROVE FALSE
    <3>1. CASE Take(v)
      BY <2>2, <3>1, ChanKept DEF Held
    <3>2. CASE ~Take(v)
      <4>1. chan' = chan
        BY <1>3, <3>2 DEF WorkerStep, CancelCheck, PollCancel, RunTask, ClearStaleFlag, Pipeline, Complete, Fail,
           FinalWriteFails, HaltFails, HaltRequest, HaltStop, SettleMessage, ReleaseTask
      <4> QED
        BY <2>2, <4>1 DEF Held
    <3> QED
      BY <3>1, <3>2
  <2> QED
    BY <2>1, <2>2 DEF Held
<1> QED
  BY <1>1, <1>2, <1>3, MemorySteps

\* How they come to hold one.
LEMMA HeldFrom ==
    ASSUME EInv, [Next]_vars, NEW m \in Msgs, Held(m)'
    PROVE  Held(m) \/ (Queues /\ consumer.m = m)
<1>1. ASSUME NEW i \in DOMAIN chan', chan'[i] = m PROVE Held(m) \/ (Queues /\ consumer.m = m)
  BY <1>1, ChanFrom DEF Held
<1>2. ASSUME NEW w \in Workers, worker'[w].pc \notin {"idle", "release"}, worker'[w].m = m PROVE Held(m)
  <2>1. CASE Take(w)
    <3>1. chan # <<>> /\ worker'[w].m = Head(chan)
      BY <2>1 DEF Take, EInv, MemInv, MemOK
    <3>2. Head(chan) = chan[1] /\ 1 \in DOMAIN chan
      BY <3>1 DEF EInv, MemInv, MemOK
    <3> QED
      BY <1>2, <3>1, <3>2 DEF Held
  <2>2. CASE GoesOn(w)
    BY <1>2, <2>2 DEF GoesOn, Held, Active
  <2> QED
    BY <1>2, <2>1, <2>2, WorkerFrom
<1> QED
  BY <1>1, <1>2 DEF Held

\* Only a fetch counts a delivery.
LEMMA DeliveriesMove ==
    ASSUME EInv, [Next]_vars, \A t \in Tasks : ~CreateAndEnqueue(t), NEW m \in Msgs, ~Fetch(m)
    PROVE  msg'[m].dc = msg[m].dc
<1>0. msg \in [Msgs -> MsgRec]
  BY DEF EInv, MemInv, MemOK
<1>1. CASE msg' = msg
  BY <1>1
<1>2. ASSUME NEW n, Ack(n) \/ Nack(n) PROVE msg'[m].dc = msg[m].dc
  BY <1>0, <1>2 DEF Ack, Nack, MsgRec
<1>3. ASSUME NEW n \in Msgs, Fetch(n) PROVE msg'[m].dc = msg[m].dc
  BY <1>0, <1>3 DEF Fetch, MsgRec
<1>4. CASE StartRunning \/ StartRunningFails \/ ClaimAndQueue
  BY <1>1, <1>2, <1>4 DEF StartRunning, StartRunningFails, ClaimAndQueue
<1>5. CASE BrokerStep
  BY <1>2, <1>5 DEF BrokerStep, AckWaitExpires
<1>6. ASSUME NEW w \in Workers, WorkerStep(w) PROVE msg'[m].dc = msg[m].dc
  <2>1. CASE SettleMessage(w)
    BY <1>2, <2>1 DEF SettleMessage
  <2>2. CASE ~SettleMessage(w)
    BY <1>1, <1>6, <2>2 DEF WorkerStep, Take, CancelCheck, PollCancel, RunTask, ClearStaleFlag, Pipeline,
         FinalWriteFails, HaltFails, ReleaseTask, Complete, Fail, HaltRequest, HaltStop
  <2> QED
    BY <2>1, <2>2
<1>7. CASE UserStep
  BY <1>1, <1>7 DEF UserStep, RequestStop, Remove, SetCancelFlag, CancelFlagExpires
<1>8. CASE ProcessStep \/ UNCHANGED vars
  BY <1>1, <1>8 DEF ProcessStep, Stop, Exit, Crash, Restart, vars
<1> QED
  BY <1>3, <1>4, <1>5, <1>6, <1>7, <1>8 DEF Next, ConsumerStep

\* A delivery that is still held is only repeated for a task being stopped.
LEMMA ReadyHeld ==
    ASSUME EInv, QInv, mode = "up", NEW m \in Msgs, Held(m), msg[m].st = "ready", status[TaskOf(m)] \in Live
    PROVE  status[TaskOf(m)] = "STOPPING"
<1>1. ASSUME NEW i \in DOMAIN chan, chan[i] = m PROVE FALSE
  BY <1>1 DEF QInv, FInv, QueuedOK
<1>2. ASSUME NEW w \in Workers, worker[w].pc \notin {"idle", "release"}, worker[w].m = m
      PROVE  status[TaskOf(m)] = "STOPPING"
  <2>1. Shadowed(w)
    BY <1>2 DEF QInv, FInv, SoleHolder, Sole, Active
  <2> QED
    BY <1>2, <2>1 DEF QInv, FInv, StopFirst, Shadowed, Active, Task, Live, Executing, Ahead
<1> QED
  BY <1>1, <1>2 DEF Held

\* Only a crash counts, once.
LEMMA ExitsMove ==
    ASSUME EInv, [Next]_vars
    PROVE  /\ exits' = exits \/ (exits' = exits + 1 /\ (Crash \/ Stop))
           /\ mode' = "draining" => mode = "draining" \/ Stop
<1>1. CASE UserStep \/ BrokerStep \/ ConsumerStep \/ UNCHANGED vars
  BY <1>1 DEF UserStep, CreateAndEnqueue, RequestStop, Remove, SetCancelFlag, CancelFlagExpires, envVars,
     BrokerStep, AckWaitExpires, ConsumerStep, Fetch, StartRunning, StartRunningFails, ClaimAndQueue, vars
<1>2. CASE \E w \in Workers : WorkerStep(w)
  BY <1>2 DEF WorkerStep, Take, CancelCheck, PollCancel, RunTask, ClearStaleFlag, Pipeline, Complete, Fail,
     FinalWriteFails, HaltFails, HaltRequest, HaltStop, SettleMessage, ReleaseTask, envVars
<1>3. CASE ProcessStep
  BY <1>3 DEF ProcessStep, Stop, Exit, Crash, Restart, LoseMemory
<1> QED
  BY <1>1, <1>2, <1>3 DEF Next

\* A message stays within its deliveries ...
LEMMA BudgetOfMessage ==
    ASSUME EInv, Quiescent, RoomForAll, RInv, [Next]_vars, \A t \in Tasks : ~CreateAndEnqueue(t),
           NEW m \in Msgs, Used(m), status'[TaskOf(m)] \in Live
    PROVE  WithinBudget(m)'
<1> DEFINE t == TaskOf(m)
<1>0. /\ t \in Tasks /\ exits \in Nat /\ msg[m].dc \in Nat /\ status \in [Tasks -> Status] /\ msg \in [Msgs -> MsgRec]
      /\ consumer \in [pc : {"idle", "start", "claim"}, m : Msgs \cup {NoMsg}]
  BY IngestorAssumption DEF EInv, EnvOK, MemInv, MemOK, HeldOK, MsgRec, RInv
<1>1. status[t] \in Live
  BY <1>0, LiveFrom DEF Quiescent
<1>2. /\ mode = "draining" => msg[m].dc <= exits + Extra(t)
      /\ Has(m) => msg[m].dc <= exits + 1 + Extra(t)
      /\ Held(m) /\ ~Has(m) => msg[m].dc <= exits + 1
      /\ ~Held(m) /\ ~Has(m) => msg[m].dc <= exits + Extra(t)
      /\ Has(m) /\ consumer.pc = "claim" => msg[m].dc <= exits + 1
  BY <1>1 DEF RInv, Budget, WithinBudget
<1>3. Extra(t) \in {0, 1} /\ Extra(t)' \in {0, 1}
  BY DEF Extra
<1>4. t' = t
  BY UsedKept DEF TaskOf
<1>5. Extra(t) <= Extra(t)'
  BY <1>0, <1>1, <1>4, StatusMoves DEF Extra, OnlyForward, Quiescent, Ahead, Live, Executing
<1>6. CASE Fetch(m)
  <2>1. /\ mode = "up" /\ ~Has(m) /\ msg[m].st = "ready" /\ msg'[m].dc = msg[m].dc + 1
        /\ Has(m)' /\ consumer'.pc = "start" /\ exits' = exits /\ mode' = "up"
    BY <1>0, <1>6 DEF Fetch, IdleConsumer, Has, envVars, MsgRec
  <2>2. CASE Held(m)
    <3>1. Extra(t) = 1
      BY <1>1, <2>1, <2>2, ReadyHeld DEF Extra, RInv
    <3> QED
      BY <1>0, <1>2, <1>3, <1>5, <2>1, <2>2, <3>1 DEF WithinBudget
  <2>3. CASE ~Held(m)
    BY <1>0, <1>2, <1>3, <1>5, <2>1, <2>3 DEF WithinBudget
  <2> QED
    BY <2>2, <2>3
<1>7. CASE ~Fetch(m)
  <2>1. msg'[m].dc = msg[m].dc
    BY <1>7, DeliveriesMove
  <2>2. CASE Crash
    <3>1. ~Has(m)' /\ ~Held(m)' /\ exits' = exits + 1 /\ mode' = "down"
      BY <2>2 DEF Crash, LoseMemory, IdleConsumer, IdleWorker, Has, Held
    <3> QED
      BY <1>0, <1>2, <1>3, <1>5, <2>1, <3>1 DEF WithinBudget
  <2>4. CASE Stop
    <3>1. exits' = exits + 1 /\ Has(m)' = Has(m) /\ Held(m)' = Held(m) /\ consumer' = consumer
      BY <2>4 DEF Stop, memVars, Has, Held
    <3> QED
      BY <1>0, <1>2, <1>3, <1>5, <2>1, <3>1 DEF WithinBudget
  <2>5. CASE mode = "draining"
    <3>1. exits' = exits
      BY <2>5, ExitsMove DEF Stop, Crash
    <3> QED
      BY <1>0, <1>2, <1>3, <1>5, <2>1, <2>5, <3>1 DEF WithinBudget
  <2>3. CASE ~Crash /\ ~Stop /\ mode # "draining"
    <3>1. exits' = exits /\ mode' # "draining"
      BY <2>3, ExitsMove
    <3>2. Has(m)' => Has(m) /\ (consumer'.pc = "claim" => consumer.pc = "claim" \/ Extra(t) = 0)
      <4>1. CASE consumer' = consumer \/ consumer' = IdleConsumer
        BY <4>1 DEF Has, IdleConsumer
      <4>2. CASE Starts
        BY <4>2 DEF Starts, Has, Extra, Ahead
      <4>3. ASSUME NEW n \in Msgs, Fetch(n) PROVE n # m /\ consumer' = [pc |-> "start", m |-> n]
        BY <1>7, <4>3 DEF Fetch
      <4> QED
        BY <4>1, <4>2, <4>3, ConsumerFrom DEF Has
    <3>3. Has(m)' /\ consumer'.pc = "claim" => msg'[m].dc <= exits' + 1
      BY <1>0, <1>2, <2>1, <3>1, <3>2 DEF Has
    <3>4. Queues /\ consumer.m = m => Held(m)' /\ Has(m) /\ consumer.pc = "claim"
      <4> SUFFICES ASSUME Queues, consumer.m = m PROVE Held(m)' /\ Has(m) /\ consumer.pc = "claim"
        OBVIOUS
      <4>1. chan \in Seq(Msgs) /\ chan' = Append(chan, m) /\ consumer.pc = "claim"
        BY DEF EInv, MemInv, MemOK, Queues
      <4>2. Len(chan) + 1 \in DOMAIN chan' /\ chan'[Len(chan) + 1] = m
        BY <4>1
      <4> QED
        BY <4>1, <4>2 DEF Held, Has
    <3>5. ASSUME Held(m)', ~Has(m)' PROVE msg'[m].dc <= exits' + 1
      <4>1. Held(m) \/ (Queues /\ consumer.m = m)
        BY <3>5, HeldFrom
      <4>2. CASE Has(m)
        BY <1>0, <1>2, <2>1, <2>3, <3>1, <3>4, <3>5, <4>2, HasEnds DEF Has, RInv
      <4>3. CASE ~Has(m)
        BY <1>0, <1>2, <2>1, <3>1, <3>4, <4>1, <4>3 DEF Has
      <4> QED
        BY <4>2, <4>3
    <3>6. ASSUME ~Held(m)', ~Has(m)' PROVE msg'[m].dc <= exits' + Extra(t)'
      <4>1. ~Has(m)
        BY <2>3, <3>4, <3>6, HasEnds DEF Has, RInv
      <4>2. CASE Held(m)
        <5>1. PICK w \in Workers : SettleMessage(w) /\ worker[w].m = m
          BY <1>0, <2>3, <3>6, <4>2, HeldEnds DEF Exit
        <5>2. status[t] = "STOPPING"
          BY <1>1, <2>3, <5>1 DEF SettleMessage, RInv, QInv, Quiet, Settling, Task, Live, Executing, Ahead
        <5>3. Extra(t) = 1
          BY <5>2 DEF Extra
        <5> QED
          BY <1>0, <1>2, <1>3, <1>5, <2>1, <3>1, <4>1, <4>2, <5>3
      <4>3. CASE ~Held(m)
        BY <1>0, <1>2, <1>3, <1>5, <2>1, <3>1, <4>1, <4>3
      <4> QED
        BY <4>2, <4>3
    <3> QED
      BY <1>0, <1>2, <1>3, <1>5, <2>1, <3>1, <3>2, <3>3, <3>5, <3>6 DEF WithinBudget
  <2> QED
    BY <2>2, <2>3, <2>4, <2>5
<1> QED
  BY <1>6, <1>7

\* ... and so does a new one.
LEMMA BudgetStep ==
    ASSUME EInv, Quiescent, RoomForAll, RInv, [Next]_vars
    PROVE  Budget'
<1> SUFFICES ASSUME NEW m \in Msgs, Used(m)', status'[msg'[m].task] \in Live
             PROVE  WithinBudget(m)'
  BY DEF Budget, TaskOf
<1>1. CASE \A t \in Tasks : ~CreateAndEnqueue(t)
  <2>1. Used(m)
    BY <1>1, MsgMoves DEF Keeps, Used
  <2>2. msg'[m].task = TaskOf(m)
    BY <2>1, UsedKept DEF TaskOf
  <2> QED
    BY <1>1, <2>1, <2>2, BudgetOfMessage
<1>2. ASSUME NEW t \in Tasks, CreateAndEnqueue(t) PROVE WithinBudget(m)'
  <2>0. /\ exits \in Nat /\ status \in [Tasks -> Status]
        /\ \A k \in Msgs : Used(k) => TaskOf(k) \in Tasks /\ TaskOf(k) # t
    <3>1. exits \in Nat /\ status \in [Tasks -> Status]
      BY IngestorAssumption DEF EInv, EnvOK
    <3>2. status[t] = "FRESH"
      BY <1>2, Creates DEF Quiescent
    <3> QED
      BY <3>1, <3>2 DEF EInv, MemInv, HeldOK, RInv, QInv, FInv, OneMessage
  <2>1. PICK n \in Msgs : /\ msg'[n] = [task |-> t, st |-> "ready", dc |-> 0]
                          /\ \A k \in Msgs : k # n => msg'[k] = msg[k]
    BY <1>2, Creates DEF Quiescent
  <2>2. status' = [status EXCEPT ![t] = "CREATED"] /\ UNCHANGED <<mode, exits, consumer, chan, worker>>
    BY <1>2, Creates DEF Quiescent, envVars, memVars
  <2>3. CASE m = n
    BY <2>0, <2>1, <2>2, <2>3 DEF WithinBudget, Extra
  <2>4. CASE m # n
    <3>1. msg'[m] = msg[m] /\ Used(m) /\ TaskOf(m) # t /\ TaskOf(m) \in Tasks
      BY <2>0, <2>1, <2>4 DEF Used
    <3>2. status'[TaskOf(m)] = status[TaskOf(m)] /\ TaskOf(m)' = TaskOf(m)
      BY <2>0, <2>2, <3>1 DEF TaskOf
    <3>3. WithinBudget(m)
      BY <3>1, <3>2 DEF RInv, Budget, TaskOf
    <3> QED
      BY <2>2, <3>1, <3>2, <3>3 DEF WithinBudget, Extra, Has, Held
  <2> QED
    BY <2>3, <2>4
<1> QED
  BY <1>1, <1>2

\* The invariant holds at the start ...
LEMMA RInvInit == Init => RInv
<1> SUFFICES ASSUME Init PROVE RInv
  OBVIOUS
<1>1. FInv
  BY FInvInit
<1>2. Quiet /\ Claims
  BY DEF Init, Quiet, Claims, Active, Settling, Halting, IdleWorker, IdleConsumer
<1>3. Backed /\ Budget
  BY DEF Init, Backed, Budget, Used, Live, Executing
<1> QED
  BY <1>1, <1>2, <1>3 DEF RInv, QInv

\* ... and is inductive.
LEMMA RInvStep ==
    ASSUME EInv, Quiescent, RoomForAll, RInv, [Next]_vars
    PROVE  RInv'
<1>1. FInv'
  BY FInvStep DEF Quiescent, RInv, QInv
<1>2. Quiet' /\ Claims'
  BY QuietStep, ClaimsStep DEF Quiescent, RInv, QInv
<1>3. Backed' /\ Budget'
  BY BackedStep, BudgetStep DEF RInv
<1> QED
  BY <1>1, <1>2, <1>3 DEF RInv, QInv

\* At-least-once.  A task that has not ended is held by the process or has a
\* message the broker will deliver, in every state and after any crash or graceful
\* shutdown, if nothing is retried, no database call fails, no message outlives
\* AckWait in the channel, the channel has room for every task and there are two
\* deliveries more than exits.  TLC finds Recoverable violated when the assumption
\* on retries, failures, AckWait or room is dropped.
THEOREM AlwaysRecoverable ==
    ASSUME NoRetry, QuickQueue, NoFaults, RoomForAll, EnoughDeliveries
    PROVE  Spec => []Recoverable
<1>0. Quiescent
  BY DEF Quiescent
<1>1. EInv /\ RInv /\ [Next]_vars => RInv'
  BY <1>0, RInvStep
<1>2. EInv /\ RInv => Recoverable
  <2> SUFFICES ASSUME EInv, RInv, NEW t \in Tasks, status[t] \in Live
               PROVE  HeldHere(t) \/ \E m \in Msgs : TaskOf(m) = t /\ Deliverable(m)
    BY DEF Recoverable, Live
  <2>1. PICK m \in Msgs : Used(m) /\ TaskOf(m) = t
    BY DEF RInv, Backed
  <2>2. msg[m].st \in {"ready", "pending"} /\ msg[m].dc \in Nat /\ exits \in Nat /\ exits <= MaxExits
    BY <2>1, IngestorAssumption DEF RInv, Backed, EInv, EnvOK, MemInv, MemOK, MsgRec, Used
  <2>3. CASE Has(m) \/ Held(m)
    BY <2>1, <2>3 DEF Has, Held, HeldHere, Task
  <2>4. CASE ~Has(m) /\ ~Held(m)
    <3>1. msg[m].dc <= exits + Extra(t)
      BY <2>1, <2>4 DEF RInv, Budget, WithinBudget
    <3>2. msg[m].dc < MaxDeliver
      BY <2>2, <3>1, IngestorAssumption DEF Extra, EnoughDeliveries
    <3> QED
      BY <2>1, <2>2, <3>2 DEF Deliverable
  <2> QED
    BY <2>3, <2>4
<1> QED
  BY IngestorInvariance, RInvInit, <1>1, <1>2, PTL DEF Spec
=============================================================================
