------------------------------ MODULE WorkerPool ------------------------------
(* The resizable worker pool of ragflow/internal/utility/workerpool.go, which  *)
(* bounds the concurrency of PDF pages, of chunk extraction and of knowledge   *)
(* compilation.  Jobs are Submit calls, one goroutine each; workers are        *)
(* goroutines; a resizer and a stopper are callers of Resize and StopWait.  One *)
(* action is one atomic operation of the code or a run of operations no other  *)
(* goroutine can tell apart.                                                   *)
(*                                                                             *)
(* Abstracted: the value a handler returns (only whether the result is a       *)
(* value, the handler's error or panic, or the context's error), the counters   *)
(* that only Stats reads (submittedTotal, completedTotal, failedTotal,         *)
(* activeWorkers), and a result channel with no room (Submit makes it with     *)
(* capacity 1 and SubmitTo's one caller, parser.go:379, with one place per     *)
(* page).                                                                      *)
EXTENDS Integers, Sequences, FiniteSets

CONSTANTS Jobs,        \* Submit calls, each with a context of its own
          Workers,     \* names for worker goroutines; Resize needs spare ones
          InitWorkers, \* the goroutines NewWorkerPool starts
          QueueSize,   \* capacity of workChan
          Sizes,       \* worker counts that Resize is called with
          Resizers,    \* callers of Resize
          Stoppers,    \* callers of StopWait
          NoJob

ASSUME PoolAssumption ==
    /\ IsFiniteSet(Workers)
    /\ InitWorkers \subseteq Workers /\ InitWorkers # {}
    /\ QueueSize \in Nat \ {0}
    /\ Sizes \subseteq Nat \ {0}
    /\ NoJob \notin Jobs

VARIABLES
    state,          \* "running" or "stopped"
    closed,         \* workChan is closed
    queue,          \* the jobs buffered in workChan
    desired,        \* desiredWorkers
    live,           \* liveWorkers
    submitN, doneN, \* the pair StopWait compares under mu
    worker,         \* where each worker goroutine is
    job,            \* the job it holds
    seen,           \* the liveWorkers it has read
    call,           \* where the Submit call of each job is
    ctx,            \* the context of each job: "live" or "cancelled"
    result,         \* what the result channel of each job was sent
    resize,         \* where each Resize call is, its argument and what it read
    stop            \* where each StopWait call is

counts == <<submitN, doneN>>
pool   == <<state, closed, queue, desired, live, counts>>
crew   == <<worker, job, seen>>
jobs   == <<call, ctx, result>>
others == <<resize, stop>>
vars   == <<pool, crew, jobs, others>>

WorkerPCs == {"none", "starting", "idle", "handling", "skipping", "delivered",
              "marked", "comparing", "leaving"}
CallPCs   == {"new", "checked", "sent", "accepted", "answered", "abandoned",
              "refused", "cancelled", "panicked"}
StopPCs   == {"idle", "checking", "asleep", "closing", "joining", "finished",
              "returned"}
Results   == {"none", "value", "error", "cancelled"}

Holding == {"handling", "skipping"}

\* NewWorkerPool
Init ==
    /\ state = "running" /\ closed = FALSE /\ queue = <<>>
    /\ desired = Cardinality(InitWorkers) /\ live = 0
    /\ submitN = 0 /\ doneN = 0
    /\ worker = [w \in Workers |-> IF w \in InitWorkers THEN "starting" ELSE "none"]
    /\ job = [w \in Workers |-> NoJob]
    /\ seen = [w \in Workers |-> 0]
    /\ call = [j \in Jobs |-> "new"]
    /\ ctx = [j \in Jobs |-> "live"]
    /\ result = [j \in Jobs |-> "none"]
    /\ resize = [r \in Resizers |-> [pc |-> "idle", to |-> 0, from |-> 0]]
    /\ stop = [s \in Stoppers |-> "idle"]

-------------------------------------------------------------------------------
(* Submit, SubmitTo and the future's Wait                                      *)

\* The state is read once, before the select.
CheckState(j) ==
    /\ call[j] = "new"
    /\ call' = [call EXCEPT ![j] = IF state = "stopped" THEN "refused" ELSE "checked"]
    /\ UNCHANGED <<pool, crew, ctx, result, others>>

\* One arm of the select: the buffer has room.
Enqueue(j) ==
    /\ call[j] = "checked"
    /\ ~closed
    /\ Len(queue) < QueueSize
    /\ queue' = Append(queue, j)
    /\ call' = [call EXCEPT ![j] = "sent"]
    /\ UNCHANGED <<state, closed, desired, live, counts, crew, ctx, result, others>>

\* The same arm on a closed channel: the send panics in the caller.
SendPanics(j) ==
    /\ call[j] = "checked"
    /\ closed
    /\ call' = [call EXCEPT ![j] = "panicked"]
    /\ UNCHANGED <<pool, crew, ctx, result, others>>

\* The other arm.
SubmitCancelled(j) ==
    /\ call[j] = "checked"
    /\ ctx[j] = "cancelled"
    /\ call' = [call EXCEPT ![j] = "cancelled"]
    /\ UNCHANGED <<pool, crew, ctx, result, others>>

\* The counters move after the send: the job may already be with a worker.
CountSubmitted(j) ==
    /\ call[j] = "sent"
    /\ submitN' = submitN + 1
    /\ call' = [call EXCEPT ![j] = "accepted"]
    /\ UNCHANGED <<state, closed, queue, desired, live, doneN, crew, ctx,
                   result, others>>

\* WorkerPoolFuture.Wait: the result or the context's error, either if both.
WaitReturns(j) ==
    /\ call[j] = "accepted"
    /\ \/ /\ result[j] # "none"
          /\ call' = [call EXCEPT ![j] = "answered"]
       \/ /\ ctx[j] = "cancelled"
          /\ call' = [call EXCEPT ![j] = "abandoned"]
    /\ UNCHANGED <<pool, crew, ctx, result, others>>

\* The caller's context is cancelled or times out.
CancelJob(j) ==
    /\ ctx[j] = "live"
    /\ ctx' = [ctx EXCEPT ![j] = "cancelled"]
    /\ UNCHANGED <<pool, crew, call, result, others>>

-------------------------------------------------------------------------------
(* A worker goroutine                                                          *)

StartWorker(w) ==
    /\ worker[w] = "starting"
    /\ live' = live + 1
    /\ worker' = [worker EXCEPT ![w] = "idle"]
    /\ UNCHANGED <<state, closed, queue, desired, counts, job, seen, jobs, others>>

\* range receives a job; its context decides whether the handler runs.
Take(w) ==
    /\ worker[w] = "idle"
    /\ queue # <<>>
    /\ queue' = Tail(queue)
    /\ job' = [job EXCEPT ![w] = Head(queue)]
    /\ worker' = [worker EXCEPT ![w] =
                    IF ctx[Head(queue)] = "live" THEN "handling" ELSE "skipping"]
    /\ UNCHANGED <<state, closed, desired, live, counts, seen, jobs, others>>

\* Mutant of Deliver: a failed handler counts but sends nothing.
DeliverValuesOnly(w) ==
    /\ worker[w] \in Holding
    /\ \/ /\ worker[w] = "handling"
          /\ result' = [result EXCEPT ![job[w]] = "value"]
       \/ UNCHANGED result
    /\ worker' = [worker EXCEPT ![w] = "delivered"]
    /\ job' = [job EXCEPT ![w] = NoJob]
    /\ UNCHANGED <<state, closed, queue, desired, live, counts, seen, call, ctx,
                   others>>

\* The handler has returned or panicked, or was skipped: count and send.
Deliver(w) ==
    /\ worker[w] \in Holding
    /\ \E res \in (IF worker[w] = "handling" THEN {"value", "error"} ELSE {"cancelled"}) :
         result' = [result EXCEPT ![job[w]] = res]
    /\ worker' = [worker EXCEPT ![w] = "delivered"]
    /\ job' = [job EXCEPT ![w] = NoJob]
    /\ UNCHANGED <<state, closed, queue, desired, live, counts, seen, call, ctx,
                   others>>

\* markDone, under mu: the broadcast wakes every StopWait that sleeps.
MarkDone(w) ==
    /\ worker[w] = "delivered"
    /\ doneN' = doneN + 1
    /\ stop' = [s \in Stoppers |->
                  IF submitN = doneN' /\ stop[s] = "asleep" THEN "checking" ELSE stop[s]]
    /\ worker' = [worker EXCEPT ![w] = "marked"]
    /\ UNCHANGED <<state, closed, queue, desired, live, submitN, job, seen, jobs,
                   resize>>

\* The two atomic loads of the retirement test.
LoadLive(w) ==
    /\ worker[w] = "marked"
    /\ seen' = [seen EXCEPT ![w] = live]
    /\ worker' = [worker EXCEPT ![w] = "comparing"]
    /\ UNCHANGED <<pool, job, jobs, others>>

\* Mutant of Compare: a worker that is not extra retires too.
CompareAtLeast(w) ==
    /\ worker[w] = "comparing"
    /\ worker' = [worker EXCEPT ![w] = IF seen[w] >= desired THEN "leaving" ELSE "idle"]
    /\ seen' = [seen EXCEPT ![w] = 0]
    /\ UNCHANGED <<pool, job, jobs, others>>

Compare(w) ==
    /\ worker[w] = "comparing"
    /\ worker' = [worker EXCEPT ![w] = IF seen[w] > desired THEN "leaving" ELSE "idle"]
    /\ seen' = [seen EXCEPT ![w] = 0]
    /\ UNCHANGED <<pool, job, jobs, others>>

\* Mutant of RangeEnds: the loop watches for the close and not for the drain.
RangeEndsAtClose(w) ==
    /\ worker[w] = "idle"
    /\ closed
    /\ worker' = [worker EXCEPT ![w] = "leaving"]
    /\ UNCHANGED <<pool, job, seen, jobs, others>>

\* range ends only when the channel is closed and drained.
RangeEnds(w) ==
    /\ worker[w] = "idle"
    /\ closed
    /\ queue = <<>>
    /\ worker' = [worker EXCEPT ![w] = "leaving"]
    /\ UNCHANGED <<pool, job, seen, jobs, others>>

\* The deferred function: liveWorkers falls, the WaitGroup is told.
Leave(w) ==
    /\ worker[w] = "leaving"
    /\ live' = live - 1
    /\ worker' = [worker EXCEPT ![w] = "none"]
    /\ UNCHANGED <<state, closed, queue, desired, counts, job, seen, jobs, others>>

WorkerStep(w) ==
    \/ StartWorker(w) \/ Take(w) \/ Deliver(w) \/ MarkDone(w) \/ LoadLive(w)
    \/ Compare(w) \/ RangeEnds(w) \/ Leave(w)

-------------------------------------------------------------------------------
(* Resize: load the old target, store the new one, start the difference        *)

ResizeLoad(r) ==
    /\ resize[r].pc = "idle"
    /\ \E n \in Sizes : resize' = [resize EXCEPT ![r] = [pc |-> "loaded", to |-> n, from |-> desired]]
    /\ UNCHANGED <<pool, crew, jobs, stop>>

ResizeStore(r) ==
    /\ resize[r].pc = "loaded"
    /\ desired' = resize[r].to
    /\ resize' = [resize EXCEPT ![r].pc = IF resize[r].to > resize[r].from THEN "stored" ELSE "idle"]
    /\ UNCHANGED <<state, closed, queue, live, counts, crew, jobs, stop>>

\* Bounded by the names left in Workers.
ResizeStart(r) ==
    /\ resize[r].pc = "stored"
    /\ \E new \in SUBSET {w \in Workers : worker[w] = "none"} :
         /\ Cardinality(new) = resize[r].to - resize[r].from
         /\ worker' = [w \in Workers |-> IF w \in new THEN "starting" ELSE worker[w]]
    /\ resize' = [resize EXCEPT ![r].pc = "idle"]
    /\ UNCHANGED <<pool, job, seen, jobs, stop>>

-------------------------------------------------------------------------------
(* StopWait                                                                    *)

\* The compare-and-swap: a second caller returns at once.
StopEnters(s) ==
    /\ stop[s] = "idle"
    /\ state' = "stopped"
    /\ stop' = [stop EXCEPT ![s] = IF state = "running" THEN "checking" ELSE "returned"]
    /\ UNCHANGED <<closed, queue, desired, live, counts, crew, jobs, resize>>

\* One turn of the loop under mu: sleep on the condition or go on.
StopChecks(s) ==
    /\ stop[s] = "checking"
    /\ stop' = [stop EXCEPT ![s] = IF submitN # doneN THEN "asleep" ELSE "closing"]
    /\ UNCHANGED <<pool, crew, jobs, resize>>

StopCloses(s) ==
    /\ stop[s] = "closing"
    /\ closed' = TRUE
    /\ stop' = [stop EXCEPT ![s] = "joining"]
    /\ UNCHANGED <<state, queue, desired, live, counts, crew, jobs, resize>>

\* workerWg.Wait: every goroutine ever started is gone.
StopJoins(s) ==
    /\ stop[s] = "joining"
    /\ \A w \in Workers : worker[w] = "none"
    /\ stop' = [stop EXCEPT ![s] = "finished"]
    /\ UNCHANGED <<pool, crew, jobs, resize>>

-------------------------------------------------------------------------------
SubmitStep(j) ==
    CheckState(j) \/ Enqueue(j) \/ SendPanics(j) \/ SubmitCancelled(j)
        \/ CountSubmitted(j) \/ WaitReturns(j)

ResizeStep(r) == ResizeStore(r) \/ ResizeStart(r)

StopStep(s) == StopChecks(s) \/ StopCloses(s) \/ StopJoins(s)

Next ==
    \/ \E j \in Jobs : SubmitStep(j) \/ CancelJob(j)
    \/ \E w \in Workers : WorkerStep(w)
    \/ \E r \in Resizers : ResizeLoad(r) \/ ResizeStep(r)
    \/ \E s \in Stoppers : StopEnters(s) \/ StopStep(s)

Spec == Init /\ [][Next]_vars

\* The scheduler runs every goroutine that can move, and handlers return.  A
\* caller may never submit, cancel, resize or stop.
Fairness ==
    /\ \A w \in Workers : WF_vars(WorkerStep(w))
    /\ \A j \in Jobs : WF_vars(call[j] # "new" /\ SubmitStep(j))
    /\ \A r \in Resizers : WF_vars(ResizeStep(r))
    /\ \A s \in Stoppers : WF_vars(StopStep(s))

FairSpec == Spec /\ Fairness

-------------------------------------------------------------------------------
(* Properties                                                                  *)

\* Types, and which pc a worker has while it holds a job.
TypeOK ==
    /\ state \in {"running", "stopped"}
    /\ closed \in BOOLEAN
    /\ queue \in Seq(Jobs)
    /\ desired \in Nat /\ live \in Int
    /\ submitN \in Nat /\ doneN \in Nat
    /\ worker \in [Workers -> WorkerPCs]
    /\ job \in [Workers -> Jobs \cup {NoJob}]
    /\ \A w \in Workers : job[w] \in Jobs <=> worker[w] \in Holding
    /\ seen \in [Workers -> Int]
    /\ call \in [Jobs -> CallPCs]
    /\ ctx \in [Jobs -> {"live", "cancelled"}]
    /\ result \in [Jobs -> Results]
    /\ resize \in [Resizers -> [pc : {"idle", "loaded", "stored"}, to : Nat, from : Nat]]
    /\ stop \in [Stoppers -> StopPCs]

\* The job waits in the channel or is with a worker.
Outstanding(j) ==
    \/ \E i \in 1..Len(queue) : queue[i] = j
    \/ \E w \in Workers : job[w] = j

\* When the StopWait that closes the pool has returned, no job is waiting or
\* running, and every Submit that went through to the channel, even one whose
\* count came after the close, has its result (workerpool.go:209-224).
StopDrains ==
    (\E s \in Stoppers : stop[s] = "finished") =>
        \A j \in Jobs : /\ ~Outstanding(j)
                        /\ call[j] \in {"sent", "accepted"} => result[j] # "none"

\* While the pool is open, as many workers as Resize last asked for serve the
\* queue or are about to: "extra workers retire" (workerpool.go:158-159).  The
\* code does not keep it once the pool shrinks: several workers read the old
\* count before any of them is subtracted, so that each takes itself for the
\* extra one.  The README gives the instance.
DesiredServed ==
    (~closed /\ \A r \in Resizers : resize[r].pc # "stored") =>
        Cardinality({w \in Workers : worker[w] \notin {"none", "leaving"}}) >= desired

\* A Submit that was accepted returns from its Wait: every job the pool took is
\* run, or its caller's context has ended (workerpool.go:36-44).
AcceptedSettles ==
    \A j \in Jobs : (call[j] = "accepted") ~> (call[j] \in {"answered", "abandoned"})

===============================================================================
