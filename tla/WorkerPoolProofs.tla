--------------------------- MODULE WorkerPoolProofs ---------------------------
(* What holds of the worker pool for every number of jobs, workers and calls:  *)
(* types and, if the pool only grows, that the StopWait which closes the pool  *)
(* drains it.                                                                  *)
EXTENDS WorkerPool, FiniteSetTheorems, TLAPS

\* NewWorkerPool returns a pool with these types.
LEMMA InitTypes == Init => TypeOK
  <1>1. IsFiniteSet(InitWorkers)
    BY PoolAssumption, FS_Subset
  <1>2. Cardinality(InitWorkers) \in Nat
    BY <1>1, FS_CardinalityType
  <1>3. ASSUME Init
        PROVE  /\ worker \in [Workers -> WorkerPCs] /\ job \in [Workers -> Jobs \cup {NoJob}]
               /\ \A w \in Workers : job[w] \in Jobs <=> worker[w] \in Holding
    BY <1>3, PoolAssumption DEF Init, WorkerPCs, Holding
  <1>4. ASSUME Init
        PROVE  /\ call \in [Jobs -> CallPCs] /\ ctx \in [Jobs -> {"live", "cancelled"}]
               /\ result \in [Jobs -> Results] /\ stop \in [Stoppers -> StopPCs]
    BY <1>4 DEF Init, CallPCs, Results, StopPCs
  <1>5. ASSUME Init
        PROVE  resize \in [Resizers -> [pc : {"idle", "loaded", "stored"}, to : Nat, from : Nat]]
    BY <1>5 DEF Init
  <1>6. ASSUME Init
        PROVE  queue \in Seq(Jobs) /\ seen \in [Workers -> Int] /\ desired \in Nat
    BY <1>2, <1>6 DEF Init
  <1>7. Init => closed \in BOOLEAN
    BY Zenon DEF Init
  <1>8. ASSUME Init
        PROVE  /\ state \in {"running", "stopped"} /\ live \in Int
               /\ submitN \in Nat /\ doneN \in Nat
    BY <1>8 DEF Init
  <1> QED
    BY <1>3, <1>4, <1>5, <1>6, <1>7, <1>8 DEF TypeOK

\* Every step keeps them.
LEMMA NextTypes == TypeOK /\ [Next]_vars => TypeOK'
  <1> SUFFICES ASSUME TypeOK, [Next]_vars PROVE TypeOK'
    OBVIOUS
  <1> USE DEF TypeOK
  <1>1. CASE UNCHANGED vars
    BY <1>1 DEF vars, pool, counts, crew, jobs, others, Holding
  <1>2. CASE Next
    <2> USE DEF pool, counts, crew, jobs, others
    <2>1. ASSUME NEW j \in Jobs, CheckState(j) PROVE TypeOK'
      BY <2>1 DEF CheckState, CallPCs
    <2>2. ASSUME NEW j \in Jobs, Enqueue(j) PROVE TypeOK'
      BY <2>2 DEF Enqueue, CallPCs
    <2>3. ASSUME NEW j \in Jobs, SendPanics(j) \/ SubmitCancelled(j) \/ CancelJob(j) PROVE TypeOK'
      <3>1. CASE SendPanics(j)
        BY <3>1 DEF SendPanics, CallPCs
      <3>2. CASE SubmitCancelled(j)
        BY <3>2 DEF SubmitCancelled, CallPCs
      <3>3. CASE CancelJob(j)
        BY <3>3 DEF CancelJob
      <3> QED
        BY <2>3, <3>1, <3>2, <3>3
    <2>4. ASSUME NEW j \in Jobs, CountSubmitted(j) PROVE TypeOK'
      BY <2>4 DEF CountSubmitted, CallPCs
    <2>5. ASSUME NEW j \in Jobs, WaitReturns(j) PROVE TypeOK'
      <3>1. call' \in [Jobs -> CallPCs]
        BY <2>5 DEF WaitReturns, CallPCs
      <3> QED
        BY <2>5, <3>1 DEF WaitReturns
    <2>6. ASSUME NEW w \in Workers, StartWorker(w) PROVE TypeOK'
      BY <2>6 DEF StartWorker, WorkerPCs, Holding
    <2>7. ASSUME NEW w \in Workers, Take(w) PROVE TypeOK'
      <3>1. Head(queue) \in Jobs /\ Tail(queue) \in Seq(Jobs)
        BY <2>7 DEF Take
      <3> QED
        BY <2>7, <3>1 DEF Take, WorkerPCs, Holding
    <2>8. ASSUME NEW w \in Workers, Deliver(w) PROVE TypeOK'
      BY <2>8, PoolAssumption DEF Deliver, WorkerPCs, Holding, Results
    <2>9. ASSUME NEW w \in Workers, MarkDone(w) PROVE TypeOK'
      <3>1. stop' \in [Stoppers -> StopPCs]
        BY <2>9 DEF MarkDone, StopPCs
      <3>2. worker' \in [Workers -> WorkerPCs] /\ doneN' \in Nat
        BY <2>9 DEF MarkDone, WorkerPCs
      <3>3. \A v \in Workers : job'[v] \in Jobs <=> worker'[v] \in Holding
        BY <2>9 DEF MarkDone, Holding
      <3> QED
        BY <2>9, <3>1, <3>2, <3>3 DEF MarkDone
    <2>10. ASSUME NEW w \in Workers, LoadLive(w) PROVE TypeOK'
      BY <2>10 DEF LoadLive, WorkerPCs, Holding
    <2>11. ASSUME NEW w \in Workers, Compare(w) PROVE TypeOK'
      BY <2>11 DEF Compare, WorkerPCs, Holding
    <2>12. ASSUME NEW w \in Workers, RangeEnds(w) PROVE TypeOK'
      BY <2>12 DEF RangeEnds, WorkerPCs, Holding
    <2>13. ASSUME NEW w \in Workers, Leave(w) PROVE TypeOK'
      BY <2>13 DEF Leave, WorkerPCs, Holding
    <2>14. ASSUME NEW r \in Resizers, ResizeLoad(r) \/ ResizeStore(r) \/ ResizeStart(r) PROVE TypeOK'
      <3>1. CASE ResizeLoad(r)
        BY <3>1, PoolAssumption DEF ResizeLoad
      <3>2. CASE ResizeStore(r)
        BY <3>2 DEF ResizeStore
      <3>3. CASE ResizeStart(r)
        <4>1. worker' \in [Workers -> WorkerPCs]
          BY <3>3 DEF ResizeStart, WorkerPCs
        <4>2. \A w \in Workers : job'[w] \in Jobs <=> worker'[w] \in Holding
          BY <3>3 DEF ResizeStart, Holding
        <4>3. resize' \in [Resizers -> [pc : {"idle", "loaded", "stored"}, to : Nat, from : Nat]]
          BY <3>3 DEF ResizeStart
        <4> QED
          BY <3>3, <4>1, <4>2, <4>3 DEF ResizeStart
      <3> QED
        BY <2>14, <3>1, <3>2, <3>3
    <2>15. ASSUME NEW s \in Stoppers, StopEnters(s) \/ StopChecks(s) \/ StopCloses(s) PROVE TypeOK'
      <3>1. CASE StopEnters(s)
        BY <3>1 DEF StopEnters, StopPCs
      <3>2. CASE StopChecks(s)
        BY <3>2 DEF StopChecks, StopPCs
      <3>3. CASE StopCloses(s)
        BY <3>3 DEF StopCloses, StopPCs
      <3> QED
        BY <2>15, <3>1, <3>2, <3>3
    <2>16. ASSUME NEW s \in Stoppers, StopJoins(s) PROVE TypeOK'
      BY <2>16 DEF StopJoins, StopPCs
    <2> HIDE DEF TypeOK
    <2> QED
      BY <1>2, <2>1, <2>2, <2>3, <2>4, <2>5, <2>6, <2>7, <2>8, <2>9, <2>10, <2>11,
         <2>12, <2>13, <2>14, <2>15, <2>16 DEF Next, SubmitStep, WorkerStep, ResizeStep, StopStep
  <1> QED
    BY <1>1, <1>2

\* The pool of workerpool.go keeps its types: a worker holds a job only while
\* it handles or skips it.
THEOREM PoolTypes == Spec => []TypeOK
  BY InitTypes, NextTypes, PTL DEF Spec

-------------------------------------------------------------------------------
(* A pool that one caller resizes and that only grows, or that nobody resizes. *)
(* No worker is extra, so none retires: one that ends has seen the channel     *)
(* closed and drained.  A join of them all means that nothing is left, and     *)
(* whatever was sent has its result.                                           *)

\* The Resize calls do not overlap: two that do may start workers twice, and
\* workers that are extra may retire all at once.
OneResizer == \A r, q \in Resizers : r = q

\* No call of Resize asks for fewer workers than it read; one that does makes
\* every worker that has read the old count retire.
Grows == \A r \in Resizers : resize[r].from <= resize[r].to

\* The goroutines that were started and have not ended, and those liveWorkers counts.
Started == {w \in Workers : worker[w] # "none"}
Running == {w \in Workers : worker[w] \notin {"none", "starting"}}

\* What a worker must see to leave its loop when it is not extra.
Over == closed /\ queue = <<>>

\* What a Resize call has read is what the pool was asked for, and never nothing.
Asked ==
    /\ desired > 0
    /\ \A r \in Resizers : resize[r].pc # "idle" => resize[r].from > 0

\* Until the channel is closed and drained nobody retires, and the goroutines
\* are as many as were asked for, but for the ones a Resize is about to start.
Manned ==
    ~ Over =>
        /\ live = Cardinality(Running)
        /\ \A w \in Workers : worker[w] # "leaving" /\ seen[w] <= desired
        /\ (\A r \in Resizers : resize[r].pc # "stored") => Cardinality(Started) = desired
        /\ \A r \in Resizers :
             /\ resize[r].pc = "loaded" => resize[r].from = desired
             /\ resize[r].pc = "stored" =>
                  resize[r].to = desired /\ Cardinality(Started) = resize[r].from

\* What StopWait knows at its last two steps.
Joined ==
    \A s \in Stoppers :
        /\ stop[s] \in {"joining", "finished"} => closed
        /\ stop[s] = "finished" => queue = <<>> /\ \A w \in Workers : job[w] \notin Jobs

\* A job that was sent is in the channel, with a worker, or answered.
Placed ==
    \A j \in Jobs : call[j] \in {"sent", "accepted"} => Outstanding(j) \/ result[j] # "none"

DrainInv == TypeOK /\ Asked /\ Manned /\ Joined /\ Placed

\* The sets of goroutines are finite, and the counted ones are among the started.
LEMMA CrewSize ==
    /\ IsFiniteSet(Running) /\ IsFiniteSet(Started)
    /\ Cardinality(Running) \in Nat /\ Cardinality(Started) \in Nat
    /\ Cardinality(Running) <= Cardinality(Started)
  <1>1. Running \subseteq Started /\ Started \subseteq Workers
    BY DEF Running, Started
  <1>2. IsFiniteSet(Started)
    BY <1>1, PoolAssumption, FS_Subset
  <1>3. IsFiniteSet(Running) /\ Cardinality(Running) <= Cardinality(Started)
    BY <1>1, <1>2, FS_Subset
  <1> QED
    BY <1>2, <1>3, FS_CardinalityType

\* Submit, cancellation and StopWait leave the goroutines and their counters alone.
LEMMA CallersKeepCrew ==
    ASSUME \/ \E j \in Jobs : SubmitStep(j) \/ CancelJob(j)
           \/ \E s \in Stoppers : StopEnters(s) \/ StopStep(s)
    PROVE  UNCHANGED <<worker, job, seen, live, desired, resize>>
  <1> USE DEF pool, crew, jobs, others, counts
  <1>1. ASSUME NEW j \in Jobs, SubmitStep(j) \/ CancelJob(j)
        PROVE  UNCHANGED <<worker, job, seen, live, desired, resize>>
    BY <1>1 DEF SubmitStep, CheckState, Enqueue, SendPanics, SubmitCancelled, CountSubmitted,
                WaitReturns, CancelJob
  <1>2. ASSUME NEW s \in Stoppers, StopEnters(s) \/ StopStep(s)
        PROVE  UNCHANGED <<worker, job, seen, live, desired, resize>>
    BY <1>2 DEF StopEnters, StopStep, StopChecks, StopCloses, StopJoins
  <1> QED
    BY <1>1, <1>2

\* Workers and Resize calls do not close the channel or add to it.
LEMMA CrewKeepsChannel ==
    ASSUME TypeOK,
           \/ \E w \in Workers : WorkerStep(w)
           \/ \E r \in Resizers : ResizeLoad(r) \/ ResizeStep(r)
    PROVE  closed' = closed /\ (queue = <<>> => queue' = <<>>)
  <1> USE DEF pool, crew, jobs, others, counts
  <1>1. ASSUME NEW w \in Workers, WorkerStep(w)
        PROVE  closed' = closed /\ (queue = <<>> => queue' = <<>>)
    BY <1>1 DEF WorkerStep, StartWorker, Take, Deliver, MarkDone, LoadLive, Compare, RangeEnds, Leave
  <1>2. ASSUME NEW r \in Resizers, ResizeLoad(r) \/ ResizeStep(r)
        PROVE  closed' = closed /\ (queue = <<>> => queue' = <<>>)
    BY <1>2 DEF ResizeLoad, ResizeStep, ResizeStore, ResizeStart
  <1> QED
    BY <1>1, <1>2

\* A closed channel stays closed, and nothing is put into it.
LEMMA OverStays ==
    ASSUME TypeOK, [Next]_vars
    PROVE  (closed => closed') /\ (Over => Over')
  <1> USE DEF pool, crew, jobs, others, counts, Over
  <1>1. ASSUME NEW j \in Jobs, SubmitStep(j) \/ CancelJob(j)
        PROVE  closed' = closed /\ (Over => Over')
    BY <1>1 DEF SubmitStep, CheckState, Enqueue, SendPanics, SubmitCancelled, CountSubmitted,
                WaitReturns, CancelJob
  <1>2. ASSUME NEW s \in Stoppers, StopEnters(s) \/ StopStep(s)
        PROVE  (closed => closed') /\ (Over => Over')
    BY <1>2 DEF StopEnters, StopStep, StopChecks, StopCloses, StopJoins
  <1> QED
    BY <1>1, <1>2, CrewKeepsChannel DEF Next, vars

\* A worker's step keeps the crew complete: it is not extra, so it goes on.
LEMMA WorkerKeepsManned ==
    ASSUME TypeOK, Grows, Manned, NEW w \in Workers, WorkerStep(w), ~ Over
    PROVE  Manned'
  <1> USE DEF pool, crew, jobs, others, counts
  <1>0. /\ live = Cardinality(Running)
        /\ \A v \in Workers : worker[v] # "leaving" /\ seen[v] <= desired
        /\ (\A r \in Resizers : resize[r].pc # "stored") => Cardinality(Started) = desired
        /\ \A r \in Resizers :
             /\ resize[r].pc = "loaded" => resize[r].from = desired
             /\ resize[r].pc = "stored" =>
                  resize[r].to = desired /\ Cardinality(Started) = resize[r].from
    BY DEF Manned
  <1>1. live <= desired
    <2>1. CASE \A r \in Resizers : resize[r].pc # "stored"
      BY <1>0, <2>1, CrewSize DEF TypeOK
    <2>2. CASE \E r \in Resizers : resize[r].pc = "stored"
      <3>1. PICK r \in Resizers : resize[r].pc = "stored"
        BY <2>2
      <3>2. resize[r].from \in Nat /\ resize[r].to \in Nat /\ resize[r].from <= resize[r].to
        BY DEF TypeOK, Grows
      <3>3. Cardinality(Started) <= desired
        BY <1>0, <3>1, <3>2
      <3> QED
        BY <1>0, <3>3, CrewSize DEF TypeOK
    <2> QED
      BY <2>1, <2>2
  <1>2. /\ UNCHANGED <<desired, resize>>
        /\ \A v \in Workers : v # w => worker'[v] = worker[v] /\ seen'[v] = seen[v]
        /\ worker[w] # "none" /\ worker'[w] # "none"
        /\ worker'[w] # "leaving"
        /\ seen'[w] \in {seen[w], live, 0}
    <2>1. worker[w] # "leaving" /\ ~ (seen[w] > desired)
      BY <1>0 DEF TypeOK
    <2> QED
      BY <2>1 DEF WorkerStep, StartWorker, Take, Deliver, MarkDone, LoadLive, Compare, RangeEnds,
                  Leave, Over, TypeOK, Holding
  <1>3. Started' = Started
    BY <1>2 DEF Started
  <1>4. \A v \in Workers : worker'[v] # "leaving" /\ seen'[v] <= desired'
    BY <1>0, <1>1, <1>2 DEF TypeOK
  <1>5. live' = Cardinality(Running')
    <2>1. CASE StartWorker(w)
      <3>1. w \notin Running /\ Running' = Running \cup {w}
        BY <2>1, <1>2 DEF StartWorker, Running, TypeOK
      <3>2. Cardinality(Running') = Cardinality(Running) + 1
        BY <3>1, CrewSize, FS_AddElement
      <3> QED
        BY <1>0, <2>1, <3>2 DEF StartWorker
    <2>2. CASE ~ StartWorker(w)
      <3>1. worker[w] # "starting" /\ worker'[w] # "starting" /\ live' = live
        BY <2>2, <1>0 DEF WorkerStep, Take, Deliver, MarkDone, LoadLive, Compare, RangeEnds, Leave,
                          TypeOK, Holding
      <3>2. Running' = Running
        BY <1>2, <3>1 DEF Running
      <3> QED
        BY <1>0, <3>1, <3>2
    <2> QED
      BY <2>1, <2>2
  <1>6. /\ (\A r \in Resizers : resize'[r].pc # "stored") => Cardinality(Started') = desired'
        /\ \A r \in Resizers :
             /\ resize'[r].pc = "loaded" => resize'[r].from = desired'
             /\ resize'[r].pc = "stored" =>
                  resize'[r].to = desired' /\ Cardinality(Started') = resize'[r].from
    BY <1>0, <1>2, <1>3
  <1> QED
    BY <1>4, <1>5, <1>6 DEF Manned

\* The steps of a Resize that grows the pool, the only one there is: it starts
\* the difference between what it stored and what it read.
LEMMA ResizeKeepsManned ==
    ASSUME OneResizer, TypeOK, Grows, Manned, NEW r \in Resizers,
           ResizeLoad(r) \/ ResizeStep(r), ~ Over
    PROVE  Manned'
  <1> USE DEF pool, crew, jobs, others, counts
  <1>0. /\ live = Cardinality(Running)
        /\ \A v \in Workers : worker[v] # "leaving" /\ seen[v] <= desired
        /\ resize[r].pc # "stored" => Cardinality(Started) = desired
        /\ resize[r].pc = "loaded" => resize[r].from = desired
        /\ resize[r].pc = "stored" =>
             resize[r].to = desired /\ Cardinality(Started) = resize[r].from
    BY DEF Manned, OneResizer
  <1>1. /\ resize[r] \in [pc : {"idle", "loaded", "stored"}, to : Nat, from : Nat]
        /\ resize[r].from \in Nat /\ resize[r].to \in Nat
        /\ resize[r].from <= resize[r].to
    BY DEF TypeOK, Grows
  <1>2. ASSUME live' = Cardinality(Running'),
               \A v \in Workers : worker'[v] # "leaving" /\ seen'[v] <= desired',
               resize'[r].pc # "stored" => Cardinality(Started') = desired',
               resize'[r].pc = "loaded" => resize'[r].from = desired',
               resize'[r].pc = "stored" =>
                 resize'[r].to = desired' /\ Cardinality(Started') = resize'[r].from
        PROVE  Manned'
    BY <1>2 DEF Manned, OneResizer
  <1>3. CASE ResizeLoad(r)
    <2>1. /\ UNCHANGED <<worker, seen, live, desired>>
          /\ resize[r].pc = "idle"
          /\ resize'[r].pc = "loaded" /\ resize'[r].from = desired
      BY <1>3 DEF ResizeLoad, TypeOK
    <2>2. Started' = Started /\ Running' = Running
      BY <2>1 DEF Started, Running
    <2> QED
      BY <1>0, <1>2, <2>1, <2>2
  <1>4. CASE ResizeStore(r)
    <2>1. /\ UNCHANGED <<worker, seen, live>>
          /\ resize[r].pc = "loaded" /\ desired' = resize[r].to
          /\ resize' = [resize EXCEPT ![r].pc = IF resize[r].to > resize[r].from THEN "stored" ELSE "idle"]
      BY <1>4 DEF ResizeStore
    <2>2. /\ resize'[r].to = resize[r].to /\ resize'[r].from = resize[r].from
          /\ resize'[r].pc = IF resize[r].to > resize[r].from THEN "stored" ELSE "idle"
      BY <1>1, <2>1 DEF TypeOK
    <2>3. Started' = Started /\ Running' = Running
      BY <2>1 DEF Started, Running
    <2>4. \A v \in Workers : worker'[v] # "leaving" /\ seen'[v] <= desired'
      BY <1>0, <1>1, <2>1 DEF TypeOK
    <2> QED
      BY <1>0, <1>1, <1>2, <2>1, <2>2, <2>3, <2>4
  <1>5. CASE ResizeStart(r)
    <2>1. PICK new \in SUBSET {w \in Workers : worker[w] = "none"} :
             /\ Cardinality(new) = resize[r].to - resize[r].from
             /\ worker' = [w \in Workers |-> IF w \in new THEN "starting" ELSE worker[w]]
      BY <1>5 DEF ResizeStart
    <2>2. /\ UNCHANGED <<seen, live, desired>>
          /\ resize[r].pc = "stored" /\ resize'[r].pc = "idle"
      BY <1>1, <1>5 DEF ResizeStart, TypeOK
    <2>3. Started' = Started \cup new /\ Started \cap new = {} /\ Running' = Running
      BY <2>1 DEF Started, Running
    <2>4. IsFiniteSet(new)
      BY <2>1, PoolAssumption, FS_Subset
    <2>5. Cardinality(Started \cup new) = Cardinality(Started) + Cardinality(new) - Cardinality(Started \cap new)
      BY <2>4, CrewSize, FS_Union
    <2>6. Cardinality(Started') = desired'
      <3>1. Cardinality(Started \cap new) = 0
        BY <2>3, FS_EmptySet
      <3>2. Cardinality(Started) = resize[r].from /\ resize[r].to = desired
        BY <1>0, <2>2
      <3>3. Cardinality(Started \cup new) = resize[r].from + (resize[r].to - resize[r].from) - 0
        BY <2>1, <2>5, <3>1, <3>2
      <3> QED
        BY <1>1, <2>2, <2>3, <3>2, <3>3
    <2>7. \A v \in Workers : worker'[v] # "leaving" /\ seen'[v] <= desired'
      BY <1>0, <2>1, <2>2 DEF TypeOK
    <2> QED
      BY <1>0, <1>2, <2>2, <2>3, <2>6, <2>7
  <1> QED
    BY <1>3, <1>4, <1>5 DEF ResizeStep

\* What a Resize call has read is positive, and so is what it stores.
LEMMA AskedStep ==
    ASSUME TypeOK, Grows, Asked, [Next]_vars
    PROVE  Asked'
  <1> USE DEF pool, crew, jobs, others, counts
  <1>1. ASSUME UNCHANGED <<desired, resize>> PROVE Asked'
    BY <1>1 DEF Asked
  <1>2. ASSUME NEW w \in Workers, WorkerStep(w) PROVE UNCHANGED <<desired, resize>>
    BY <1>2 DEF WorkerStep, StartWorker, Take, Deliver, MarkDone, LoadLive, Compare, RangeEnds, Leave
  <1>3. ASSUME NEW r \in Resizers, ResizeLoad(r) PROVE Asked'
    BY <1>3 DEF ResizeLoad, Asked, TypeOK
  <1>4. ASSUME NEW r \in Resizers, ResizeStore(r) PROVE Asked'
    <2>1. /\ resize[r] \in [pc : {"idle", "loaded", "stored"}, to : Nat, from : Nat]
          /\ resize[r].pc = "loaded" /\ resize[r].from <= resize[r].to
      BY <1>4 DEF ResizeStore, TypeOK, Grows
    <2>2. desired' > 0
      BY <1>4, <2>1 DEF ResizeStore, Asked
    <2>3. \A q \in Resizers : resize'[q].pc # "idle" => resize[q].pc # "idle" /\ resize'[q].from = resize[q].from
      BY <1>4, <2>1 DEF ResizeStore, TypeOK
    <2> QED
      BY <2>2, <2>3 DEF Asked
  <1>5. ASSUME NEW r \in Resizers, ResizeStart(r) PROVE Asked'
    <2>1. \A q \in Resizers : resize'[q].pc # "idle" => resize[q].pc # "idle" /\ resize'[q].from = resize[q].from
      BY <1>5 DEF ResizeStart, TypeOK
    <2> QED
      BY <1>5, <2>1 DEF Asked, ResizeStart
  <1> QED
    BY <1>1, <1>2, <1>3, <1>4, <1>5, CallersKeepCrew DEF Next, ResizeStep, vars

\* The crew is complete while there is anything to do.
LEMMA MannedStep ==
    ASSUME OneResizer, TypeOK, Grows, Manned, [Next]_vars
    PROVE  Manned'
  <1> SUFFICES ASSUME ~ Over' PROVE Manned'
    BY DEF Manned
  <1> ~ Over
    BY OverStays
  <1>1. ASSUME UNCHANGED <<worker, seen, live, desired, resize>> PROVE Manned'
    <2>1. Started' = Started /\ Running' = Running
      BY <1>1 DEF Started, Running
    <2> QED
      BY <1>1, <2>1 DEF Manned
  <1>2. CASE UNCHANGED vars
    BY <1>1, <1>2 DEF vars, pool, crew, others
  <1>3. CASE Next
    BY <1>1, <1>3, CallersKeepCrew, WorkerKeepsManned, ResizeKeepsManned DEF Next
  <1> QED
    BY <1>2, <1>3

\* A crew that has all ended has left a closed and empty channel behind.
LEMMA NoneLeftIsOver ==
    ASSUME OneResizer, TypeOK, Asked, Manned, \A w \in Workers : worker[w] = "none"
    PROVE  Over
  <1> SUFFICES ASSUME ~ Over PROVE FALSE
    OBVIOUS
  <1>1. Started = {}
    BY DEF Started
  <1>2. Cardinality(Started) = 0
    BY <1>1, FS_EmptySet
  <1>3. CASE \A r \in Resizers : resize[r].pc # "stored"
    BY <1>2, <1>3 DEF Manned, Asked
  <1>4. CASE \E r \in Resizers : resize[r].pc = "stored"
    BY <1>2, <1>4 DEF Manned, Asked
  <1> QED
    BY <1>3, <1>4

\* StopWait goes on to its last steps only when the channel is closed and empty.
LEMMA JoinedStep ==
    ASSUME OneResizer, TypeOK, TypeOK', Asked, Manned, Joined, [Next]_vars
    PROVE  Joined'
  <1> USE DEF pool, crew, jobs, others, counts
  <1>1. ASSUME NEW s \in Stoppers, stop'[s] \in {"joining", "finished"}, stop'[s] # stop[s]
        PROVE  StopCloses(s) \/ StopJoins(s)
    <2>1. ASSUME NEW w \in Workers, WorkerStep(w) PROVE FALSE
      BY <1>1, <2>1 DEF WorkerStep, StartWorker, Take, Deliver, MarkDone, LoadLive, Compare, RangeEnds, Leave
    <2>2. ASSUME NEW j \in Jobs, SubmitStep(j) \/ CancelJob(j) PROVE FALSE
      BY <1>1, <2>2 DEF SubmitStep, CheckState, Enqueue, SendPanics, SubmitCancelled, CountSubmitted,
                  WaitReturns, CancelJob
    <2>3. ASSUME NEW r \in Resizers, ResizeLoad(r) \/ ResizeStep(r) PROVE FALSE
      BY <1>1, <2>3 DEF ResizeLoad, ResizeStep, ResizeStore, ResizeStart
    <2>4. PICK t \in Stoppers : StopEnters(t) \/ StopStep(t)
      BY <1>1, <2>1, <2>2, <2>3 DEF Next, vars
    <2> QED
      BY <1>1, <2>4 DEF StopEnters, StopStep, StopChecks, StopCloses, StopJoins, TypeOK
  <1>2. ASSUME NEW s \in Stoppers, stop'[s] \in {"joining", "finished"} PROVE closed'
    BY <1>1, <1>2, OverStays DEF Joined, StopCloses, StopJoins
  <1>3. ASSUME NEW s \in Stoppers, stop'[s] = "finished"
        PROVE  queue' = <<>> /\ \A w \in Workers : job'[w] \notin Jobs
    <2>1. CASE stop[s] = "finished"
      <3>1. closed /\ queue = <<>> /\ \A w \in Workers : job[w] \notin Jobs
        BY <2>1 DEF Joined
      <3>2. ASSUME NEW w \in Workers, WorkerStep(w) PROVE \A v \in Workers : job'[v] \notin Jobs
        BY <3>1, <3>2, PoolAssumption
           DEF WorkerStep, StartWorker, Take, Deliver, MarkDone, LoadLive, Compare, RangeEnds, Leave, TypeOK
      <3>3. ASSUME NEW r \in Resizers, ResizeLoad(r) \/ ResizeStep(r) PROVE job' = job
        BY <3>3 DEF ResizeLoad, ResizeStep, ResizeStore, ResizeStart
      <3>4. \A w \in Workers : job'[w] \notin Jobs
        BY <3>1, <3>2, <3>3, CallersKeepCrew DEF Next, vars
      <3> QED
        BY <3>1, <3>4, OverStays DEF Over
    <2>2. CASE stop[s] # "finished"
      <3>1. StopJoins(s)
        BY <1>1, <1>3, <2>2 DEF StopCloses, TypeOK
      <3>2. Over
        BY <3>1, NoneLeftIsOver DEF StopJoins
      <3>3. \A w \in Workers : worker'[w] = "none"
        BY <3>1 DEF StopJoins
      <3> QED
        BY <3>1, <3>2, <3>3 DEF StopJoins, Over, TypeOK, Holding
    <2> QED
      BY <2>1, <2>2
  <1> QED
    BY <1>2, <1>3 DEF Joined

\* A job that reached the channel is not lost on its way to a result.
LEMMA PlacedStep ==
    ASSUME TypeOK, TypeOK', Placed, [Next]_vars
    PROVE  Placed'
  <1> SUFFICES ASSUME NEW j \in Jobs, call'[j] \in {"sent", "accepted"}, result'[j] = "none"
               PROVE  Outstanding(j)'
    BY DEF Placed
  <1> USE DEF pool, crew, jobs, others, counts
  <1>1. CASE UNCHANGED <<queue, job, call, result>>
    BY <1>1 DEF Placed, Outstanding
  <1>2. ASSUME NEW i \in Jobs, Enqueue(i) PROVE Outstanding(j)'
    <2>1. queue \in Seq(Jobs) /\ queue' = Append(queue, i) /\ UNCHANGED <<job, result>>
      BY <1>2 DEF Enqueue, TypeOK
    <2>2. /\ Len(queue') = Len(queue) + 1 /\ queue'[Len(queue) + 1] = i
          /\ \A k \in 1..Len(queue) : queue'[k] = queue[k] /\ k \in 1..Len(queue')
      BY <2>1
    <2>3. CASE i = j
      BY <2>1, <2>2, <2>3 DEF Outstanding
    <2>4. CASE i # j
      <3>1. call[j] \in {"sent", "accepted"} /\ result[j] = "none"
        BY <1>2, <2>4 DEF Enqueue, TypeOK
      <3>2. Outstanding(j)
        BY <3>1 DEF Placed
      <3> QED
        BY <2>1, <2>2, <3>2 DEF Outstanding
    <2> QED
      BY <2>3, <2>4
  <1>3. ASSUME NEW i \in Jobs, CheckState(i) \/ SendPanics(i) \/ SubmitCancelled(i) \/ CountSubmitted(i)
                                 \/ WaitReturns(i) \/ CancelJob(i)
        PROVE  Outstanding(j)'
    <2>1. UNCHANGED <<queue, job, result>>
      BY <1>3 DEF CheckState, SendPanics, SubmitCancelled, CountSubmitted, WaitReturns, CancelJob
    <2>2. call[j] \in {"sent", "accepted"}
      BY <1>3 DEF CheckState, SendPanics, SubmitCancelled, CountSubmitted, WaitReturns, CancelJob, TypeOK
    <2> QED
      BY <2>1, <2>2 DEF Placed, Outstanding
  <1>4. ASSUME NEW w \in Workers, Take(w) PROVE Outstanding(j)'
    <2>1. /\ queue \in Seq(Jobs) /\ queue # <<>> /\ queue' = Tail(queue)
          /\ job' = [job EXCEPT ![w] = Head(queue)] /\ UNCHANGED <<call, result>>
          /\ worker[w] \notin Holding
      BY <1>4 DEF Take, TypeOK, Holding
    <2>2. Outstanding(j)
      BY <2>1 DEF Placed
    <2>3. ASSUME NEW v \in Workers, job[v] = j PROVE Outstanding(j)'
      <3>1. v # w
        BY <2>1, <2>3 DEF TypeOK
      <3> QED
        BY <2>1, <2>3, <3>1 DEF Outstanding, TypeOK
    <2>4. ASSUME NEW k \in 1..Len(queue), queue[k] = j PROVE Outstanding(j)'
      <3>1. CASE k = 1
        <4>1. job'[w] = j
          BY <2>1, <2>4, <3>1 DEF TypeOK
        <4> QED
          BY <4>1 DEF Outstanding
      <3>2. CASE k # 1
        <4>1. k - 1 \in 1..Len(queue') /\ queue'[k - 1] = queue[k]
          BY <2>1, <3>2
        <4> QED
          BY <2>4, <4>1 DEF Outstanding
      <3> QED
        BY <3>1, <3>2
    <2> QED
      BY <2>2, <2>3, <2>4 DEF Outstanding
  <1>5. ASSUME NEW w \in Workers, Deliver(w) PROVE Outstanding(j)'
    <2>1. /\ UNCHANGED <<queue, call>> /\ job' = [job EXCEPT ![w] = NoJob]
          /\ \A i \in Jobs \ {job[w]} : result'[i] = result[i]
          /\ result'[job[w]] # "none" /\ job[w] \in Jobs
      BY <1>5 DEF Deliver, TypeOK, Holding
    <2>2. j # job[w]
      BY <2>1
    <2>3. Outstanding(j)
      BY <2>1, <2>2 DEF Placed
    <2> QED
      BY <2>1, <2>2, <2>3 DEF Outstanding, TypeOK
  <1>6. ASSUME NEW w \in Workers,
               StartWorker(w) \/ MarkDone(w) \/ LoadLive(w) \/ Compare(w) \/ RangeEnds(w) \/ Leave(w)
        PROVE  UNCHANGED <<queue, job, call, result>>
    BY <1>6 DEF StartWorker, MarkDone, LoadLive, Compare, RangeEnds, Leave
  <1>7. ASSUME NEW s \in Stoppers, StopEnters(s) \/ StopStep(s)
        PROVE  UNCHANGED <<queue, job, call, result>>
    BY <1>7 DEF StopEnters, StopStep, StopChecks, StopCloses, StopJoins
  <1>8. ASSUME NEW r \in Resizers, ResizeLoad(r) \/ ResizeStep(r)
        PROVE  UNCHANGED <<queue, job, call, result>>
    BY <1>8 DEF ResizeLoad, ResizeStep, ResizeStore, ResizeStart
  <1>9. CASE Next
    BY <1>1, <1>2, <1>3, <1>4, <1>5, <1>6, <1>7, <1>8, <1>9 DEF Next, SubmitStep, WorkerStep
  <1>10. CASE UNCHANGED vars
    BY <1>1, <1>10 DEF vars
  <1> QED
    BY <1>9, <1>10

\* The goroutines NewWorkerPool starts are the ones it is asked for.
LEMMA DrainInit == Init => DrainInv
  <1> SUFFICES ASSUME Init PROVE DrainInv
    OBVIOUS
  <1>1. IsFiniteSet(InitWorkers) /\ Cardinality(InitWorkers) \in Nat /\ Cardinality(InitWorkers) # 0
    BY PoolAssumption, FS_Subset, FS_CardinalityType, FS_EmptySet
  <1>2. Asked
    BY <1>1 DEF Init, Asked
  <1>3. Running = {} /\ Started = InitWorkers
    BY PoolAssumption DEF Init, Running, Started
  <1>4. Manned
    <2>1. live = Cardinality(Running) /\ Cardinality(Started) = desired
      BY <1>3, FS_EmptySet DEF Init
    <2>2. \A w \in Workers : worker[w] # "leaving" /\ seen[w] <= desired
      BY <1>1 DEF Init
    <2>3. \A r \in Resizers : resize[r].pc = "idle"
      BY DEF Init
    <2> QED
      BY <2>1, <2>2, <2>3 DEF Manned
  <1>5. Joined /\ Placed
    BY DEF Init, Joined, Placed
  <1> QED
    BY <1>2, <1>4, <1>5, InitTypes DEF DrainInv

\* When StopWait has returned, whatever was sent has its result.
LEMMA DrainedMeansDone == DrainInv => StopDrains
  <1> SUFFICES ASSUME DrainInv, NEW s \in Stoppers, stop[s] = "finished", NEW j \in Jobs
               PROVE  ~ Outstanding(j) /\ (call[j] \in {"sent", "accepted"} => result[j] # "none")
    BY DEF StopDrains
  <1>1. queue = <<>> /\ \A w \in Workers : job[w] \notin Jobs
    BY DEF DrainInv, Joined
  <1>2. ~ Outstanding(j)
    BY <1>1 DEF Outstanding
  <1> QED
    BY <1>2 DEF DrainInv, Placed

\* The invariant that shows it: no worker of a pool that only grows retires.
THEOREM DrainInvariance ==
    ASSUME OneResizer
    PROVE  Spec /\ []Grows => []DrainInv
  <1>1. Init => DrainInv
    BY DrainInit
  <1>2. DrainInv /\ Grows /\ [Next]_vars => DrainInv'
    BY NextTypes, AskedStep, MannedStep, JoinedStep, PlacedStep DEF DrainInv
  <1> QED
    BY <1>1, <1>2, PTL DEF Spec

\* When the StopWait that closes a pool has returned, nothing waits or runs and
\* every job that reached the channel has its result, for every number of jobs,
\* workers and stoppers and every capacity, in a pool that one caller resizes
\* and never to fewer workers (workerpool.go:209).
THEOREM StopWaitDrains ==
    ASSUME OneResizer
    PROVE  Spec /\ []Grows => []StopDrains
  BY DrainInvariance, DrainedMeansDone, PTL

-------------------------------------------------------------------------------
(* The callers in the repository resize a pool to the one size their           *)
(* configuration gives it.                                                     *)

\* One size is ever asked for, and the pool is not started with more workers.
OneSize == \E n \in Nat : Sizes = {n} /\ Cardinality(InitWorkers) <= n

\* What has been read or stored is at most that size, and a Resize in progress asks for it.
Bounded(n) ==
    /\ desired <= n
    /\ \A r \in Resizers : /\ resize[r].from <= resize[r].to
                           /\ resize[r].to <= n
                           /\ resize[r].pc # "idle" => resize[r].to = n

\* A pool that is only asked for one size never shrinks.
THEOREM OneSizeGrows ==
    ASSUME OneSize
    PROVE  Spec => []Grows
  <1> PICK n \in Nat : Sizes = {n} /\ Cardinality(InitWorkers) <= n
    BY DEF OneSize
  <1> USE DEF pool, crew, jobs, others, counts
  <1>1. Init => TypeOK /\ Bounded(n)
    BY InitTypes DEF Init, Bounded
  <1>2. ASSUME TypeOK, Bounded(n), [Next]_vars PROVE Bounded(n)'
    <2>1. ASSUME UNCHANGED <<desired, resize>> PROVE Bounded(n)'
      BY <1>2, <2>1 DEF Bounded
    <2>2. ASSUME NEW w \in Workers, WorkerStep(w) PROVE UNCHANGED <<desired, resize>>
      BY <2>2 DEF WorkerStep, StartWorker, Take, Deliver, MarkDone, LoadLive, Compare, RangeEnds, Leave
    <2>3. ASSUME NEW r \in Resizers, ResizeLoad(r) PROVE Bounded(n)'
      BY <1>2, <2>3 DEF ResizeLoad, Bounded, TypeOK
    <2>4. ASSUME NEW r \in Resizers, ResizeStore(r) PROVE Bounded(n)'
      <3>1. desired' <= n
        BY <1>2, <2>4 DEF ResizeStore, Bounded
      <3>2. \A q \in Resizers : /\ resize'[q].to = resize[q].to /\ resize'[q].from = resize[q].from
                                /\ resize'[q].pc # "idle" => resize[q].pc # "idle"
        BY <1>2, <2>4 DEF ResizeStore, TypeOK
      <3> QED
        BY <1>2, <3>1, <3>2 DEF Bounded
    <2>5. ASSUME NEW r \in Resizers, ResizeStart(r) PROVE Bounded(n)'
      <3>1. \A q \in Resizers : /\ resize'[q].to = resize[q].to /\ resize'[q].from = resize[q].from
                                /\ resize'[q].pc # "idle" => resize[q].pc # "idle"
        BY <1>2, <2>5 DEF ResizeStart, TypeOK
      <3> QED
        BY <1>2, <2>5, <3>1 DEF Bounded, ResizeStart
    <2> QED
      BY <1>2, <2>1, <2>2, <2>3, <2>4, <2>5, CallersKeepCrew DEF Next, ResizeStep, vars
  <1>3. Bounded(n) => Grows
    BY DEF Bounded, Grows
  <1> QED
    BY <1>1, <1>2, <1>3, NextTypes, PTL DEF Spec

\* A pool that one caller resizes, to the one size its configuration has, drains
\* at StopWait.
THEOREM ConfiguredPool ==
    ASSUME OneResizer, OneSize
    PROVE  Spec => []StopDrains
  BY OneSizeGrows, StopWaitDrains, PTL

===============================================================================
