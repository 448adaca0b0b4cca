--------------------- MODULE IngestionTaskServiceProofs ---------------------
(***************************************************************************)
(* What holds of IngestionTaskService for every set of tasks, documents,   *)
(* requests and processes and every bound: types, one row per document, no *)
(* forgotten CREATED row, and that the table implements TaskStatus.        *)
(*                                                                         *)
(* The invariants of the table are inductive only together with what each  *)
(* call in progress knows (CallOK): a compare-and-swap is about to make a  *)
(* legal transition, only a re-enqueue writes CREATED, a rollback restores *)
(* a retryable status, and a process that has not started its task yet is  *)
(* still inside StartRunning.                                              *)
(***************************************************************************)
EXTENDS IngestionTaskService, TLAPS

\* Steps at which a call works on a task, and on a document.
TaskPC == {"get", "read", "cas", "work", "settle", "publish", "undo",
           "delread", "delete"}
DocPC  == {"check", "purge", "lookup", "lookup2", "insert"}

CallOK(a, c) ==
    /\ c.pc \in TaskPC => c.task \in Tasks
    /\ c.pc \in DocPC => c.doc \in Docs
    /\ c.pc = "cas" => CanMove(c.from, c.to)
    /\ c.pc = "read" /\ c.op # "retry" => c.to # "CREATED"
    /\ c.pc = "cas" /\ c.to = "CREATED" => c.op = "retry"
    /\ c.op = "retry" => a \in Users /\ c.orig \in Retryable
    /\ c.pc \in {"publish", "insert", "lookup2"} => a \in Users
    /\ c.pc \in {"insert", "lookup2"} => c.op = "create"
    /\ c.pc = "undo" => c.orig \in Retryable
    /\ c.op = "start" => c.pc \in {"get", "read", "cas"} /\ a \in Procs

CallsOK == \A a \in Actors : CallOK(a, call[a])

IInv == TypeOK /\ CallsOK /\ OneRowPerDocument /\ CreatedIsQueued

-----------------------------------------------------------------------------
\* The vocabulary, expanded once.
LEMMA StatusFacts ==
    /\ Terminal \subseteq RowStatus
    /\ Executing \subseteq RowStatus
    /\ Retryable \subseteq Terminal
    /\ RowStatus \subseteq Status
    /\ "CREATED" \in RowStatus
    /\ "CREATED" \notin Terminal \cup Executing
    /\ Terminal \cap Executing = {}
    /\ "FRESH" \in Status \ RowStatus
    /\ "GONE" \in Status \ RowStatus
    /\ "none" \notin Status
BY DEF Terminal, Executing, RowStatus, Status, Retryable

\* validateTransition only relates statuses a row can have.
LEMMA MoveFacts ==
    ASSUME NEW from, NEW to, CanMove(from, to)
    PROVE  from \in RowStatus /\ to \in RowStatus
BY DEF CanMove, Terminal, Executing, RowStatus, Retryable

\* Idle is a call, and so is one made from it.
LEMMA IdleCall == Idle \in Call /\ \A a : CallOK(a, Idle)
BY ServiceAssumption DEF Idle, Call, CallOK, TaskPC, DocPC, Status, ProcOps

\* Changing the call of one actor to a proper one keeps all of them proper.
LEMMA CallUpdate ==
    ASSUME TypeOK, CallsOK, NEW a \in Actors, NEW c \in Call, CallOK(a, c),
           call' = [call EXCEPT ![a] = c]
    PROVE  call' \in [Actors -> Call] /\ CallsOK'
<1>1. call' \in [Actors -> Call]
  BY DEF TypeOK
<1>2. \A b \in Actors : call'[b] = IF b = a THEN c ELSE call[b]
  BY DEF TypeOK
<1>3. \A b \in Actors : CallOK(b, call'[b])
  BY <1>2 DEF CallsOK
<1> QED
  BY <1>1, <1>3 DEF CallsOK, CallOK

\* The target of a service operation is a status that an update may write.
LEMMA TargetFacts ==
    ASSUME NEW op, NEW s
    PROVE  /\ Target(op, s) \in {"none"} \cup (RowStatus \ {"CREATED"})
           /\ op = "start" /\ s = "CREATED" => Target(op, s) = "RUNNING"
BY DEF Target, StartRunningTarget, RequestStopTarget, MarkTarget, RowStatus,
       Executing, Terminal

\* The continuation of a service call is a proper call.
LEMMA ContinueFacts ==
    ASSUME TypeOK, CallsOK, NEW a \in Actors,
           call[a].pc \in {"get", "read", "cas"},
           NEW outcome, NEW s
    PROVE  /\ Continue(a, outcome, s) \in Call
           /\ CallOK(a, Continue(a, outcome, s))
           /\ call[a].op = "retry" /\ outcome = "ok" =>
                /\ Continue(a, outcome, s).pc = "publish"
                /\ Continue(a, outcome, s).op = "retry"
                /\ Continue(a, outcome, s).task = call[a].task
<1> DEFINE c == call[a]
           R(op, pc) == [c EXCEPT !.op = op, !.pc = pc,
                                  !.from = "FRESH", !.to = "FRESH"]
<1>1. c \in Call /\ CallOK(a, c) /\ c.task \in Tasks
  BY DEF TypeOK, CallsOK, CallOK, TaskPC
<1>2. ASSUME NEW op \in ProcOps \ {"start"}, NEW pc \in {"get", "work", "settle"}
      PROVE  R(op, pc) \in Call /\ CallOK(a, R(op, pc))
  <2>1. R(op, pc) \in Call
    BY <1>1 DEF Call, Status
  <2>2. /\ R(op, pc).op = op /\ R(op, pc).pc = pc
        /\ R(op, pc).task = c.task
    BY <1>1 DEF Call
  <2>3. op \notin {"retry", "start"}
    BY DEF ProcOps
  <2> QED
    BY <1>1, <2>1, <2>2, <2>3 DEF CallOK, DocPC
<1>3. ASSUME c.op = "retry"
      PROVE  /\ R("retry", "publish") \in Call
             /\ CallOK(a, R("retry", "publish"))
             /\ R("retry", "publish").pc = "publish"
             /\ R("retry", "publish").op = "retry"
             /\ R("retry", "publish").task = c.task
  BY <1>1, <1>3 DEF Call, CallOK, TaskPC, DocPC, Status, ProcOps
<1>4. CASE c.op = "retry" /\ outcome = "ok"
  <2>1. Continue(a, outcome, s) = R("retry", "publish")
    BY <1>4 DEF Continue, ProcOps
  <2> QED
    BY <1>3, <1>4, <2>1
<1>5. CASE ~(c.op = "retry" /\ outcome = "ok")
  <2>1. Continue(a, outcome, s) \in
            {Idle, R("run", "work"), R("recheck", "get"), R("halt", "get"),
             R("haltstop", "get"), R("run", "settle")}
    BY <1>5 DEF Continue
  <2>2. /\ {"run", "recheck", "halt", "haltstop"} \subseteq ProcOps \ {"start"}
        /\ {"get", "work", "settle"} \subseteq {"get", "work", "settle"}
    BY DEF ProcOps
  <2> HIDE DEF R
  <2> QED
    BY <1>2, <1>5, <2>1, <2>2, IdleCall
<1> QED
  BY <1>4, <1>5

-----------------------------------------------------------------------------
\* Actor a, with call c, stands for the message of a CREATED row.
Keeps(a, c, t) ==
    /\ c.task = t
    /\ \/ a \in Procs /\ c.op = "start"
       \/ /\ a \in Users
          /\ c.op \in {"retry", "create"}
          /\ c.pc \in {"publish", "undo", "delread", "delete"}

\* CreatedIsQueued, with the quantifier and the cases spelt out.
LEMMA QueuedMeaning ==
    CreatedIsQueued <=>
        \A t \in Tasks : status[t] = "CREATED" =>
            \/ queue[t] > 0 \/ t \in stranded
            \/ \E a \in Actors : Keeps(a, call[a], t)
BY DEF CreatedIsQueued, Keeps, Starting, Enqueuing, Actors

\* The same for the next state.
LEMMA QueuedMeaningNext ==
    CreatedIsQueued' <=>
        \A t \in Tasks : status'[t] = "CREATED" =>
            \/ queue'[t] > 0 \/ t \in stranded'
            \/ \E a \in Actors : Keeps(a, call'[a], t)
BY DEF CreatedIsQueued, Keeps, Starting, Enqueuing, Actors

\* A step of actor a keeps CREATED rows queued when every row that is CREATED
\* after it has a message, is kept by a, or was CREATED without a's help.
LEMMA QueuedStep ==
    ASSUME TypeOK, CreatedIsQueued, StrandedKept, NEW a \in Actors, NEW c \in Call,
           call' = [call EXCEPT ![a] = c],
           queue' \in [Tasks -> Nat],
           \A t \in Tasks : status'[t] = "CREATED" =>
               \/ queue'[t] > 0
               \/ Keeps(a, c, t)
               \/ /\ status[t] = "CREATED"
                  /\ queue'[t] >= queue[t]
                  /\ ~Keeps(a, call[a], t)
    PROVE  CreatedIsQueued'
<1>1. \A b \in Actors : call'[b] = IF b = a THEN c ELSE call[b]
  BY DEF TypeOK
<1>2. ASSUME NEW t \in Tasks, status'[t] = "CREATED"
      PROVE  \/ queue'[t] > 0 \/ t \in stranded'
             \/ \E b \in Actors : Keeps(b, call'[b], t)
  <2>1. CASE queue'[t] > 0 \/ Keeps(a, c, t)
    BY <1>1, <2>1
  <2>2. CASE /\ status[t] = "CREATED"
             /\ queue'[t] >= queue[t]
             /\ ~Keeps(a, call[a], t)
    <3>1. CASE queue[t] > 0
      BY <2>2, <3>1 DEF TypeOK
    <3>2. CASE \E b \in Actors : Keeps(b, call[b], t)
      <4>1. PICK b \in Actors : Keeps(b, call[b], t)
        BY <3>2
      <4>2. call'[b] = call[b]
        BY <1>1, <2>2, <4>1
      <4> QED
        BY <4>1, <4>2
    <3>3. CASE t \in stranded
      BY <1>2, <3>3 DEF StrandedKept
    <3> QED
      BY <2>2, <3>1, <3>2, <3>3, QueuedMeaning
  <2> QED
    BY <1>2, <2>1, <2>2
<1> QED
  BY <1>2, QueuedMeaningNext

\* A step that brings no row into the table keeps documents' rows unique.
LEMMA RowsKept ==
    ASSUME OneRowPerDocument,
           \A t \in Tasks : status'[t] \in RowStatus => status[t] \in RowStatus
    PROVE  OneRowPerDocument'
BY DEF OneRowPerDocument, RowsOf, Exists

\* What Goto and the end of a service call change.
LEMMA GotoStep ==
    ASSUME IInv, NEW a \in Actors, NEW c \in Call, CallOK(a, c), Goto(a, c)
    PROVE  /\ call' \in [Actors -> Call] /\ CallsOK'
           /\ call' = [call EXCEPT ![a] = c]
BY CallUpdate DEF IInv, Goto

\* The end of a service call: the queue never shrinks, and a StartRunning that
\* failed has put its message back.
LEMMA FinishStep ==
    ASSUME IInv, NEW a \in Actors, call[a].pc \in {"get", "read", "cas"},
           NEW outcome, NEW s, Finish(a, outcome, s)
    PROVE  /\ call' \in [Actors -> Call] /\ CallsOK'
           /\ Continue(a, outcome, s) \in Call
           /\ call' = [call EXCEPT ![a] = Continue(a, outcome, s)]
           /\ queue' \in [Tasks -> Nat]
           /\ \A t \in Tasks : queue'[t] >= queue[t]
           /\ call[a].op = "start" /\ outcome = "error" => queue'[call[a].task] > 0
<1>1. /\ Continue(a, outcome, s) \in Call
      /\ CallOK(a, Continue(a, outcome, s))
  BY ContinueFacts DEF IInv
<1>2. /\ call' \in [Actors -> Call] /\ CallsOK'
      /\ call' = [call EXCEPT ![a] = Continue(a, outcome, s)]
  BY <1>1, GotoStep DEF Finish
<1>3. call[a].task \in Tasks /\ queue \in [Tasks -> Nat]
  BY DEF IInv, TypeOK, CallsOK, CallOK, TaskPC
<1>4. CASE call[a].op = "start" /\ outcome = "error"
  BY <1>1, <1>2, <1>3, <1>4 DEF Finish, NackIfStartFailed, Requeue
<1>5. CASE ~(call[a].op = "start" /\ outcome = "error")
  BY <1>1, <1>2, <1>3, <1>5 DEF Finish, NackIfStartFailed
<1> QED
  BY <1>4, <1>5

\* The changes of one row that TaskStatus allows.
TableAllows(from, to) ==
    \/ CanMove(from, to)
    \/ from = "CREATED" /\ to \in Retryable
    \/ from = "FRESH" /\ to = "CREATED"
    \/ from \in RowStatus /\ to = "GONE"

\* A status written along validateTransition, or by a re-enqueue or rollback,
\* is a step of the abstract table.
LEMMA TableMoves ==
    ASSUME NEW t \in Tasks, NEW to, SetStatus(t, to), TableAllows(status[t], to)
    PROVE  Table!Next
<1>1. CASE CanMove(status[t], to)
  <2>1. to \in Table!RowStatus
    BY <1>1, MoveFacts DEF RowStatus, Executing, Terminal, Table!RowStatus,
       Table!Executing, Table!Terminal
  <2>2. Table!Move(t, to)
    BY <1>1 DEF Table!Move, SetStatus, CanMove, Table!CanMove, Retryable,
       Table!Retryable
  <2> QED
    BY <2>1, <2>2 DEF Table!Next
<1>2. CASE status[t] = "CREATED" /\ to \in Retryable
  BY <1>2 DEF Table!Next, Table!Restore, SetStatus, Retryable, Table!Retryable,
     Table!RowStatus, Table!Terminal
<1>3. CASE status[t] = "FRESH" /\ to = "CREATED"
  BY <1>3 DEF Table!Next, Table!Create, SetStatus
<1>4. CASE status[t] \in RowStatus /\ to = "GONE"
  BY <1>4 DEF Table!Next, Table!Remove, SetStatus
<1> QED
  BY <1>1, <1>2, <1>3, <1>4 DEF TableAllows

\* A row that changes as TaskStatus allows keeps its type; unless it is
\* created, it was in the table before.
LEMMA SetStatusStep ==
    ASSUME IInv, NEW t \in Tasks, NEW to, SetStatus(t, to),
           TableAllows(status[t], to)
    PROVE  /\ status' \in [Tasks -> Status]
           /\ status' = [status EXCEPT ![t] = to]
           /\ status[t] # "FRESH" => OneRowPerDocument'
           /\ Table!Next
<1>1. to \in Status
  BY MoveFacts, StatusFacts DEF TableAllows
<1>2. status' = [status EXCEPT ![t] = to] /\ status \in [Tasks -> Status]
  BY DEF SetStatus, IInv, TypeOK
<1>3. ASSUME status[t] # "FRESH" PROVE OneRowPerDocument'
  <2>1. status[t] \in RowStatus
    BY <1>3, MoveFacts, StatusFacts DEF TableAllows
  <2>2. \A u \in Tasks : status'[u] \in RowStatus => status[u] \in RowStatus
    BY <1>2, <2>1
  <2> QED
    BY <2>2, RowsKept DEF IInv
<1> QED
  BY <1>1, <1>2, <1>3, TableMoves

\* A step that changes no row.
LEMMA StatusKept ==
    ASSUME IInv, UNCHANGED status
    PROVE  status' \in [Tasks -> Status] /\ OneRowPerDocument'
BY RowsKept DEF IInv, TypeOK

-----------------------------------------------------------------------------
\* The claim of every lemma about an action: the invariant is preserved and
\* the table takes a step of TaskStatus, or none.
Good == IInv' /\ [Table!Next]_status

\* The pattern all of them follow: actor a goes on with call d.
LEMMA StepGood ==
    ASSUME IInv, StrandedKept, NEW a \in Actors, NEW d \in Call, CallOK(a, d), Goto(a, d),
           queue' \in [Tasks -> Nat],
           status' \in [Tasks -> Status],
           OneRowPerDocument',
           [Table!Next]_status,
           \A t \in Tasks : status'[t] = "CREATED" =>
               \/ queue'[t] > 0
               \/ Keeps(a, d, t)
               \/ /\ status[t] = "CREATED"
                  /\ queue'[t] >= queue[t]
                  /\ ~Keeps(a, call[a], t)
    PROVE  Good
<1>1. /\ call' \in [Actors -> Call] /\ CallsOK'
      /\ call' = [call EXCEPT ![a] = d]
  BY GotoStep
<1>2. CreatedIsQueued'
  BY <1>1, QueuedStep DEF IInv
<1>3. stranded' \subseteq Tasks
  BY DEF StrandedKept, IInv, TypeOK
<1> QED
  BY <1>1, <1>2, <1>3 DEF Good, IInv, TypeOK

\* A step that changes nothing but the call of its actor.
LEMMA PlainStep ==
    ASSUME IInv, StrandedKept, NEW a \in Actors, NEW d \in Call, CallOK(a, d), Goto(a, d),
           UNCHANGED <<status, queue>>,
           \A t \in Tasks : status[t] = "CREATED" /\ Keeps(a, call[a], t)
                             => Keeps(a, d, t)
    PROVE  Good
<1>1. /\ status' = status /\ status' \in [Tasks -> Status]
      /\ OneRowPerDocument'
  BY StatusKept
<1>2. queue' = queue /\ queue' \in [Tasks -> Nat]
  BY DEF IInv, TypeOK
<1>3. \A t \in Tasks : queue'[t] >= queue[t]
  BY <1>2
<1>4. \A t \in Tasks : status'[t] = "CREATED" =>
          \/ Keeps(a, d, t)
          \/ /\ status[t] = "CREATED"
             /\ queue'[t] >= queue[t]
             /\ ~Keeps(a, call[a], t)
  BY <1>1, <1>3
<1> QED
  BY <1>1, <1>2, <1>4, StepGood

\* A service call that ends without a write forgets no CREATED row: a process
\* whose StartRunning failed gives its message back.
LEMMA FinishGood ==
    ASSUME IInv, StrandedKept, NEW a \in Actors, call[a].pc \in {"get", "read", "cas"},
           NEW outcome, NEW s, Finish(a, outcome, s), UNCHANGED status,
           \/ outcome = "error"
           \/ status[call[a].task] # "CREATED"
           \/ call[a].op # "start"
    PROVE  Good
<1> DEFINE c == call[a]
           d == Continue(a, outcome, s)
<1>1. d \in Call /\ CallOK(a, d) /\ Goto(a, d)
  BY ContinueFacts DEF IInv, Finish
<1>2. /\ queue' \in [Tasks -> Nat]
      /\ \A t \in Tasks : queue'[t] >= queue[t]
      /\ c.op = "start" /\ outcome = "error" => queue'[c.task] > 0
  BY FinishStep
<1>3. status' = status /\ status' \in [Tasks -> Status] /\ OneRowPerDocument'
  BY StatusKept
<1>4. \A t \in Tasks : status'[t] = "CREATED" =>
          queue'[t] > 0 \/ ~Keeps(a, c, t)
  BY <1>2, <1>3 DEF Keeps
<1> QED
  BY <1>1, <1>2, <1>3, <1>4, StepGood

-----------------------------------------------------------------------------
\* The first read of a service operation decides its target status, or ends it.
LEMMA GetTaskStep ==
    ASSUME IInv, StrandedKept, NEW a \in Actors, GetTask(a)
    PROVE  Good
<1> DEFINE c == call[a]
           s == status[c.task]
           to == Target(c.op, s)
           d == [c EXCEPT !.pc = "read", !.to = to]
<1>1. /\ c \in Call /\ CallOK(a, c) /\ c.task \in Tasks /\ c.pc = "get"
      /\ s \in Status
  BY DEF IInv, TypeOK, CallsOK, CallOK, TaskPC, GetTask, At
<1>2. CASE Finish(a, "missing", s) /\ s # "CREATED"
  BY <1>1, <1>2, FinishGood DEF GetTask
<1>3. CASE Finish(a, "ok", s) /\ to = "none"
  <2>1. s # "CREATED" \/ c.op # "start"
    BY <1>3, TargetFacts
  <2> QED
    BY <1>1, <1>3, <2>1, FinishGood DEF GetTask
<1>4. CASE to # "none" /\ UNCHANGED queue /\ Goto(a, d)
  <2>1. to \in Status /\ to # "CREATED"
    BY <1>4, TargetFacts, StatusFacts
  <2>2. /\ d \in Call /\ d.task = c.task /\ d.op = c.op /\ d.to = to
        /\ d.pc = "read" /\ d.orig = c.orig /\ d.doc = c.doc
    BY <1>1, <2>1 DEF Call
  <2>3. CallOK(a, d)
    BY <1>1, <2>1, <2>2 DEF CallOK, DocPC
  <2>4. \A t \in Tasks : Keeps(a, c, t) => Keeps(a, d, t)
    BY <1>1, <2>2 DEF Keeps
  <2> QED
    BY <1>4, <2>2, <2>3, <2>4, PlainStep DEF GetTask
<1> QED
  BY <1>2, <1>3, <1>4, StatusFacts DEF GetTask, Exists

\* The second read of transition, from which validateTransition decides.
LEMMA TransitionReadStep ==
    ASSUME IInv, StrandedKept, NEW a \in Actors, TransitionRead(a)
    PROVE  Good
<1> DEFINE c == call[a]
           s == status[c.task]
           d == [c EXCEPT !.pc = "cas", !.from = s]
<1>1. /\ c \in Call /\ CallOK(a, c) /\ c.task \in Tasks /\ c.pc = "read"
      /\ s \in Status
  BY DEF IInv, TypeOK, CallsOK, CallOK, TaskPC, TransitionRead, At
<1>2. CASE Finish(a, "missing", s) /\ s # "CREATED"
  BY <1>1, <1>2, FinishGood DEF TransitionRead
<1>3. CASE Finish(a, "error", s)
  BY <1>1, <1>3, FinishGood DEF TransitionRead
<1>4. CASE CanMove(s, c.to) /\ Goto(a, d) /\ UNCHANGED queue
  <2>1. /\ d \in Call /\ d.task = c.task /\ d.op = c.op /\ d.to = c.to
        /\ d.from = s /\ d.pc = "cas" /\ d.orig = c.orig /\ d.doc = c.doc
    BY <1>1 DEF Call
  <2>2. CallOK(a, d)
    BY <1>1, <1>4, <2>1 DEF CallOK, DocPC
  <2>3. \A t \in Tasks : Keeps(a, c, t) => Keeps(a, d, t)
    BY <1>1, <2>1 DEF Keeps
  <2> QED
    BY <1>4, <2>1, <2>2, <2>3, PlainStep DEF TransitionRead
<1> QED
  BY <1>2, <1>3, <1>4, StatusFacts DEF TransitionRead, Exists

\* The compare-and-swap either makes the validated transition or, another
\* actor having been faster, changes nothing.
LEMMA TransitionCASStep ==
    ASSUME IInv, StrandedKept, NEW a \in Actors, TransitionCAS(a)
    PROVE  Good
<1> DEFINE c == call[a]
           d == Continue(a, "ok", c.to)
<1>1. /\ c \in Call /\ CallOK(a, c) /\ c.task \in Tasks /\ c.pc = "cas"
  BY DEF IInv, TypeOK, CallsOK, CallOK, TaskPC, TransitionCAS, At
<1>2. CASE /\ UpdateStatusIfCurrent(c.task, c.from)
           /\ SetStatus(c.task, c.to)
           /\ Finish(a, "ok", c.to)
  <2>1. /\ CanMove(status[c.task], c.to) /\ status[c.task] # "FRESH"
        /\ TableAllows(status[c.task], c.to)
    BY <1>1, <1>2, MoveFacts, StatusFacts
       DEF UpdateStatusIfCurrent, CallOK, TableAllows
  <2>2. /\ status' \in [Tasks -> Status]
        /\ status' = [status EXCEPT ![c.task] = c.to]
        /\ OneRowPerDocument' /\ Table!Next
    BY <1>1, <1>2, <2>1, SetStatusStep
  <2>3. /\ d \in Call /\ CallOK(a, d) /\ Goto(a, d)
        /\ c.op = "retry" => d.pc = "publish" /\ d.task = c.task /\ d.op = "retry"
    BY <1>1, <1>2, ContinueFacts DEF IInv, Finish
  <2>4. /\ queue' \in [Tasks -> Nat]
        /\ \A t \in Tasks : queue'[t] >= queue[t]
    BY <1>1, <1>2, FinishStep
  <2>5. c.to = "CREATED" => Keeps(a, d, c.task)
    BY <1>1, <2>3 DEF CallOK, Keeps
  <2>6. \A t \in Tasks : status'[t] = "CREATED" =>
            Keeps(a, d, t) \/ (status[t] = "CREATED" /\ ~Keeps(a, c, t))
    BY <1>1, <2>2, <2>5 DEF Keeps, IInv, TypeOK
  <2> QED
    BY <2>2, <2>3, <2>4, <2>6, StepGood
<1>3. CASE ~UpdateStatusIfCurrent(c.task, c.from) /\ UNCHANGED status
  <2>1. PICK outcome \in {"error", "missing"} :
            /\ outcome = "missing" => ~Exists(c.task)
            /\ Finish(a, outcome, status[c.task])
    BY <1>3 DEF TransitionCAS
  <2>2. outcome = "missing" => status[c.task] # "CREATED"
    BY <2>1, StatusFacts DEF Exists
  <2> QED
    BY <1>1, <1>3, <2>1, <2>2, FinishGood
<1> QED
  BY <1>2, <1>3 DEF TransitionCAS

-----------------------------------------------------------------------------
\* A process: every message it takes off the queue is one it holds.
LEMMA ReceiveStep ==
    ASSUME IInv, StrandedKept, NEW p \in Procs, Receive(p)
    PROVE  Good
<1>1. PICK t \in Tasks :
        /\ queue[t] > 0
        /\ queue' = [queue EXCEPT ![t] = @ - 1]
        /\ Goto(p, TaskCall("start", "get", t))
  BY DEF Receive
<1> DEFINE d == TaskCall("start", "get", t)
<1>2. p \in Actors /\ p \notin Users /\ call[p].pc = "idle" /\ CallOK(p, call[p])
  BY ServiceAssumption DEF Actors, Receive, At, IInv, CallsOK
<1>3. /\ d \in Call /\ d.task = t /\ d.op = "start" /\ d.pc = "get"
  BY DEF TaskCall, Idle, Call, Status, ProcOps
<1>4. CallOK(p, d)
  BY <1>3 DEF CallOK, DocPC
<1>5. /\ queue' \in [Tasks -> Nat]
      /\ \A u \in Tasks : u # t => queue'[u] = queue[u]
  BY <1>1 DEF IInv, TypeOK
<1>6. /\ status' = status /\ status' \in [Tasks -> Status]
      /\ OneRowPerDocument'
  BY StatusKept DEF Receive
<1>7. \A u \in Tasks : ~Keeps(p, call[p], u)
  BY <1>2 DEF Keeps, CallOK
<1>8. Keeps(p, d, t)
  BY <1>3 DEF Keeps
<1>9. \A u \in Tasks : u # t => queue'[u] >= queue[u]
  BY <1>5 DEF IInv, TypeOK
<1> QED
  BY <1>1, <1>2, <1>3, <1>4, <1>5, <1>6, <1>7, <1>8, <1>9, StepGood

\* The run of a task ends in one of the Mark calls, or in none.
LEMMA RunTaskStep ==
    ASSUME IInv, StrandedKept, NEW p \in Procs, RunTask(p)
    PROVE  Good
<1> DEFINE c == call[p]
<1>1. /\ p \in Actors /\ p \notin Users /\ c \in Call /\ CallOK(p, c)
      /\ c.pc = "work" /\ c.op # "start" /\ c.op # "retry" /\ c.task \in Tasks
  BY ServiceAssumption
     DEF Actors, RunTask, At, IInv, TypeOK, CallsOK, CallOK, TaskPC
<1>2. \A u \in Tasks : ~Keeps(p, c, u)
  BY <1>1 DEF Keeps
<1>3. ASSUME NEW op \in {"complete", "fail", "halt"},
             Goto(p, [c EXCEPT !.op = op, !.pc = "get"])
      PROVE  Good
  <2> DEFINE d == [c EXCEPT !.op = op, !.pc = "get"]
  <2>1. /\ d \in Call /\ d.op = op /\ d.pc = "get" /\ d.task = c.task
    BY <1>1 DEF Call, ProcOps
  <2>2. CallOK(p, d)
    BY <1>1, <2>1 DEF CallOK, DocPC
  <2> QED
    BY <1>1, <1>2, <1>3, <2>1, <2>2, PlainStep DEF RunTask
<1>4. CASE Goto(p, [c EXCEPT !.pc = "settle"])
  <2> DEFINE d == [c EXCEPT !.pc = "settle"]
  <2>1. /\ d \in Call /\ d.op = c.op /\ d.pc = "settle" /\ d.task = c.task
    BY <1>1 DEF Call
  <2>2. CallOK(p, d)
    BY <1>1, <2>1 DEF CallOK, DocPC
  <2> QED
    BY <1>1, <1>2, <1>4, <2>1, <2>2, PlainStep DEF RunTask
<1> QED
  BY <1>3, <1>4 DEF RunTask

\* settleMessage gives a message back or acknowledges it with a terminal row.
LEMMA SettleMessageStep ==
    ASSUME IInv, StrandedKept, NEW p \in Procs, SettleMessage(p)
    PROVE  Good
<1> DEFINE c == call[p]
<1>1. /\ p \in Actors /\ p \notin Users /\ CallOK(p, c)
      /\ c.pc = "settle" /\ c.op # "start" /\ c.task \in Tasks
  BY ServiceAssumption
     DEF Actors, SettleMessage, At, IInv, TypeOK, CallsOK, CallOK, TaskPC
<1>2. \A u \in Tasks : ~Keeps(p, c, u)
  BY <1>1 DEF Keeps
<1>3. queue' = queue \/ queue' = [queue EXCEPT ![c.task] = @ + 1]
  BY DEF SettleMessage, Requeue
<1>4. queue' \in [Tasks -> Nat] /\ \A u \in Tasks : queue'[u] >= queue[u]
  BY <1>1, <1>3 DEF IInv, TypeOK
<1>5. status' = status /\ status' \in [Tasks -> Status] /\ OneRowPerDocument'
  BY StatusKept DEF SettleMessage
<1> QED
  BY <1>1, <1>2, <1>4, <1>5, IdleCall, StepGood DEF SettleMessage, Return

-----------------------------------------------------------------------------
\* Requests.  A call outside the steps of Keeps may go anywhere.
LEMMA FreeStep ==
    ASSUME IInv, StrandedKept, NEW u \in Users,
           call[u].pc \notin {"publish", "undo", "delread", "delete"},
           NEW d \in Call, CallOK(u, d), Goto(u, d), UNCHANGED <<status, queue>>
    PROVE  Good
<1>1. u \in Actors /\ u \notin Procs
  BY ServiceAssumption DEF Actors
<1>2. \A t \in Tasks : ~Keeps(u, call[u], t)
  BY <1>1 DEF Keeps
<1> QED
  BY <1>1, <1>2, PlainStep

\* The call a request about a task starts with is a proper one ...
LEMMA TaskCallFacts ==
    ASSUME NEW u \in Users, NEW t \in Tasks, NEW op \in {"stop", "remove"},
           NEW pc \in {"get", "delread"}
    PROVE  TaskCall(op, pc, t) \in Call /\ CallOK(u, TaskCall(op, pc, t))
<1>1. /\ TaskCall(op, pc, t) \in Call
      /\ TaskCall(op, pc, t).op = op /\ TaskCall(op, pc, t).pc = pc
      /\ TaskCall(op, pc, t).task = t
  BY DEF TaskCall, Idle, Call, Status, ProcOps
<1> QED
  BY <1>1 DEF CallOK, TaskPC, DocPC

\* ... and so is the call of a request about a document.
LEMMA DocCallFacts ==
    ASSUME NEW u \in Users, NEW d \in Docs, NEW op \in {"ingest", "reparse"},
           NEW pc \in {"lookup", "check"}
    PROVE  DocCall(op, pc, d) \in Call /\ CallOK(u, DocCall(op, pc, d))
<1>1. /\ DocCall(op, pc, d) \in Call
      /\ DocCall(op, pc, d).op = op /\ DocCall(op, pc, d).pc = pc
      /\ DocCall(op, pc, d).doc = d
  BY DEF DocCall, Idle, Call, Status, ProcOps
<1> QED
  BY <1>1 DEF CallOK, TaskPC, DocPC

\* A request starts: nothing but the call of its actor changes.
LEMMA BeginStep ==
    ASSUME IInv, StrandedKept, NEW u \in Users,
           BeginStop(u) \/ BeginRemove(u) \/ BeginIngest(u) \/ BeginReparse(u)
    PROVE  Good
<1>1. CASE BeginStop(u)
  BY <1>1, TaskCallFacts, FreeStep DEF BeginStop, At
<1>2. CASE BeginRemove(u)
  BY <1>2, TaskCallFacts, FreeStep DEF BeginRemove, At
<1>3. CASE BeginIngest(u)
  BY <1>3, DocCallFacts, FreeStep DEF BeginIngest, At
<1>4. CASE BeginReparse(u)
  BY <1>4, DocCallFacts, FreeStep DEF BeginReparse, At
<1> QED
  BY <1>1, <1>2, <1>3, <1>4

\* What is known of a request in progress.
LEMMA RequestFacts ==
    ASSUME IInv, NEW u \in Users
    PROVE  /\ u \in Actors /\ u \notin Procs /\ call[u] \in Call
           /\ CallOK(u, call[u])
           /\ call[u].op # "start"
           /\ call[u].pc \in DocPC => call[u].doc \in Docs
           /\ call[u].pc \in TaskPC => call[u].task \in Tasks
BY ServiceAssumption DEF Actors, IInv, TypeOK, CallsOK, CallOK

\* AssertIngestionTasksTerminal only reads.
LEMMA CheckTerminalStep ==
    ASSUME IInv, StrandedKept, NEW u \in Users, CheckTerminal(u)
    PROVE  Good
<1> DEFINE c == call[u]
           d == [c EXCEPT !.pc = "purge"]
<1>1. c.pc = "check"
  BY DEF CheckTerminal, At
<1>2. /\ d \in Call /\ d.op = c.op /\ d.pc = "purge" /\ d.doc = c.doc
      /\ d.orig = c.orig
  BY RequestFacts DEF Call
<1>3. CallOK(u, d)
  BY <1>1, <1>2, RequestFacts DEF CallOK, TaskPC, DocPC
<1> QED
  BY <1>1, <1>2, <1>3, IdleCall, FreeStep DEF CheckTerminal, Return

\* DeleteIfTerminal deletes at most one row, because a document has only one.
LEMMA DeleteIfTerminalStep ==
    ASSUME IInv, StrandedKept, NEW u \in Users, DeleteIfTerminal(u)
    PROVE  Good
<1> DEFINE c == call[u]
           d == [c EXCEPT !.op = "ingest", !.pc = "lookup"]
<1>1. /\ c.pc = "purge" /\ c.doc \in Docs
      /\ \A t \in Tasks : ~Keeps(u, c, t)
  BY RequestFacts DEF DeleteIfTerminal, At, DocPC, Keeps
<1>2. /\ d \in Call /\ d.op = "ingest" /\ d.pc = "lookup" /\ d.doc = c.doc
  BY RequestFacts DEF Call
<1>3. CallOK(u, d) /\ Goto(u, d)
  BY <1>1, <1>2 DEF CallOK, TaskPC, DeleteIfTerminal
<1>4. /\ status' = [t \in Tasks |-> IF t \in Purgeable(c.doc) THEN "GONE"
                                                          ELSE status[t]]
      /\ status' \in [Tasks -> Status]
      /\ \A t \in Tasks : status'[t] \in RowStatus => status'[t] = status[t]
  BY StatusFacts DEF DeleteIfTerminal, IInv, TypeOK
<1>5. OneRowPerDocument'
  BY <1>4, RowsKept DEF IInv
<1>6. [Table!Next]_status
  <2>1. CASE Purgeable(c.doc) = {}
    BY <1>4, <2>1 DEF IInv, TypeOK
  <2>2. CASE Purgeable(c.doc) # {}
    <3>1. PICK t \in Purgeable(c.doc) : TRUE
      BY <2>2
    <3>2. /\ t \in Tasks /\ status[t] \in RowStatus
          /\ \A r \in Purgeable(c.doc) : r = t
      BY <1>1, <3>1 DEF Purgeable, RowsOf, Exists, IInv, OneRowPerDocument
    <3>3. SetStatus(t, "GONE")
      BY <1>4, <3>1, <3>2 DEF SetStatus, IInv, TypeOK
    <3> QED
      BY <3>2, <3>3, TableMoves DEF TableAllows
  <2> QED
    BY <2>1, <2>2
<1>7. /\ queue' = queue /\ queue' \in [Tasks -> Nat]
      /\ \A t \in Tasks : queue'[t] >= queue[t]
  BY DEF DeleteIfTerminal, IInv, TypeOK
<1>8. \A t \in Tasks : status'[t] = "CREATED" => status[t] = "CREATED"
  BY <1>4, StatusFacts
<1> QED
  BY <1>1, <1>2, <1>3, <1>4, <1>5, <1>6, <1>7, <1>8, StepGood, RequestFacts

\* CreateAndEnqueue finds the row of the document, or finds none.
LEMMA LookupStep ==
    ASSUME IInv, StrandedKept, NEW u \in Users, Lookup(u)
    PROVE  Good
<1> DEFINE c == call[u]
           create == [c EXCEPT !.op = "create", !.pc = "lookup2"]
           retry(t) == [c EXCEPT !.op = "retry", !.pc = "read", !.task = t,
                                 !.to = "CREATED", !.orig = status[t]]
<1>1. c.pc = "lookup" /\ UNCHANGED <<status, queue>>
  BY DEF Lookup, At
<1>2. CASE Goto(u, create)
  <2>1. /\ create \in Call /\ create.op = "create" /\ create.pc = "lookup2"
        /\ create.doc = c.doc
    BY RequestFacts DEF Call
  <2>2. CallOK(u, create)
    BY <1>1, <2>1, RequestFacts DEF CallOK, TaskPC, DocPC
  <2> QED
    BY <1>1, <1>2, <2>1, <2>2, FreeStep
<1>3. ASSUME NEW t \in Tasks, status[t] \in Retryable, Goto(u, retry(t))
      PROVE  Good
  <2>1. status[t] \in Status
    BY DEF IInv, TypeOK
  <2>2. /\ retry(t) \in Call /\ retry(t).op = "retry" /\ retry(t).pc = "read"
        /\ retry(t).task = t /\ retry(t).orig = status[t]
    BY <2>1, RequestFacts, StatusFacts DEF Call
  <2>3. CallOK(u, retry(t))
    BY <1>3, <2>2 DEF CallOK, TaskPC, DocPC
  <2> HIDE DEF retry
  <2> QED
    BY <1>1, <1>3, <2>2, <2>3, FreeStep
<1>4. CASE Goto(u, Idle)
  BY <1>1, <1>4, IdleCall, FreeStep
<1>5. \/ Goto(u, create) \/ Goto(u, Idle)
      \/ \E t \in Tasks : status[t] \in Retryable /\ Goto(u, retry(t))
  BY DEF Lookup, Return, RowsOf
<1> QED
  BY <1>2, <1>3, <1>4, <1>5

\* The lookup inside Create, before the insert.
LEMMA CreateLookupStep ==
    ASSUME IInv, StrandedKept, NEW u \in Users, CreateLookup(u)
    PROVE  Good
<1> DEFINE c == call[u]
           d == [c EXCEPT !.pc = "insert"]
<1>1. c.pc = "lookup2" /\ UNCHANGED <<status, queue>>
  BY DEF CreateLookup, At
<1>2. /\ d \in Call /\ d.op = c.op /\ d.pc = "insert" /\ d.doc = c.doc
      /\ d.orig = c.orig
  BY RequestFacts DEF Call
<1>3. CallOK(u, d)
  BY <1>1, <1>2, RequestFacts DEF CallOK, TaskPC, DocPC
<1> QED
  BY <1>1, <1>2, <1>3, IdleCall, FreeStep DEF CreateLookup, Return

\* The unique index is what keeps two concurrent creators apart.
LEMMA InsertStep ==
    ASSUME IInv, StrandedKept, NEW u \in Users, Insert(u)
    PROVE  Good
<1> DEFINE c == call[u]
           d(t) == [c EXCEPT !.pc = "publish", !.task = t]
<1>1. c.pc = "insert" /\ UNCHANGED queue
  BY DEF Insert, At
<1>2. ASSUME NEW t \in Tasks, IndexAdmits(c.doc), status[t] = "FRESH",
             DocOf[t] = c.doc, SetStatus(t, "CREATED"), Goto(u, d(t))
      PROVE  Good
  <2>1. /\ d(t) \in Call /\ d(t).op = c.op /\ d(t).pc = "publish"
        /\ d(t).task = t /\ d(t).orig = c.orig
    BY RequestFacts DEF Call
  <2>2. CallOK(u, d(t)) /\ Keeps(u, d(t), t)
    BY <1>1, <2>1, RequestFacts DEF CallOK, DocPC, Keeps
  <2>3. /\ status' \in [Tasks -> Status] /\ Table!Next
        /\ status' = [status EXCEPT ![t] = "CREATED"]
    BY <1>2, SetStatusStep DEF TableAllows
  <2>4. OneRowPerDocument'
    <3>1. \A r \in Tasks : DocOf[r] = c.doc => status[r] \notin RowStatus
      BY <1>2 DEF IndexAdmits, RowsOf, Exists
    <3>2. \A r \in Tasks : r # t => status'[r] = status[r]
      BY <2>3 DEF IInv, TypeOK
    <3>3. SUFFICES ASSUME NEW r \in Tasks, NEW q \in Tasks, DocOf[r] = DocOf[q],
                          status'[r] \in RowStatus, status'[q] \in RowStatus
                   PROVE  r = q
      BY DEF OneRowPerDocument, RowsOf, Exists
    <3> QED
      BY <1>2, <3>1, <3>2, <3>3, ServiceAssumption
         DEF IInv, OneRowPerDocument, RowsOf, Exists
  <2>5. /\ queue' = queue /\ queue' \in [Tasks -> Nat]
        /\ \A r \in Tasks : queue'[r] >= queue[r]
    BY <1>1 DEF IInv, TypeOK
  <2>6. \A r \in Tasks : status'[r] = "CREATED" =>
            r = t \/ (status[r] = "CREATED" /\ ~Keeps(u, c, r))
    BY <1>1, <2>3, RequestFacts DEF Keeps, IInv, TypeOK
  <2>7. \A r \in Tasks : status'[r] = "CREATED" =>
            \/ Keeps(u, d(t), r)
            \/ /\ status[r] = "CREATED" /\ queue'[r] >= queue[r]
               /\ ~Keeps(u, c, r)
    BY <2>2, <2>5, <2>6
  <2>8. u \in Actors
    BY RequestFacts
  <2> HIDE DEF d
  <2> QED
    BY <1>2, <2>1, <2>2, <2>3, <2>4, <2>5, <2>7, <2>8, StepGood
<1>3. CASE Goto(u, Idle) /\ UNCHANGED status
  BY <1>1, <1>3, IdleCall, FreeStep
<1> QED
  BY <1>2, <1>3 DEF Insert, Return

\* The publish puts a message in the queue or fails; then the row is taken back.
LEMMA PublishStep ==
    ASSUME IInv, StrandedKept, NEW u \in Users, Publish(u)
    PROVE  Good
<1> DEFINE c == call[u]
           rollback == IF c.op = "retry" THEN "undo" ELSE "delread"
           d == [c EXCEPT !.pc = rollback]
<1>1. /\ c.pc = "publish" /\ c.task \in Tasks
  BY RequestFacts DEF Publish, At, TaskPC
<1>2. status' = status /\ status' \in [Tasks -> Status] /\ OneRowPerDocument'
  BY StatusKept DEF Publish
<1>3. /\ d \in Call /\ d.op = c.op /\ d.pc = rollback /\ d.task = c.task
      /\ d.orig = c.orig
  BY RequestFacts DEF Call
<1>4. CallOK(u, d) /\ \A t \in Tasks : Keeps(u, c, t) => Keeps(u, d, t)
  BY <1>1, <1>3, RequestFacts DEF CallOK, TaskPC, DocPC, Keeps
<1>5. \/ UNCHANGED queue /\ Goto(u, d)
      \/ Requeue(c.task) /\ Goto(u, d)
      \/ Requeue(c.task) /\ Goto(u, Idle)
  BY DEF Publish, Return
<1>6. /\ queue' \in [Tasks -> Nat]
      /\ \A t \in Tasks : queue'[t] >= queue[t]
      /\ Requeue(c.task) => queue'[c.task] > 0
  BY <1>1, <1>5 DEF IInv, TypeOK, Requeue
<1>7. CASE Goto(u, d)
  <2>1. \A t \in Tasks : status'[t] = "CREATED" =>
            Keeps(u, d, t) \/ (status[t] = "CREATED" /\ ~Keeps(u, c, t))
    BY <1>2, <1>4
  <2> HIDE DEF d
  <2> QED
    BY <1>2, <1>3, <1>4, <1>6, <1>7, <2>1, StepGood, RequestFacts
<1>8. CASE Requeue(c.task) /\ Goto(u, Idle)
  <2>1. \A t \in Tasks : status'[t] = "CREATED" =>
            queue'[t] > 0 \/ (status[t] = "CREATED" /\ ~Keeps(u, c, t))
    BY <1>2, <1>6, <1>8, RequestFacts DEF Keeps
  <2> QED
    BY <1>2, <1>6, <1>8, <2>1, StepGood, RequestFacts, IdleCall
<1> QED
  BY <1>5, <1>7, <1>8

\* The rollback of a retried task puts a CREATED row back to its old status.
LEMMA RollbackRetriedStep ==
    ASSUME IInv, StrandedKept, NEW u \in Users, RollbackRetried(u)
    PROVE  Good
<1> DEFINE c == call[u]
           t == c.task
<1>1. /\ c.pc = "undo" /\ t \in Tasks /\ c.orig \in Retryable
      /\ queue' = queue /\ Goto(u, Idle)
  BY RequestFacts DEF RollbackRetried, Return, At, TaskPC, CallOK
<1>2. queue' \in [Tasks -> Nat] /\ \A r \in Tasks : queue'[r] >= queue[r]
  BY <1>1 DEF IInv, TypeOK
<1>3. CASE status[t] = "CREATED" /\ SetStatus(t, c.orig)
  <2>1. /\ status' = [status EXCEPT ![t] = c.orig]
        /\ status' \in [Tasks -> Status] /\ OneRowPerDocument' /\ Table!Next
    BY <1>1, <1>3, SetStatusStep DEF TableAllows
  <2>2. \A r \in Tasks : status'[r] = "CREATED" =>
            status[r] = "CREATED" /\ ~Keeps(u, c, r)
    BY <1>1, <2>1, StatusFacts, RequestFacts DEF Keeps, IInv, TypeOK
  <2> QED
    BY <1>1, <1>2, <2>1, <2>2, StepGood, RequestFacts, IdleCall
<1>4. CASE status[t] # "CREATED" /\ UNCHANGED status
  <2>1. status' = status /\ status' \in [Tasks -> Status] /\ OneRowPerDocument'
    BY <1>4, StatusKept
  <2>2. \A r \in Tasks : status'[r] = "CREATED" =>
            status[r] = "CREATED" /\ ~Keeps(u, c, r)
    BY <1>4, <2>1, RequestFacts DEF Keeps
  <2> QED
    BY <1>1, <1>2, <2>1, <2>2, StepGood, RequestFacts, IdleCall
<1> QED
  BY <1>3, <1>4 DEF RollbackRetried, UpdateStatusIfCurrent

\* Delete selects the rows and refuses a RUNNING one.
LEMMA DeleteReadStep ==
    ASSUME IInv, StrandedKept, NEW u \in Users, DeleteRead(u)
    PROVE  Good
<1> DEFINE c == call[u]
           d == [c EXCEPT !.pc = "delete"]
<1>1. /\ c.pc = "delread" /\ c.task \in Tasks /\ UNCHANGED <<status, queue>>
  BY RequestFacts DEF DeleteRead, At, TaskPC
<1>2. CASE Goto(u, d)
  <2>1. /\ d \in Call /\ d.op = c.op /\ d.pc = "delete" /\ d.task = c.task
        /\ d.orig = c.orig
    BY RequestFacts DEF Call
  <2>2. CallOK(u, d) /\ \A t \in Tasks : Keeps(u, c, t) => Keeps(u, d, t)
    BY <1>1, <2>1, RequestFacts DEF CallOK, TaskPC, DocPC, Keeps
  <2> QED
    BY <1>1, <1>2, <2>1, <2>2, PlainStep, RequestFacts
<1>3. CASE status[c.task] # "CREATED" /\ Goto(u, Idle)
  <2>1. \A t \in Tasks : ~(status[t] = "CREATED" /\ Keeps(u, c, t))
    BY <1>3, RequestFacts DEF Keeps
  <2> QED
    BY <1>1, <1>3, <2>1, PlainStep, RequestFacts, IdleCall
<1> QED
  BY <1>2, <1>3, StatusFacts DEF DeleteRead, Return

\* Delete removes the selected row, whatever its status has become.
LEMMA DeleteRowStep ==
    ASSUME IInv, StrandedKept, NEW u \in Users, DeleteRow(u)
    PROVE  Good
<1> DEFINE c == call[u]
           t == c.task
<1>1. /\ c.pc = "delete" /\ t \in Tasks /\ queue' = queue /\ Goto(u, Idle)
  BY RequestFacts DEF DeleteRow, Return, At, TaskPC
<1>2. queue' \in [Tasks -> Nat] /\ \A r \in Tasks : queue'[r] >= queue[r]
  BY <1>1 DEF IInv, TypeOK
<1>3. CASE Exists(t) /\ SetStatus(t, "GONE")
  <2>1. /\ status' = [status EXCEPT ![t] = "GONE"]
        /\ status' \in [Tasks -> Status] /\ OneRowPerDocument' /\ Table!Next
    BY <1>1, <1>3, SetStatusStep, StatusFacts DEF TableAllows, Exists
  <2>2. \A r \in Tasks : status'[r] = "CREATED" =>
            status[r] = "CREATED" /\ ~Keeps(u, c, r)
    BY <1>1, <2>1, RequestFacts DEF Keeps, IInv, TypeOK
  <2> QED
    BY <1>1, <1>2, <2>1, <2>2, StepGood, RequestFacts, IdleCall
<1>4. CASE ~Exists(t) /\ UNCHANGED status
  <2>1. status' = status /\ status' \in [Tasks -> Status] /\ OneRowPerDocument'
    BY <1>4, StatusKept
  <2>2. \A r \in Tasks : status'[r] = "CREATED" =>
            status[r] = "CREATED" /\ ~Keeps(u, c, r)
    BY <1>4, <2>1, StatusFacts, RequestFacts DEF Keeps, Exists
  <2> QED
    BY <1>1, <1>2, <2>1, <2>2, StepGood, RequestFacts, IdleCall
<1> QED
  BY <1>3, <1>4 DEF DeleteRow

\* A request that is cut off strands the row it was to publish or take back.
LEMMA RequestFailsStep ==
    ASSUME IInv, NEW u \in Users, RequestFails(u)
    PROVE  Good
<1>1. /\ u \in Actors /\ Goto(u, Idle) /\ status' = status /\ queue' = queue
      /\ stranded \subseteq stranded' /\ stranded' \subseteq Tasks
      /\ \A t \in Tasks : /\ Keeps(u, call[u], t)
                          /\ status[t] = "CREATED"
                          /\ queue[t] = 0
                          => t \in stranded'
  BY ServiceAssumption DEF RequestFails, Return, Keeps, Enqueuing, Actors, IInv, TypeOK
<1>2. /\ call' \in [Actors -> Call] /\ CallsOK'
      /\ call' = [call EXCEPT ![u] = Idle]
  BY <1>1, IdleCall, GotoStep
<1>3. \A b \in Actors : b # u => call'[b] = call[b]
  BY <1>2 DEF IInv, TypeOK
<1>4. ASSUME NEW t \in Tasks, status'[t] = "CREATED"
      PROVE  \/ queue'[t] > 0 \/ t \in stranded'
             \/ \E a \in Actors : Keeps(a, call'[a], t)
  <2>1. queue[t] \in Nat
    BY DEF IInv, TypeOK
  <2>2. CASE \E a \in Actors : Keeps(a, call[a], t)
    <3>1. PICK a \in Actors : Keeps(a, call[a], t)
      BY <2>2
    <3> QED
      BY <1>1, <1>3, <1>4, <2>1, <3>1
  <2> QED
    BY <1>1, <1>4, <2>2, QueuedMeaning DEF IInv
<1>5. CreatedIsQueued'
  BY <1>4, QueuedMeaningNext
<1>6. status' \in [Tasks -> Status] /\ OneRowPerDocument'
  BY <1>1, StatusKept
<1> QED
  BY <1>1, <1>2, <1>5, <1>6 DEF Good, IInv, TypeOK

-----------------------------------------------------------------------------
\* The invariant holds at the start ...
LEMMA InitInvariant == Init => IInv
<1> SUFFICES ASSUME Init PROVE IInv
  OBVIOUS
<1>1. \A a \in Actors : call[a] = Idle
  BY DEF Init
<1>2. TypeOK
  BY StatusFacts, IdleCall DEF Init, TypeOK
<1>3. CallsOK
  BY <1>1, IdleCall DEF CallsOK
<1>4. OneRowPerDocument /\ CreatedIsQueued
  BY StatusFacts DEF Init, OneRowPerDocument, RowsOf, Exists, CreatedIsQueued
<1> QED
  BY <1>2, <1>3, <1>4 DEF IInv

\* ... and every step preserves it and is a step of the table.
LEMMA NextGood ==
    ASSUME IInv, [Next]_vars
    PROVE  Good
<1>1. ASSUME NEW a \in Actors, ServiceStep(a), StrandedKept PROVE Good
  BY <1>1, GetTaskStep, TransitionReadStep, TransitionCASStep DEF ServiceStep
<1>2. ASSUME NEW u \in Users, UserStep(u), StrandedKept PROVE Good
  BY <1>2, BeginStep, CheckTerminalStep, DeleteIfTerminalStep, LookupStep,
     CreateLookupStep, InsertStep, PublishStep, RollbackRetriedStep,
     DeleteReadStep, DeleteRowStep DEF UserStep
<1>3. ASSUME NEW p \in Procs, ProcStep(p), StrandedKept PROVE Good
  BY <1>3, ReceiveStep, RunTaskStep, SettleMessageStep DEF ProcStep
<1>4. CASE UNCHANGED vars
  BY <1>4 DEF vars, Good, IInv, TypeOK, CallsOK, CallOK, OneRowPerDocument, RowsOf,
     Exists, CreatedIsQueued, Starting, Enqueuing
<1>5. ASSUME NEW u \in Users, RequestFails(u) PROVE Good
  BY <1>5, RequestFailsStep
<1> QED
  BY <1>1, <1>2, <1>3, <1>4, <1>5 DEF Next

\* The inductive invariant holds in every reachable state.
THEOREM Invariance == Spec => []IInv
<1>1. IInv /\ [Next]_vars => IInv'
  BY NextGood DEF Good
<1> QED
  BY InitInvariant, <1>1, PTL DEF Spec

\* Statuses, queue lengths and calls keep their types.
THEOREM TypeCorrect == Spec => []TypeOK
<1>1. IInv => TypeOK
  BY DEF IInv
<1> QED
  BY Invariance, <1>1, PTL

\* No interleaving of ingest and re-parse requests gives a document two rows.
THEOREM UniqueRows == Spec => []OneRowPerDocument
<1>1. IInv => OneRowPerDocument
  BY DEF IInv
<1> QED
  BY Invariance, <1>1, PTL

\* No CREATED row is left without a message, a process or a request that will
\* publish or roll back, unless that request was cut off before it could.
THEOREM NothingForgotten == Spec => []CreatedIsQueued
<1>1. IInv => CreatedIsQueued
  BY DEF IInv
<1> QED
  BY Invariance, <1>1, PTL

\* The ingestion_task table under all its concurrent users implements
\* TaskStatus: no compare-and-swap, rollback or delete makes a row move
\* otherwise than the transition table says.
THEOREM TableRefinement == Spec => TableKeepsPromise
<1>1. Init => Table!Init
  BY DEF Init, Table!Init
<1>2. IInv /\ [Next]_vars => [Table!Next]_status
  BY NextGood DEF Good
<1> QED
  BY <1>1, <1>2, Invariance, PTL DEF Spec, TableKeepsPromise, Table!Spec

\* The row of an executing task is only taken by a DELETE by id.
LEMMA ExecutingTaken ==
    ASSUME IInv, Next, NEW t \in Tasks, status[t] \in Executing, status'[t] = "GONE"
    PROVE  \E u \in Users : At(u, "delete") /\ call[u].task = t
<1>1. status \in [Tasks -> Status] /\ status' # status /\ "GONE" \notin Executing
  BY StatusFacts DEF IInv, TypeOK
<1>2. ASSUME NEW a \in Actors, TransitionCAS(a) PROVE FALSE
  <2>1. CanMove(call[a].from, call[a].to)
    BY <1>2 DEF IInv, CallsOK, CallOK, TransitionCAS, At
  <2>2. call[a].to # "GONE"
    BY <2>1, MoveFacts, StatusFacts
  <2> QED
    BY <1>1, <1>2, <2>2 DEF TransitionCAS, SetStatus
<1>3. ASSUME NEW u \in Users, DeleteIfTerminal(u) PROVE FALSE
  BY <1>1, <1>3 DEF DeleteIfTerminal, Purgeable
<1>4. ASSUME NEW u \in Users, Insert(u) PROVE FALSE
  BY <1>1, <1>4 DEF Insert, SetStatus
<1>5. ASSUME NEW u \in Users, RollbackRetried(u) PROVE FALSE
  <2>1. call[u].orig \in Retryable
    BY <1>5 DEF IInv, CallsOK, CallOK, Actors, RollbackRetried, At
  <2>2. call[u].orig # "GONE"
    BY <2>1 DEF Retryable
  <2> QED
    BY <1>1, <1>5, <2>2 DEF RollbackRetried, SetStatus
<1>6. ASSUME NEW u \in Users, DeleteRow(u) PROVE At(u, "delete") /\ call[u].task = t
  BY <1>1, <1>6 DEF DeleteRow, SetStatus
<1>7. ASSUME NEW a \in Actors, GetTask(a) \/ TransitionRead(a) PROVE FALSE
  BY <1>1, <1>7 DEF GetTask, TransitionRead
<1>8. ASSUME NEW u \in Users,
             \/ BeginStop(u) \/ BeginRemove(u) \/ BeginIngest(u) \/ BeginReparse(u) \/ CheckTerminal(u)
             \/ Lookup(u) \/ CreateLookup(u) \/ Publish(u) \/ DeleteRead(u)
      PROVE  FALSE
  BY <1>1, <1>8 DEF BeginStop, BeginRemove, BeginIngest, BeginReparse, CheckTerminal, Lookup, CreateLookup,
     Publish, DeleteRead
<1>9. ASSUME NEW p \in Procs, ProcStep(p) PROVE FALSE
  BY <1>1, <1>9 DEF ProcStep, Receive, RunTask, SettleMessage
<1>10. ASSUME NEW u \in Users, RequestFails(u) PROVE FALSE
  BY <1>1, <1>10 DEF RequestFails
<1> QED
  BY <1>2, <1>3, <1>4, <1>5, <1>6, <1>7, <1>8, <1>9, <1>10 DEF Next, ServiceStep, UserStep

\* A re-parse looks for executing tasks and deletes in two calls, yet it never
\* takes the row of a task that started in between, nor does any other request
\* than one that deletes by id.
THEOREM ReparseSpares == Spec => ReparseSparesExecuting
<1>1. IInv /\ [Next]_vars =>
        [\A t \in Tasks : status[t] \in Executing /\ status'[t] = "GONE"
            => \E u \in Users : At(u, "delete") /\ call[u].task = t]_vars
  BY ExecutingTaken
<1> QED
  BY <1>1, Invariance, PTL DEF Spec, ReparseSparesExecuting
=============================================================================
