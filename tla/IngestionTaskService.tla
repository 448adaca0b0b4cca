------------------------ MODULE IngestionTaskService ------------------------
(***************************************************************************)
(* IngestionTaskService and IngestionTaskDAO of ragflow                    *)
(* (ragflow/internal/service/ingestion_task_service.go, dao/ingestion.go)  *)
(* at the granularity of single database calls.                            *)
(*                                                                         *)
(* Users call the HTTP API (ingest, re-parse, stop, remove).  Procs are    *)
(* ingestor processes that run one task at a time: they take a message off *)
(* the queue, call StartRunning, run the pipeline and settle the task.     *)
(* Every read, compare-and-swap, insert, delete and publish is one step,   *)
(* so all interleavings of the calls of different actors are explored.     *)
(* What happens inside one process (channel, claims, heartbeat, crash,     *)
(* redelivery) is the subject of module Ingestor.                          *)
(***************************************************************************)
EXTENDS IngestionStatus, Naturals

CONSTANTS
    Tasks,            \* the UUIDs that rows may be created under
    Docs,             \* documents
    DocOf,            \* the document each task id would be created for
    Users,            \* concurrent API requests
    Procs,            \* ingestor processes
    UserOps,          \* the requests users make
    PublishOutcomes,  \* what publishing may do: see Publish
    MaxQueued,        \* bound: no re-enqueue while a row has so many messages
    NoTask, NoDoc

ASSUME ServiceAssumption ==
    /\ DocOf \in [Tasks -> Docs]
    /\ Users \cap Procs = {}
    /\ UserOps \subseteq {"ingest", "reparse", "stop", "remove"}
    /\ PublishOutcomes \subseteq {"stored", "refused", "unacked"}
    /\ NoTask \notin Tasks
    /\ NoDoc \notin Docs

VARIABLES
    status,   \* ingestion_task.status of every id
    queue,    \* number of undelivered messages carrying each task id
    call,     \* what each actor is doing: a call in progress, or Idle
    stranded  \* history: rows a failed request left CREATED without a message

vars == <<status, queue, call, stranded>>

Actors == Users \cup Procs

\* Operations of the processes once they hold a message.
ProcOps == {"start", "run", "complete", "recheck", "fail", "halt", "haltstop"}

Call == [pc   : {"idle", "get", "read", "cas", "work", "settle", "check",
                 "purge", "lookup", "lookup2", "insert", "publish", "undo",
                 "delread", "delete"},
         op   : {"none", "stop", "remove", "reparse", "ingest", "retry",
                 "create"} \cup ProcOps,
         task : Tasks \cup {NoTask},
         doc  : Docs \cup {NoDoc},
         from : Status,     \* status the running transition has read
         to   : Status,     \* status the running transition writes
         orig : Status]     \* status a re-enqueue found (originalStatus)

Idle == [pc |-> "idle", op |-> "none", task |-> NoTask, doc |-> NoDoc,
         from |-> "FRESH", to |-> "FRESH", orig |-> "FRESH"]

TaskCall(op, pc, t) == [Idle EXCEPT !.op = op, !.pc = pc, !.task = t]
DocCall(op, pc, d)  == [Idle EXCEPT !.op = op, !.pc = pc, !.doc = d]

At(a, pc)  == call[a].pc = pc
Exists(t)  == status[t] \in RowStatus
RowsOf(d)  == {t \in Tasks : DocOf[t] = d /\ Exists(t)}

Goto(a, c) == call' = [call EXCEPT ![a] = c]
Return(a)  == Goto(a, Idle)
SetStatus(t, s) == status' = [status EXCEPT ![t] = s]
Requeue(t) == queue' = [queue EXCEPT ![t] = @ + 1]

-----------------------------------------------------------------------------
(***************************************************************************)
(* The service operations that are "GetTask, then maybe transition":       *)
(* StartRunning (start), RequestStop (stop, and halt when the worker's     *)
(* markStopped calls it), MarkCompleted (complete), MarkFailed (fail) and  *)
(* MarkStopped (haltstop).  Target is the transition the operation asks    *)
(* for when GetTask finds status s; "none" when it returns the row as is.  *)
(***************************************************************************)
RequestStopTarget(s) ==
    CASE s = "CREATED" -> "STOPPED"
      [] s = "RUNNING" -> "STOPPING"
      [] OTHER -> "none"

StartRunningTarget(s) ==
    CASE s = "CREATED"  -> "RUNNING"
      [] s = "STOPPING" -> "STOPPED"
      [] OTHER -> "none"

MarkTarget(s, final) == IF s \in Terminal THEN "none" ELSE final

Target(op, s) ==
    CASE op = "start"            -> StartRunningTarget(s)
      [] op \in {"stop", "halt"} -> RequestStopTarget(s)
      [] op = "complete"         -> MarkTarget(s, "COMPLETED")
      [] op = "fail"             -> MarkTarget(s, "FAILED")
      [] op = "haltstop"         -> MarkTarget(s, "STOPPED")
      [] OTHER                   -> "none"

(***************************************************************************)
(* How the caller goes on when a service call returned "ok" with status s, *)
(* failed because the row is "missing" (ErrTaskNotFound), or failed with   *)
(* a transition "error".  processMessage runs a RUNNING task and acks      *)
(* everything else; completeTask answers a transition error with           *)
(* settleToTerminal (recheck), which turns STOPPING into a markStopped;    *)
(* markStopped is RequestStop followed by MarkStopped.                     *)
(***************************************************************************)
Continue(a, outcome, s) ==
    LET c == call[a]
        Resume(op, pc) == [c EXCEPT !.op = op, !.pc = pc,
                                    !.from = "FRESH", !.to = "FRESH"]
    IN  CASE c.op = "start" /\ outcome = "ok" /\ s = "RUNNING" ->
                Resume("run", "work")
          [] c.op = "complete" /\ outcome = "error" -> Resume("recheck", "get")
          [] c.op = "recheck" /\ outcome = "ok" /\ s = "STOPPING" ->
                Resume("halt", "get")
          [] c.op = "halt" /\ outcome = "ok" -> Resume("haltstop", "get")
          [] c.op = "retry" /\ outcome = "ok" -> Resume("retry", "publish")
          [] c.op \in ProcOps \ {"start"} -> Resume("run", "settle")
          [] OTHER -> Idle

\* processMessage nacks when StartRunning failed for a reason other than a
\* missing row; the message goes back to the queue.
NackIfStartFailed(a, outcome) ==
    IF call[a].op = "start" /\ outcome = "error"
    THEN Requeue(call[a].task)
    ELSE UNCHANGED queue

Finish(a, outcome, s) ==
    /\ Goto(a, Continue(a, outcome, s))
    /\ NackIfStartFailed(a, outcome)

\* GetTask, the first read of every operation.
GetTask(a) ==
    LET c == call[a]
        s == status[c.task]
        to == Target(c.op, s)
    IN  /\ At(a, "get")
        /\ \/ /\ ~Exists(c.task)
              /\ Finish(a, "missing", s)
           \/ /\ Exists(c.task)
              /\ to = "none"
              /\ Finish(a, "ok", s)
           \/ /\ Exists(c.task)
              /\ to # "none"
              /\ Goto(a, [c EXCEPT !.pc = "read", !.to = to])
              /\ UNCHANGED queue
        /\ UNCHANGED status

\* transition, first half: read the row again and validate.
TransitionRead(a) ==
    LET c == call[a]
        s == status[c.task]
    IN  /\ At(a, "read")
        /\ \/ /\ ~Exists(c.task)
              /\ Finish(a, "missing", s)
           \/ /\ Exists(c.task)
              /\ ~CanMove(s, c.to)
              /\ Finish(a, "error", s)
           \/ /\ CanMove(s, c.to)
              /\ Goto(a, [c EXCEPT !.pc = "cas", !.from = s])
              /\ UNCHANGED queue
        /\ UNCHANGED status

\* Mutant: UPDATE ... WHERE id = t, the status condition forgotten.
UpdateStatusBlindly(t, from) == Exists(t)

\* UPDATE ... WHERE id = t AND status = from: does the row match?
UpdateStatusIfCurrent(t, from) == status[t] = from

\* transition, second half: UpdateStatusIfCurrent, and the conflict error
\* (or ErrTaskNotFound) when no row matched.
TransitionCAS(a) ==
    LET c == call[a]
    IN  /\ At(a, "cas")
        /\ \/ /\ UpdateStatusIfCurrent(c.task, c.from)
              /\ SetStatus(c.task, c.to)
              /\ Finish(a, "ok", c.to)
           \/ /\ ~UpdateStatusIfCurrent(c.task, c.from)
              /\ Finish(a, IF Exists(c.task) THEN "error" ELSE "missing",
                        status[c.task])
              /\ UNCHANGED status

-----------------------------------------------------------------------------
(***************************************************************************)
(* A process: take a message, StartRunning, run the pipeline, settle.      *)
(***************************************************************************)
Receive(p) ==
    /\ At(p, "idle")
    /\ \E t \in Tasks :
        /\ queue[t] > 0
        /\ queue' = [queue EXCEPT ![t] = @ - 1]
        /\ Goto(p, TaskCall("start", "get", t))
    /\ UNCHANGED status

\* runTask: the pipeline succeeded, failed or timed out, the task was
\* cancelled before its pipeline started (markStopped), or the pipeline was
\* cancelled, when markStopped runs on a dead context and writes nothing.
RunTask(p) ==
    /\ At(p, "work")
    /\ \/ \E op \in {"complete", "fail", "halt"} :
            Goto(p, [call[p] EXCEPT !.op = op, !.pc = "get"])
       \/ Goto(p, [call[p] EXCEPT !.pc = "settle"])
    /\ UNCHANGED <<status, queue>>

\* settleMessage: the status in the database decides between Ack and Nack;
\* when it cannot be read (no row), the worker's own verdict, a failure, does.
SettleMessage(p) ==
    LET t == call[p].task
    IN  /\ At(p, "settle")
        /\ IF status[t] \in Terminal THEN UNCHANGED queue ELSE Requeue(t)
        /\ Return(p)
        /\ UNCHANGED status

-----------------------------------------------------------------------------
(***************************************************************************)
(* API requests.                                                           *)
(***************************************************************************)
BeginStop(u) ==
    /\ "stop" \in UserOps
    /\ At(u, "idle")
    /\ \E t \in Tasks : Exists(t) /\ Goto(u, TaskCall("stop", "get", t))
    /\ UNCHANGED <<status, queue>>

BeginRemove(u) ==
    /\ "remove" \in UserOps
    /\ At(u, "idle")
    /\ \E t \in Tasks : Exists(t) /\ Goto(u, TaskCall("remove", "delread", t))
    /\ UNCHANGED <<status, queue>>

BeginIngest(u) ==
    /\ "ingest" \in UserOps
    /\ At(u, "idle")
    /\ \E d \in Docs : Goto(u, DocCall("ingest", "lookup", d))
    /\ UNCHANGED <<status, queue>>

BeginReparse(u) ==
    /\ "reparse" \in UserOps
    /\ At(u, "idle")
    /\ \E d \in Docs : Goto(u, DocCall("reparse", "check", d))
    /\ UNCHANGED <<status, queue>>

\* clearDocumentParseResults: refuse while the document's task executes.
CheckTerminal(u) ==
    LET c == call[u]
    IN  /\ At(u, "check")
        /\ IF \E t \in RowsOf(c.doc) : status[t] \in Executing
           THEN Return(u)
           ELSE Goto(u, [c EXCEPT !.pc = "purge"])
        /\ UNCHANGED <<status, queue>>

\* Mutant: DELETE ... WHERE document_id = d, the status condition forgotten.
PurgeAll(d) == RowsOf(d)

\* The rows DELETE ... WHERE document_id = d AND status NOT IN (RUNNING,
\* STOPPING) matches.
Purgeable(d) == {t \in RowsOf(d) : status[t] \notin Executing}

\* DeleteIfTerminal, one atomic statement, and on to IngestDocuments.
DeleteIfTerminal(u) ==
    LET c == call[u]
    IN  /\ At(u, "purge")
        /\ status' = [t \in Tasks |->
                        IF t \in Purgeable(c.doc) THEN "GONE" ELSE status[t]]
        /\ Goto(u, [c EXCEPT !.op = "ingest", !.pc = "lookup"])
        /\ UNCHANGED queue

\* CreateAndEnqueue: a finished row is re-enqueued, a missing one created,
\* any other refuses the request.
Lookup(u) ==
    LET c == call[u]
    IN  /\ At(u, "lookup")
        /\ \/ /\ RowsOf(c.doc) = {}
              /\ Goto(u, [c EXCEPT !.op = "create", !.pc = "lookup2"])
           \/ \E t \in RowsOf(c.doc) :
                /\ queue[t] < MaxQueued
                /\ IF status[t] \in Retryable
                   THEN Goto(u, [c EXCEPT !.op = "retry", !.pc = "read",
                                   !.task = t, !.to = "CREATED",
                                   !.orig = status[t]])
                   ELSE Return(u)
        /\ UNCHANGED <<status, queue>>

\* IngestionTaskDAO.Create looks the document up once more ...
CreateLookup(u) ==
    LET c == call[u]
    IN  /\ At(u, "lookup2")
        /\ IF RowsOf(c.doc) = {}
           THEN Goto(u, [c EXCEPT !.pc = "insert"])
           ELSE Return(u)
        /\ UNCHANGED <<status, queue>>

\* Mutant: a plain index.
IndexNotUnique(d) == TRUE

\* idx_ingestion_task_document_id, the unique index on document_id.
IndexAdmits(d) == RowsOf(d) = {}

\* ... and inserts under a fresh id; the unique index refuses a second row.
Insert(u) ==
    LET c == call[u]
    IN  /\ At(u, "insert")
        /\ \/ \E t \in Tasks :
                /\ IndexAdmits(c.doc)
                /\ status[t] = "FRESH"
                /\ DocOf[t] = c.doc
                /\ SetStatus(t, "CREATED")
                /\ Goto(u, [c EXCEPT !.pc = "publish", !.task = t])
           \/ /\ \/ ~IndexAdmits(c.doc)
                 \/ \A t \in Tasks : DocOf[t] = c.doc => status[t] # "FRESH"
              /\ Return(u)
              /\ UNCHANGED status
        /\ UNCHANGED queue

\* Mutant: an error of the broker is logged and the request reports success.
PublishUnchecked(u) ==
    /\ At(u, "publish")
    /\ \E outcome \in PublishOutcomes :
        IF outcome = "refused" THEN UNCHANGED queue ELSE Requeue(call[u].task)
    /\ Return(u)
    /\ UNCHANGED status

\* enqueueTask: the broker stores the message, refuses it, or stores it and
\* loses the acknowledgement, so that the caller sees an error.
Publish(u) ==
    LET c == call[u]
        rollback == IF c.op = "retry" THEN "undo" ELSE "delread"
    IN  /\ At(u, "publish")
        /\ \E outcome \in PublishOutcomes :
            /\ IF outcome = "refused" THEN UNCHANGED queue ELSE Requeue(c.task)
            /\ IF outcome = "stored"
               THEN Return(u)
               ELSE Goto(u, [c EXCEPT !.pc = rollback])
        /\ UNCHANGED status

\* rollbackRetriedTask: compare-and-swap from CREATED to the status found.
RollbackRetried(u) ==
    LET c == call[u]
    IN  /\ At(u, "undo")
        /\ IF UpdateStatusIfCurrent(c.task, "CREATED")
           THEN SetStatus(c.task, c.orig)
           ELSE UNCHANGED status
        /\ Return(u)
        /\ UNCHANGED queue

\* IngestionTaskDAO.Delete (remove, and rollbackCreatedTask): SELECT the row
\* and refuse when its task executes ...
DeleteRead(u) ==
    LET c == call[u]
    IN  /\ At(u, "delread")
        /\ IF status[c.task] \in RowStatus \ Executing
           THEN Goto(u, [c EXCEPT !.pc = "delete"])
           ELSE Return(u)
        /\ UNCHANGED <<status, queue>>

\* ... then DELETE ... WHERE id = t.
DeleteRow(u) ==
    LET c == call[u]
    IN  /\ At(u, "delete")
        /\ IF Exists(c.task)
           THEN SetStatus(c.task, "GONE")
           ELSE UNCHANGED status
        /\ Return(u)
        /\ UNCHANGED queue

\* The row of t was made CREATED by u's request, which is still to publish its
\* message or to take the row back.
Enqueuing(u, t) ==
    /\ call[u].task = t
    /\ call[u].op \in {"retry", "create"}
    /\ call[u].pc \in {"publish", "undo", "delread", "delete"}

\* A request ends at any of its calls, because the database answers with an
\* error, its context is cancelled or the server process exits.  One that has
\* made a row CREATED leaves it so: between the write and the publish, and
\* when the rollback itself fails ("rollback failed: ...").  A write that is
\* made although its caller sees an error is the write, then this step.
RequestFails(u) ==
    /\ ~At(u, "idle")
    /\ stranded' = stranded \cup {t \in Tasks : /\ Enqueuing(u, t)
                                              /\ status[t] = "CREATED"
                                              /\ queue[t] = 0}
    /\ Return(u)
    /\ UNCHANGED <<status, queue>>

\* Any later write to a stranded row takes it out of the history.
StrandedKept == stranded' = {t \in stranded : status'[t] = "CREATED"}

-----------------------------------------------------------------------------
Init ==
    /\ stranded = {}
    /\ status = [t \in Tasks |-> "FRESH"]
    /\ queue = [t \in Tasks |-> 0]
    /\ call = [a \in Actors |-> Idle]

ServiceStep(a) == GetTask(a) \/ TransitionRead(a) \/ TransitionCAS(a)

UserStep(u) ==
    \/ BeginStop(u) \/ BeginRemove(u) \/ BeginIngest(u) \/ BeginReparse(u)
    \/ CheckTerminal(u) \/ DeleteIfTerminal(u)
    \/ Lookup(u) \/ CreateLookup(u) \/ Insert(u) \/ Publish(u)
    \/ RollbackRetried(u) \/ DeleteRead(u) \/ DeleteRow(u)

ProcStep(p) == Receive(p) \/ RunTask(p) \/ SettleMessage(p)

Next ==
    \/ /\ \/ \E a \in Actors : ServiceStep(a)
          \/ \E u \in Users : UserStep(u)
          \/ \E p \in Procs : ProcStep(p)
       /\ StrandedKept
    \/ \E u \in Users : RequestFails(u)

Spec == Init /\ [][Next]_vars

-----------------------------------------------------------------------------
TypeOK ==
    /\ status \in [Tasks -> Status]
    /\ queue \in [Tasks -> Nat]
    /\ call \in [Actors -> Call]
    /\ stranded \subseteq Tasks

\* Whatever the interleaving of ingest and re-parse requests, a document
\* never has two rows in ingestion_task: CreateAndEnqueue and
\* IngestionTaskDAO.Create both look before they insert, and only the unique
\* index on document_id makes that safe.
OneRowPerDocument == \A d \in Docs : \A s, t \in RowsOf(d) : s = t

\* No outcome of a publish and no interleaving forgets a CREATED row: a message
\* for it is queued, a process holds one and has not started it yet, or the
\* request that made it CREATED is still publishing or rolling back.  Only a
\* request that is cut off between its write and the end of its rollback strands
\* a row, with no message (ingestion_task_service.go:391-394, 406-409): later
\* ingests of its document are refused ("already exists, status: CREATED") until
\* a stop, a removal or a re-parse takes it out of that state.
Starting(p, t) == call[p].op = "start" /\ call[p].task = t

CreatedIsQueued ==
    \A t \in Tasks : status[t] = "CREATED" =>
        \/ queue[t] > 0
        \/ \E p \in Procs : Starting(p, t)
        \/ \E u \in Users : Enqueuing(u, t)
        \/ t \in stranded

\* The table keeps the promise of TaskStatus, with rows removed in any state.
Table == INSTANCE TaskStatus WITH RemovableFrom <- RowStatus
TableKeepsPromise == Table!Spec

\* The row of a task that executes (RUNNING or STOPPING) leaves the table only
\* by the DELETE by id of a removal or a rollback, whose status test is a query
\* of its own; a re-parse, which looks for executing tasks and deletes in two
\* calls, never takes the row of a task that started in between.
ReparseSparesExecuting ==
    [][\A t \in Tasks : status[t] \in Executing /\ status'[t] = "GONE"
            => \E u \in Users : At(u, "delete") /\ call[u].task = t]_vars
=============================================================================
