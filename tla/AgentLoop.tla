------------------------------ MODULE AgentLoop ------------------------------
(***************************************************************************)
(* The turn loop of the agent harness (ragflow/internal/harness/core,      *)
(* agent_loop*.go).  One goroutine takes the pushed items, plans a turn,   *)
(* runs an agent on some of them and starts over; other goroutines push,   *)
(* preempt the turn that runs and stop the loop; what a stopped loop       *)
(* leaves is put into a checkpoint that the next loop resumes.             *)
(*                                                                         *)
(* A callback of the owner (GenInput, GenResume, PrepareAgent,             *)
(* OnAgentEvents) is a step of any outcome.  The agent is external: it     *)
(* runs until it ends or its cancel function is called.  The two notify    *)
(* channels are left out: a request that is pending in an active turn has  *)
(* its token in the channel, or a watcher that is about to look.  A stop   *)
(* time-out is a later bare Stop, and a push strategy that asks for a      *)
(* preempt is a preempting push.                                           *)
(***************************************************************************)
EXTENDS Integers, Sequences, FiniteSets, SequencesExt

CONSTANTS
    Items,         \* what is pushed, each item once
    Stops,         \* calls of Stop
    PushKinds,     \* of plain, strategy, preempt, delayed
    StopKinds,     \* of bare, cancel, skip, idle
    MaxRuns,       \* bound: loops opened on the checkpoint id
    MaxFaults      \* bound: callbacks and calls of the store that fail,
                   \* contexts cancelled, turns that a watcher outlives

ASSUME AgentLoopAssumption ==
    /\ PushKinds \subseteq {"plain", "strategy", "preempt", "delayed"}
    /\ StopKinds \subseteq {"bare", "cancel", "skip", "idle"}
    /\ MaxRuns \in Nat \ {0} /\ MaxFaults \in Nat

VARIABLES
    buffer, closed, woken,    \* turnBuffer
    push,                     \* item -> its Push call: pc, kind, target turn
    ack,                      \* items whose Push returned a channel still open
    call,                     \* Stop call -> what it has left to do
    stop,                     \* stopController
    stopped,                  \* the atomic flag
    armed, firing,            \* idle timer; a goroutine that saw it fire
    ctx,                      \* context of Run: live, cancelled, or seen to be
    loop,                     \* the loop goroutine: pc, items in hand, how many
                              \* of them the turn consumes, whether it resumes
                              \* a checkpoint, runErr
    resume,                   \* pendingResume
    phase, turn, pending,     \* preemptController; items that ask to preempt
    agent,                    \* the running turn: agent, handler, channels closed
    late,                     \* old watchers that still run
    left,                     \* interruptedItems, runner bytes, captured error
    saved,                    \* the checkpoint in the store; history: is it
                              \* spent, that is, are its items elsewhere by now
    handled,                  \* history: items of turns that have returned
    returned,                 \* history: items handed back by Wait ...
    resumable,                \* history: ... which a checkpoint holds as well
    stale, replayed,          \* history: the store kept a spent checkpoint;
                              \* items that such a one brought back
    tooLate,                  \* history: pushed behind the loop's last look
    forgotten,                \* history: items nobody holds any more
    stolen,                   \* history: an old watcher took a request
    runs, faults

inbox   == <<buffer, closed, woken>>
pushes  == <<push, ack>>
control == <<call, stop, stopped, armed, firing>>
work    == <<loop, resume>>
preempt == <<phase, turn, pending>>
active  == <<agent, late, left>>
results == <<handled, returned, resumable, stale, replayed, tooLate>>
history == <<saved, results, forgotten, stolen, runs>>
vars    == <<inbox, pushes, control, ctx, work, preempt, active, history, faults>>

Elems(s)   == {s[k] : k \in DOMAIN s}
NoAgent    == [st |-> "none", handler |-> "none", bridge |-> FALSE,
               preempted |-> FALSE, stopped |-> FALSE]
Fresh      == [NoAgent EXCEPT !.st = "running", !.handler = "reading",
                              !.bridge = loop.resumes]
NoStop     == [phase |-> "open", cancel |-> FALSE, skip |-> FALSE, asked |-> FALSE]
Nothing    == [items |-> <<>>, runner |-> FALSE, captured |-> FALSE]
NoCheckpoint == [exists |-> FALSE, spent |-> FALSE, runner |-> FALSE,
                 unhandled |-> <<>>, canceled |-> <<>>]
Idle       == [pc |-> "new", items |-> <<>>, n |-> 0, resumes |-> FALSE, err |-> "none"]
Checkpointed == Elems(saved.unhandled) \cup Elems(saved.canceled)
Committed  == stop.phase = "committed"
Ended      == loop.pc = "done"
InPush     == {i \in Items : push[i].pc \in {"begun", "sent"}}
Fails      == faults < MaxFaults /\ faults' = faults + 1

Init ==
    /\ buffer = <<>> /\ closed = FALSE /\ woken = FALSE
    /\ stop = NoStop /\ stopped = FALSE /\ armed = FALSE /\ firing = FALSE
    /\ ctx = "live" /\ loop = Idle /\ resume = [on |-> FALSE, items |-> <<>>]
    /\ phase = "idle" /\ turn = 0 /\ pending = {}
    /\ agent = NoAgent /\ late = {} /\ left = Nothing
    /\ push = [i \in Items |-> [pc |-> "idle", kind |-> "plain", target |-> 0]]
    /\ ack = {}
    /\ call = [s \in Stops |-> "idle"]
    /\ saved = NoCheckpoint
    /\ handled = {} /\ returned = {} /\ tooLate = {} /\ forgotten = {}
    /\ resumable = {} /\ replayed = {} /\ stale = FALSE
    /\ stolen = FALSE /\ runs = 1 /\ faults = 0
-----------------------------------------------------------------------------
(* Push.                                                                    *)

At(i, pc) ==
    push' = [push EXCEPT ![i].pc = pc,
                         ![i].kind = IF pc \in {"accepted", "late"} THEN "plain" ELSE @]

(* A push without a strategy looks at the flag first.                       *)
CheckStopped(i, kind) ==
    /\ push[i].pc = "idle" /\ kind \in PushKinds \ {"strategy"}
    /\ IF stopped THEN At(i, "late")
       ELSE push' = [push EXCEPT ![i].kind = kind, ![i].pc = "checked"]
    /\ UNCHANGED <<inbox, ack, control, ctx, work, preempt, active, history, faults>>

(* beginPush: the turn that the request is aimed at.                        *)
BeginPush(i) ==
    /\ \/ push[i].pc = "checked" /\ push[i].kind \in {"preempt", "delayed"}
          /\ UNCHANGED ack
          /\ push' = [push EXCEPT ![i].pc = "begun",
                                  ![i].target = IF phase = "idle" THEN 0 ELSE turn]
       \/ push[i].pc = "idle" /\ "strategy" \in PushKinds
          /\ UNCHANGED ack
          /\ push' = [push EXCEPT ![i].pc = "begun", ![i].kind = "strategy"]
    /\ UNCHANGED <<inbox, control, ctx, work, preempt, active, history, faults>>

(* TrySend; a closed buffer makes the item a late one.  A preempt of a loop *)
(* that has not been started is acknowledged at once.                       *)
TrySend(i) ==
    LET asks == push[i].kind \in {"preempt", "delayed"} IN
    /\ push[i].pc = IF push[i].kind = "plain" THEN "checked" ELSE "begun"
    /\ IF closed THEN At(i, "late") /\ UNCHANGED <<buffer, ack>>
       ELSE /\ buffer' = Append(buffer, i)
            /\ IF ~asks THEN At(i, "accepted") /\ UNCHANGED ack
               ELSE IF loop.pc = "new"
               THEN At(i, "accepted") /\ UNCHANGED ack
               ELSE /\ At(i, IF push[i].kind = "delayed" THEN "waiting" ELSE "sent")
                    /\ ack' = ack \cup {i}
    /\ UNCHANGED <<closed, woken, control, ctx, work, preempt, active, history, faults>>

(* Mutants: a request is acknowledged while its turn is planned; only the   *)
(* numbers of the turns are compared.                                       *)
OnlyActive(i) == phase = "active" /\ push[i].target = turn
SameTurn(i)   == push[i].target = turn

(* The turn the push has seen is still the turn of the loop.                *)
OnTarget(i) == push[i].target # 0 /\ phase # "idle" /\ push[i].target = turn

(* requestPreempt.                                                          *)
Request(i) ==
    /\ At(i, "accepted")
    /\ IF ~Ended /\ OnTarget(i)
       THEN pending' = pending \cup {i} /\ UNCHANGED ack
       ELSE ack' = ack \ {i} /\ UNCHANGED pending
    /\ UNCHANGED <<inbox, control, ctx, work, phase, turn, active, history, faults>>

RequestPreempt(i) == push[i].pc = "sent" /\ Request(i)

(* The goroutine of a delayed preempt: the delay is over or the loop is     *)
(* done, and then Request closes the channel.                               *)
DelayEnds(i) == push[i].pc = "waiting" /\ Request(i)
-----------------------------------------------------------------------------
(* Stop.                                                                    *)

(* Mutant: a Stop between two turns, or while one is planned, has no agent  *)
(* to cancel.                                                               *)
CancelsActive(kind) == stop.cancel \/ (kind # "bare" /\ phase = "active")

(* What is pending after a Stop; it waits for a turn that is not active yet.*)
CancelPending(kind) == stop.cancel \/ kind # "bare"

(* requestStop.  An idle stop only counts before a commit, and only once;   *)
(* cancel options are kept for the turn that is or will be active.          *)
Stop(s, kind) ==
    /\ call[s] = "idle" /\ kind \in StopKinds
    /\ IF Ended THEN call' = [call EXCEPT ![s] = "done"] /\ UNCHANGED stop
       ELSE IF kind = "idle"
       THEN /\ stop' = [stop EXCEPT !.phase = IF @ = "open" THEN "idle" ELSE @]
            /\ call' = [call EXCEPT ![s] = IF stop'.phase = "idle" THEN "wake" ELSE "done"]
       ELSE /\ stop' = [phase  |-> "committed",
                        cancel |-> CancelPending(kind),
                        skip   |-> stop.skip \/ kind = "skip",
                        asked  |-> stop.asked \/ kind # "bare"]
            /\ call' = [call EXCEPT ![s] = IF Committed THEN "done" ELSE "close"]
    /\ UNCHANGED <<inbox, pushes, stopped, armed, firing, ctx, work, preempt,
                   active, history, faults>>

Wakeup(s) ==
    /\ call[s] = "wake"
    /\ call' = [call EXCEPT ![s] = "done"] /\ woken' = TRUE
    /\ UNCHANGED <<buffer, closed, pushes, stop, stopped, armed, firing, ctx,
                   work, preempt, active, history, faults>>

FinishStopCommit(s) ==
    /\ call[s] = "close"
    /\ call' = [call EXCEPT ![s] = "done"]
    /\ stopped' = TRUE /\ closed' = TRUE
    /\ UNCHANGED <<buffer, woken, pushes, stop, armed, firing, ctx, work,
                   preempt, active, history, faults>>

(* The goroutine beside an idle Receive: the timer fires ...                *)
TimerFires ==
    /\ armed /\ armed' = FALSE /\ firing' = TRUE
    /\ UNCHANGED <<inbox, pushes, call, stop, stopped, ctx, work, preempt,
                   active, history, faults>>

(* ... and it commits the stop, however long after that.                    *)
CommitStop ==
    /\ firing /\ firing' = FALSE
    /\ IF Ended \/ Committed THEN UNCHANGED <<stop, stopped, closed>>
       ELSE /\ stop' = [stop EXCEPT !.phase = "committed"]
            /\ stopped' = TRUE /\ closed' = TRUE
    /\ UNCHANGED <<buffer, woken, pushes, call, armed, ctx, work, preempt,
                   active, history, faults>>

CancelContext ==
    /\ ctx = "live" /\ ~Ended /\ Fails
    /\ ctx' = "cancelled"
    /\ UNCHANGED <<inbox, pushes, control, work, preempt, active, history>>

(* The goroutine that run starts beside the loop.                           *)
MonitorContext ==
    /\ ctx = "cancelled" /\ loop.pc \notin {"new", "load", "done"}
    /\ ctx' = "closed" /\ closed' = TRUE
    /\ UNCHANGED <<buffer, woken, pushes, control, work, preempt, active,
                   history, faults>>
-----------------------------------------------------------------------------
(* The loop goroutine.                                                      *)

Go(pc)       == loop' = [loop EXCEPT !.pc = pc]
PushFront(s) == buffer' = s \o buffer
Acked(is)    == ack' = ack \ is
Exit(err)    == loop' = [Idle EXCEPT !.pc = "cleanup", !.err = err]

Start ==
    /\ loop.pc = "new" /\ Go("load")
    /\ UNCHANGED <<inbox, pushes, control, ctx, resume, preempt, active, history, faults>>

(* Items that a checkpoint which should be gone brings back: they have been  *)
(* handled or handed out, and start over.                                   *)
Replayed == IF saved.spent THEN Checkpointed ELSE {}

(* tryLoadCheckpoint.  Only a checkpoint with runner state is resumed; of   *)
(* any other the unhandled items go to the front of the buffer.             *)
LoadCheckpoint ==
    /\ loop.pc = "load" /\ Go("top")
    /\ IF saved.exists /\ saved.runner
       THEN /\ resume' = [on |-> TRUE,
                          items |-> saved.canceled \o saved.unhandled \o buffer]
            /\ buffer' = <<>>
            /\ forgotten' = forgotten \ Replayed
       ELSE /\ PushFront(saved.unhandled)
            /\ forgotten' = (forgotten \ Replayed) \cup Elems(saved.canceled)
            /\ UNCHANGED resume
    /\ saved' = [saved EXCEPT !.spent = saved.exists]
    /\ replayed' = replayed \cup Replayed
    /\ handled' = handled \ Replayed /\ returned' = returned \ Replayed
    /\ UNCHANGED <<closed, woken, pushes, control, ctx, preempt, active, resumable,
                   stale, tooLate, stolen, runs, faults>>

(* The store cannot be read, or what it holds cannot be decoded.            *)
LoadFails ==
    /\ loop.pc = "load" /\ Fails /\ Exit("error")
    /\ UNCHANGED <<inbox, pushes, control, ctx, resume, preempt, active, history>>

(* The head of the loop.  A committed stop leaves at once, with whatever    *)
(* was to be resumed.                                                       *)
Top ==
    /\ loop.pc = "top"
    /\ IF Committed
       THEN /\ Exit("none")
            /\ forgotten' = forgotten \cup Elems(resume.items)
            /\ resume' = [on |-> FALSE, items |-> <<>>]
            /\ UNCHANGED <<armed, woken>>
       ELSE IF resume.on
       THEN Go("drain") /\ UNCHANGED <<armed, woken, resume, forgotten>>
       ELSE IF stop.phase = "idle"
       THEN Go("idling") /\ armed' = TRUE /\ woken' = FALSE
            /\ UNCHANGED <<resume, forgotten>>
       ELSE Go("receive") /\ UNCHANGED <<armed, woken, resume, forgotten>>
    /\ UNCHANGED <<buffer, closed, pushes, call, stop, stopped, firing, ctx,
                   preempt, active, saved, results, stolen, runs, faults>>

(* Receive returns the first item, or nothing when it was closed or woken.  *)
Receive ==
    /\ loop.pc \in {"receive", "idling"}
    /\ buffer # <<>> \/ closed \/ woken
    /\ woken' = FALSE
    /\ loop' = [loop EXCEPT
                  !.items = IF buffer = <<>> THEN <<>> ELSE <<Head(buffer)>>,
                  !.pc = IF @ = "idling" THEN "idled" ELSE "received"]
    /\ buffer' = IF buffer = <<>> THEN <<>> ELSE Tail(buffer)
    /\ UNCHANGED <<closed, pushes, control, ctx, resume, preempt, active, history, faults>>

CtxErr == IF ctx = "live" THEN "none" ELSE "error"

(* Mutant: the item in hand is not put back.                                *)
KeepFirst == UNCHANGED buffer

GiveBackFirst == PushFront(loop.items)

(* What follows either Receive.                                             *)
Received ==
    IF loop.items = <<>> THEN Exit(CtxErr) /\ UNCHANGED buffer
    ELSE IF ctx # "live" THEN GiveBackFirst /\ Exit("error")
    ELSE IF Committed    THEN GiveBackFirst /\ Exit("none")
    ELSE Go("drain") /\ UNCHANGED buffer

(* After a Receive without a timer.                                         *)
ReceivedItem ==
    /\ loop.pc = "received"
    /\ IF loop.items = <<>> /\ stop.phase = "idle"
       THEN Go("top") /\ UNCHANGED buffer
       ELSE Received
    /\ UNCHANGED <<closed, woken, pushes, control, ctx, resume, preempt, active,
                   history, faults>>

(* After a Receive under the idle timer, which is stopped.  When the flag   *)
(* is set the loop leaves with the item in its hand.                        *)
ReceivedWhileIdle ==
    /\ loop.pc = "idled" /\ armed' = FALSE
    /\ IF loop.items = <<>> /\ ~closed
       THEN /\ IF ctx = "live" THEN Go("top") ELSE Exit("error")
            /\ UNCHANGED <<buffer, forgotten>>
       ELSE IF stopped
       THEN /\ Exit("none") /\ UNCHANGED buffer
            /\ forgotten' = forgotten \cup Elems(loop.items)
       ELSE Received /\ UNCHANGED forgotten
    /\ UNCHANGED <<closed, woken, pushes, call, stop, stopped, firing, ctx, resume,
                   preempt, active, saved, results, stolen, runs, faults>>

(* waitForPushes, then TakeAll.                                             *)
Drain ==
    /\ loop.pc = "drain" /\ InPush = {}
    /\ loop' = [loop EXCEPT !.pc = "begin",
                  !.items = (IF resume.on THEN resume.items ELSE @) \o buffer,
                  !.resumes = resume.on]
    /\ buffer' = <<>> /\ resume' = [on |-> FALSE, items |-> <<>>]
    /\ UNCHANGED <<closed, woken, pushes, control, ctx, preempt, active, history, faults>>

BeginPlanningTurn ==
    /\ loop.pc = "begin" /\ Go("plan")
    /\ phase' = "planning" /\ turn' = turn + 1
    /\ UNCHANGED <<inbox, pushes, control, ctx, resume, pending, active, history, faults>>

(* abortPlanningTurn.                                                       *)
AbortPlanningTurn == phase' = "idle" /\ pending' = {} /\ Acked(pending)

Abort(err) == AbortPlanningTurn /\ PushFront(loop.items) /\ Exit(err)

PlanFails ==
    /\ loop.pc \in {"plan", "prepare"} /\ Fails
    /\ Abort("error")
    /\ UNCHANGED <<closed, woken, push, control, ctx, resume, turn, active, history>>

(* GenInput or GenResume: the turn consumes a prefix, the rest remains.     *)
PlanTurn(n) ==
    /\ loop.pc = "plan"
    /\ n \in (IF loop.items = <<>> THEN {0} ELSE 1..Len(loop.items))
    /\ IF Committed THEN Abort("none")
       ELSE loop' = [loop EXCEPT !.pc = "prepare", !.n = n]
            /\ UNCHANGED <<buffer, ack, phase, pending>>
    /\ UNCHANGED <<closed, woken, push, control, ctx, resume, turn, active, history, faults>>

(* PrepareAgent, and the last look at the stop before the turn.             *)
PrepareAgent ==
    /\ loop.pc = "prepare"
    /\ IF Committed THEN Abort("none")
       ELSE /\ PushFront(SubSeq(loop.items, loop.n + 1, Len(loop.items)))
            /\ loop' = [loop EXCEPT !.pc = "launch", !.n = 0,
                                    !.items = SubSeq(@, 1, loop.n)]
            /\ UNCHANGED <<ack, phase, pending>>
    /\ UNCHANGED <<closed, woken, push, control, ctx, resume, turn, active, history, faults>>

(* beginActiveTurn of both controllers: what was asked for meanwhile is     *)
(* pending in the turn.                                                     *)
BeginActiveTurn ==
    /\ loop.pc = "launch"
    /\ loop' = [loop EXCEPT !.pc = "turn", !.resumes = FALSE]
    /\ phase' = "active" /\ agent' = Fresh /\ left' = Nothing
    /\ UNCHANGED <<inbox, pushes, control, ctx, resume, turn, pending, late,
                   history, faults>>

(* A turn that resumes the runner from bytes it cannot read, or an agent    *)
(* that does not resume, ends at once; its items are in no result.          *)
ResumeFails ==
    /\ loop.pc = "launch" /\ loop.resumes /\ Fails
    /\ forgotten' = forgotten \cup Elems(loop.items)
    /\ phase' = "idle" /\ pending' = {} /\ Acked(pending)
    /\ stop' = [stop EXCEPT !.cancel = FALSE]
    /\ left' = Nothing /\ Exit("error")
    /\ UNCHANGED <<inbox, push, call, stopped, armed, firing, ctx, resume, turn,
                   agent, late, saved, results, stolen, runs>>
-----------------------------------------------------------------------------
(* The active turn.                                                         *)

(* The cancel function: whether it contributes, and the agent after it.  An *)
(* agent that ended by itself takes a cancel or not, depending on how.      *)
Contributes(c) ==
    CASE agent.st \in {"running", "cancelling"} -> c
      [] agent.st = "cancelled" -> ~c
      [] OTHER -> TRUE
AfterCancel == IF agent.st = "running" THEN "cancelling" ELSE agent.st

WatchPreempt ==
    /\ phase = "active" /\ pending # {}
    /\ \E c \in BOOLEAN :
          /\ Contributes(c)
          /\ agent' = [agent EXCEPT !.st = AfterCancel, !.preempted = @ \/ c]
    /\ pending' = {} /\ Acked(pending)
    /\ UNCHANGED <<inbox, push, control, ctx, work, phase, turn, late, left, history, faults>>

WatchStop ==
    /\ phase = "active" /\ stop.cancel
    /\ \E c \in BOOLEAN :
          /\ Contributes(c)
          /\ agent' = [agent EXCEPT !.st = AfterCancel, !.stopped = @ \/ c]
    /\ stop' = [stop EXCEPT !.cancel = FALSE]
    /\ UNCHANGED <<inbox, pushes, call, stopped, armed, firing, ctx, work,
                   preempt, late, left, history, faults>>

(* A watcher of an earlier turn that found its channel ready before it saw  *)
(* that its turn is done: it cancels the agent of that turn.                *)
OldWatch(w) ==
    /\ w \in late /\ phase = "active"
    /\ IF w = "preempt" THEN pending # {} ELSE stop.cancel
    /\ pending' = IF w = "preempt" THEN {} ELSE pending
    /\ Acked(pending \ pending')
    /\ stop' = [stop EXCEPT !.cancel = @ /\ w # "stop"]
    /\ stolen' = TRUE
    /\ UNCHANGED <<inbox, push, call, stopped, armed, firing, ctx, work, phase, turn,
                   active, saved, results, forgotten, runs, faults>>

OldWatchersEnd ==
    /\ late # {} /\ late' = {}
    /\ UNCHANGED <<inbox, pushes, control, ctx, work, preempt, agent, left, history, faults>>

(* The agent ends by itself or interrupts itself; an interrupt is stored    *)
(* for the runner.                                                          *)
AgentEnds ==
    /\ loop.pc = "turn" /\ agent.st = "running"
    /\ \E how \in {"finished", "interrupted"} :
          agent' = [agent EXCEPT !.st = how, !.bridge = @ \/ how = "interrupted"]
    /\ UNCHANGED <<inbox, pushes, control, ctx, work, preempt, late, left, history, faults>>

(* A cancelled agent ends with a CancelError, with an interrupt signal that *)
(* the runner stores, or without one.                                       *)
AgentCancelled ==
    /\ loop.pc = "turn" /\ agent.st = "cancelling"
    /\ \E b \in BOOLEAN : agent' = [agent EXCEPT !.st = "cancelled", !.bridge = @ \/ b]
    /\ UNCHANGED <<inbox, pushes, control, ctx, work, preempt, late, left, history, faults>>

(* OnAgentEvents has read the events to the end, or fails or panics before. *)
HandlerReturns ==
    /\ loop.pc = "turn" /\ agent.handler = "reading"
    /\ \/ /\ agent.st \in {"finished", "interrupted", "cancelled"}
          /\ agent' = [agent EXCEPT !.handler = "ok"] /\ UNCHANGED faults
       \/ agent' = [agent EXCEPT !.handler = "error"] /\ Fails
    /\ UNCHANGED <<inbox, pushes, control, ctx, work, preempt, late, left, history>>

(* endActiveTurn of both controllers.                                       *)
EndActiveTurn ==
    /\ phase' = "idle" /\ pending' = {} /\ Acked(pending)
    /\ stop' = [stop EXCEPT !.cancel = FALSE]
    /\ agent' = NoAgent
    /\ \/ UNCHANGED <<late, faults>>
       \/ Fails /\ \E w \in {"preempt", "stop"} : late' = late \cup {w}

(* The preemptDone branch: the turn is over, its items are gone with it.    *)
TurnPreempted ==
    /\ loop.pc = "turn" /\ agent.handler \in {"ok", "error"} /\ agent.preempted
    /\ EndActiveTurn
    /\ handled' = handled \cup Elems(loop.items)
    /\ loop' = [Idle EXCEPT !.pc = "top"] /\ UNCHANGED left
    /\ UNCHANGED <<inbox, push, call, stopped, armed, firing, ctx, resume, turn,
                   saved, returned, resumable, stale, replayed, tooLate, forgotten,
                   stolen, runs>>

(* The done and stoppedDone branches, and what run makes of their result:   *)
(* the items of a turn that was cancelled are kept.  When the handler has   *)
(* left a cancelled agent early its error may or may not be in already.     *)
TurnDone ==
    /\ loop.pc = "turn" /\ agent.handler \in {"ok", "error"}
    /\ ~agent.preempted \/ agent.stopped
    /\ \E captured \in {agent.st = "cancelled", agent.st \in {"cancelling", "cancelled"}} :
       LET err == IF agent.handler = "error" THEN "error"
                  ELSE IF captured THEN "cancel" ELSE "none"
           kept == err # "none" /\ captured IN
       /\ left' = [items    |-> IF kept THEN loop.items ELSE <<>>,
                   runner   |-> agent.bridge,
                   captured |-> captured]
       /\ handled' = IF kept THEN handled ELSE handled \cup Elems(loop.items)
       /\ IF err = "none" THEN loop' = [Idle EXCEPT !.pc = "top"] ELSE Exit(err)
    /\ EndActiveTurn
    /\ UNCHANGED <<inbox, push, call, stopped, armed, firing, ctx, resume, turn,
                   saved, returned, resumable, stale, replayed, tooLate, forgotten,
                   stolen, runs>>
-----------------------------------------------------------------------------
(* cleanup.                                                                 *)

ShouldSaveCheckpoint ==
    /\ ~stop.skip
    /\ left.runner \/ left.items # <<>>
    /\ Committed
    /\ loop.err \in {"none", "cancel"} \/ left.captured

(* What the loop hands back: the unhandled and the interrupted items.  A     *)
(* checkpoint that goes unread takes its own with it.                       *)
Result == Elems(buffer) \cup Elems(left.items)
Unread == IF saved.spent THEN {} ELSE Checkpointed

(* saveTurnLoopCheckpoint.  Set may fail, before or after it has written.   *)
SaveCheckpoint ==
    LET next == [exists |-> TRUE, spent |-> FALSE, runner |-> left.runner,
                 unhandled |-> buffer, canceled |-> left.items]
    IN  \/ /\ saved' = next
           /\ resumable' = resumable \cup Result
           /\ forgotten' = forgotten \cup Unread
           /\ UNCHANGED <<stale, faults>>
        \/ /\ Fails
           /\ resumable' = resumable \ Result
           /\ \/ UNCHANGED <<saved, forgotten>>
              \/ /\ saved' = [next EXCEPT !.spent = TRUE]
                 /\ forgotten' = forgotten \cup Unread
           /\ stale' = (stale \/ saved'.spent)

(* Mutant: the checkpoint of a loop that needs none is left in the store.   *)
KeepCheckpoint ==
    /\ resumable' = resumable \ Result
    /\ UNCHANGED <<saved, forgotten, stale, faults>>

(* deleteTurnLoopCheckpoint: its error is ignored, and a store that is no   *)
(* CheckPointDeleter keeps what it has.                                     *)
DeleteCheckpoint ==
    /\ resumable' = resumable \ Result
    /\ \/ /\ saved' = NoCheckpoint
          /\ forgotten' = forgotten \cup Unread
          /\ UNCHANGED <<stale, faults>>
       \/ /\ saved.exists /\ Fails /\ stale' = (stale \/ saved.spent)
          /\ UNCHANGED <<saved, forgotten>>

(* TakeAll; the checkpoint is written or the loaded one deleted; whichever  *)
(* it is, all that is left is in the result of Wait.                        *)
TakeUnhandled ==
    /\ loop.pc = "cleanup" /\ Go("close")
    /\ stopped' = TRUE
    /\ IF ShouldSaveCheckpoint THEN SaveCheckpoint ELSE DeleteCheckpoint
    /\ returned' = returned \cup Result
    /\ buffer' = <<>> /\ left' = Nothing
    /\ UNCHANGED <<closed, woken, pushes, call, stop, armed, firing, ctx, resume,
                   preempt, agent, late, handled, replayed, tooLate, stolen, runs>>

(* The controllers and the buffer are closed: an item that came in since    *)
(* was accepted and is in nobody's result.                                  *)
CloseLoop ==
    /\ loop.pc = "close" /\ Go("done")
    /\ closed' = TRUE /\ buffer' = <<>>
    /\ tooLate' = tooLate \cup Elems(buffer)
    /\ stop' = [stop EXCEPT !.cancel = FALSE]
    /\ UNCHANGED <<woken, pushes, call, stopped, armed, firing, ctx, resume, preempt,
                   active, saved, handled, returned, resumable, stale, replayed, forgotten,
                   stolen, runs, faults>>

(* The owner opens a new loop on the same checkpoint, when nobody is inside *)
(* a call of the old one.                                                   *)
Reopen ==
    /\ Ended /\ runs < MaxRuns /\ runs' = runs + 1
    /\ \A i \in Items : push[i].pc \in {"idle", "accepted", "late"}
    /\ \A s \in Stops : call[s] \in {"idle", "done"}
    /\ ~firing
    /\ buffer' = <<>> /\ closed' = FALSE /\ woken' = FALSE
    /\ stop' = NoStop /\ stopped' = FALSE /\ armed' = FALSE /\ firing' = FALSE
    /\ ctx' = "live" /\ loop' = Idle /\ resume' = [on |-> FALSE, items |-> <<>>]
    /\ phase' = "idle" /\ turn' = 0 /\ pending' = {}
    /\ agent' = NoAgent /\ late' = {} /\ left' = Nothing
    /\ push' = [i \in Items |-> [push[i] EXCEPT !.target = 0]]
    /\ UNCHANGED ack
    /\ UNCHANGED <<call, saved, results, forgotten, stolen, faults>>

LoopStep ==
    \/ LoadCheckpoint \/ LoadFails \/ Top
    \/ Receive \/ ReceivedItem \/ ReceivedWhileIdle
    \/ Drain \/ BeginPlanningTurn \/ PlanFails
    \/ \E n \in 0..Cardinality(Items) : PlanTurn(n)
    \/ PrepareAgent \/ BeginActiveTurn \/ ResumeFails
    \/ TurnPreempted \/ TurnDone \/ TakeUnhandled \/ CloseLoop

PushStep(i) == BeginPush(i) \/ TrySend(i) \/ RequestPreempt(i) \/ DelayEnds(i)

Next ==
    \/ LoopStep \/ Start \/ Reopen
    \/ \E i \in Items : PushStep(i) \/ \E k \in PushKinds : CheckStopped(i, k)
    \/ \E s \in Stops :
          \/ \E k \in StopKinds : Stop(s, k)
          \/ Wakeup(s) \/ FinishStopCommit(s)
    \/ TimerFires \/ CommitStop \/ CancelContext \/ MonitorContext
    \/ WatchPreempt \/ WatchStop \/ OldWatchersEnd
    \/ \E w \in {"preempt", "stop"} : OldWatch(w)
    \/ AgentEnds \/ AgentCancelled \/ HandlerReturns

Spec == Init /\ [][Next]_vars

(* What needs no caller: the goroutines of the loop, calls that have begun, *)
(* delays and timers, callbacks, and the end of an agent that is cancelled. *)
Progress ==
    \/ LoopStep \/ TimerFires \/ CommitStop \/ MonitorContext
    \/ \E i \in Items : push[i].pc # "idle" /\ PushStep(i)
    \/ \E s \in Stops : Wakeup(s) \/ FinishStopCommit(s)
    \/ WatchPreempt \/ WatchStop \/ AgentCancelled \/ HandlerReturns

(* While any of that can happen, some of it does.  An agent that nobody     *)
(* cancels may run for ever; nobody need push, stop, start or fail.         *)
FairSpec == Spec /\ WF_vars(Progress)
-----------------------------------------------------------------------------
(* Properties.                                                              *)

Lines == {s \in Seq(Items) : IsInjective(s)}

(* Types; sequences never hold an item twice, preempts are pending only in  *)
(* a turn and only for that turn (the controller panics otherwise).         *)
TypeOK ==
    /\ buffer \in Lines /\ closed \in BOOLEAN /\ woken \in BOOLEAN
    /\ push \in [Items -> [pc : {"idle", "checked", "begun", "sent", "waiting",
                                 "accepted", "late"},
                           kind : {"plain", "strategy", "preempt", "delayed"},
                           target : Nat]]
    /\ pending \subseteq ack /\ ack \subseteq Items
    /\ call \in [Stops -> {"idle", "wake", "close", "done"}]
    /\ stop \in [phase : {"open", "idle", "committed"}, cancel : BOOLEAN,
                 skip : BOOLEAN, asked : BOOLEAN]
    /\ {stopped, armed, firing} \subseteq BOOLEAN
    /\ ctx \in {"live", "cancelled", "closed"}
    /\ loop \in [pc : {"new", "load", "top", "receive", "idling", "received",
                       "idled", "drain", "begin", "plan", "prepare", "launch", "turn",
                       "cleanup", "close", "done"},
                 items : Lines, n : Nat, resumes : BOOLEAN,
                 err : {"none", "error", "cancel"}]
    /\ resume \in [on : BOOLEAN, items : Lines]
    /\ phase \in {"idle", "planning", "active"}
    /\ turn \in Nat
    /\ agent \in [st : {"none", "running", "cancelling", "finished",
                        "interrupted", "cancelled"},
                  handler : {"none", "reading", "ok", "error"},
                  bridge : BOOLEAN, preempted : BOOLEAN, stopped : BOOLEAN]
    /\ late \subseteq {"preempt", "stop"}
    /\ left \in [items : Lines, runner : BOOLEAN, captured : BOOLEAN]
    /\ saved \in [exists : BOOLEAN, spent : BOOLEAN, runner : BOOLEAN,
                  unhandled : Lines, canceled : Lines]
    /\ UNION {handled, returned, resumable, replayed, tooLate, forgotten} \subseteq Items
    /\ {stolen, stale} \subseteq BOOLEAN /\ runs \in 1..MaxRuns /\ faults \in 0..MaxFaults
    /\ \A i \in pending : phase # "idle" /\ push[i].target = turn

(* Where an item that Push accepted can be.  The result of Wait shows also   *)
(* what a checkpoint holds, and says so: that is the owner's to push again  *)
(* only when no loop will resume it.                                        *)
Places ==
    << Elems(buffer), Elems(loop.items), Elems(resume.items), Elems(left.items),
       Unread, handled, returned \ resumable, tooLate, forgotten >>

(* Through stops, preempts, cancelled contexts, failing callbacks and       *)
(* restarts an accepted item is in one place and in one only: waiting, in   *)
(* the turn, in a checkpoint that is still to be read, in the result of     *)
(* Wait for its owner to push again, or handled by one turn.  It is         *)
(* forgotten only where the actions above say that it is.  It starts over,  *)
(* and may be handled a second time, only from a checkpoint whose deletion  *)
(* or writing failed (agent_loop.go:183-198, agent_loop_checkpoint.go:44).  *)
Accounted ==
    /\ \A i \in Items : push[i].pc \in {"sent", "waiting", "accepted"} =>
          \E k \in DOMAIN Places : \A j \in DOMAIN Places : i \in Places[j] <=> j = k
    /\ replayed # {} => stale

(* The channel of a preempting Push closes in the end, and not before the   *)
(* turn it was aimed at has ended or its agent has been told to cancel.     *)
AckedInTime ==
    [][\A i \in Items : i \in ack \ ack' =>
          \/ push[i].target \in {0} \cup (Nat \ {turn})
          \/ phase' = "idle"
          \/ phase = "active" /\ agent'.st # "running"
          \/ stolen']_vars

PreemptAcked == AckedInTime /\ \A i \in Items : i \in ack ~> i \notin ack

(* A Stop that cancels ends the loop, in whatever state it finds it and     *)
(* whatever else is pushed or preempted, with an agent that would not end   *)
(* by itself.                                                               *)
StopEnds ==
    stop.asked /\ loop.pc # "new" ~> loop.pc \in {"done", "new"} \/ stolen
=============================================================================
