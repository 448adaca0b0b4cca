------------------------- MODULE GraphEngineProofs -------------------------
(* What holds of the graph engine for every set of graphs and nodes, any       *)
(* limits and any number of runs: types; that fan-in reads what the            *)
(* predecessors last returned and that a clean end is complete; that the run   *)
(* after a pause starts with the nodes that interrupted themselves and repeats *)
(* nothing.                                                                    *)
EXTENDS GraphEngine, TLAPS

-----------------------------------------------------------------------------
(* The type invariant, by what the actions change together.                   *)

Good == {cp \in Checkpoints : IsCheckpoint(cp)}

Hows == {"none", "done", "failed", "limit", "cancelled", "before", "task", "after", "crash"}

Control ==
    /\ conf \in Configs
    /\ phase \in {"idle", "loop", "execute"}
    /\ step \in 0..RecursionLimit
    /\ phase = "execute" => step < RecursionLimit
    /\ phase # "idle" => runs > 0
    /\ runs \in 0..conf.runs

Progress ==
    /\ chans \in Channels /\ completed \in SUBSET Nodes
    /\ last \in completed \cup {None}
    /\ completed = {} <=> last = None

Work ==
    /\ tasks \in [Nodes -> {"off", "run", "ok", "err", "asks"}]
    /\ phase = "execute" <=> Active # {}
    /\ tries \in [Nodes -> 0..(MaxAttempts - 1)]

Store ==
    /\ deferred \in Seq(Good)
    /\ \A p \in pending : p.cp \in Good /\ p.run \in 1..runs /\ p.step \in 0..(RecursionLimit - 1)
    /\ saved # None => saved \in Good

History ==
    /\ end \in [how : Hows, nodes : SUBSET Nodes, done : SUBSET Nodes]
    /\ execs \in [Nodes -> Nat] /\ ran \in SUBSET Nodes

IInv == Control /\ Progress /\ Work /\ Store /\ History

LEMMA InvTypes == IInv /\ cancelled \in BOOLEAN => TypeOK
  <1> SUFFICES ASSUME IInv, cancelled \in BOOLEAN PROVE TypeOK
    OBVIOUS
  <1>1. \A cp \in Good : IsCheckpoint(cp)
    BY DEF Good
  <1>2. IsCheckpoint(Checkpoint(chans, completed, last))
    BY DEF IInv, Progress, Checkpoints, IsCheckpoint, Checkpoint
  <1>3. \A i \in DOMAIN deferred : IsCheckpoint(deferred[i])
    BY <1>1 DEF IInv, Store
  <1>4. \A p \in pending : IsCheckpoint(p.cp) /\ p.run \in 1..runs /\ p.step \in 0..(RecursionLimit - 1)
    BY <1>1 DEF IInv, Store
  <1>5. saved # None => IsCheckpoint(saved)
    BY <1>1 DEF IInv, Store
  <1> QED
    BY <1>2, <1>3, <1>4, <1>5 DEF IInv, Control, Progress, Work, History, Hows, TypeOK

-----------------------------------------------------------------------------
(* Graphs and checkpoints.                                                    *)

LEMMA GraphTypes ==
    ASSUME conf \in Configs
    PROVE  /\ conf \in Config
           /\ \A n \in Nodes : Preds(n) \subseteq Nodes /\ Successors(n) \subseteq Nodes
           /\ \A n \in Nodes : \A t \in NextNodes(n) : t \subseteq Nodes
  <1>1. conf \in Config
    BY GraphAssumption
  <1>2. \A i \in DOMAIN conf.edges : Edge(i) \in Nodes \X (Nodes \cup {End})
    BY <1>1 DEF Config, Edge
  <1>3. \A n \in Nodes : Preds(n) \subseteq Nodes
    BY <1>2 DEF Preds, PredsIn, Edge
  <1>4. \A n \in Nodes : Successors(n) \subseteq Nodes
    <2> SUFFICES ASSUME NEW n \in Nodes, NEW j \in DOMAIN conf.edges,
                        Edge(j)[1] = n, \A k \in 1..j : Edge(k) # <<n, End>>
                 PROVE  Edge(j)[2] \in Nodes
      BY DEF Successors
    <2>1. j \in 1..j
      BY <1>1 DEF Config
    <2>2. Edge(j) = <<Edge(j)[1], Edge(j)[2]>> /\ Edge(j)[2] \in Nodes \cup {End}
      BY <1>2
    <2> QED
      BY <2>1, <2>2
  <1>5. \A n \in Nodes : \A t \in NextNodes(n) : t \subseteq Nodes
    BY <1>1, <1>4 DEF NextNodes, Config
  <1> QED
    BY <1>1, <1>3, <1>4, <1>5

LEMMA TaskTypes ==
    ASSUME Control, Progress
    PROVE  \A next \in NextTasks : next \subseteq Nodes
  <1>1. conf \in Configs /\ (completed # {} => last \in Nodes)
    BY DEF Control, Progress
  <1> QED
    BY <1>1, GraphTypes DEF NextTasks, Ready, Config

LEMMA GoodCheckpoints ==
    ASSUME NEW c \in Channels, NEW done \in SUBSET Nodes, NEW l \in done \cup {None},
           done = {} <=> l = None
    PROVE  Checkpoint(c, done, l) \in Good /\ StepCheckpoint(c) \in Good
  BY DEF Checkpoint, StepCheckpoint, Good, Checkpoints, IsCheckpoint

LEMMA GoodSaved ==
    ASSUME NEW cp \in Good
    PROVE  /\ cp # None /\ cp.chans \in Channels /\ cp.completed \in SUBSET Nodes
           /\ cp.last \in cp.completed \cup {None}
           /\ cp.completed = {} <=> cp.last = None
  BY GraphAssumption DEF Good, Checkpoints, IsCheckpoint

(* How a run ends, or goes on.                                                *)

LEMMA EndTypes ==
    ASSUME NEW how \in Hows, NEW at \in SUBSET Nodes, EndRun(how, at), completed' \in SUBSET Nodes
    PROVE  /\ phase' = "idle" /\ Work' /\ deferred' = <<>>
           /\ end' = [how |-> how, nodes |-> at, done |-> completed']
           /\ end' \in [how : Hows, nodes : SUBSET Nodes, done : SUBSET Nodes]
  BY GraphAssumption DEF EndRun, Work, NoTasks, Active

LEMMA EmptyDeferred == <<>> \in Seq(Good)
  OBVIOUS

-----------------------------------------------------------------------------
(* The steps.                                                                 *)

LEMMA FreshChannels == Blank \in Channels /\ \A c \in Channels : ApplyInput(c) \in Channels
  BY DEF Blank, ApplyInput, Channels

LEMMA InitTypes == Init => IInv
  <1> SUFFICES ASSUME Init PROVE IInv
    OBVIOUS
  <1>1. conf.runs \in Nat /\ RecursionLimit \in Nat /\ MaxAttempts \in Nat \ {0}
    BY GraphAssumption DEF Init, Config
  <1>2. Control
    BY <1>1 DEF Init, Control
  <1>5. Progress
    BY FreshChannels DEF Init, Progress
  <1>3. Work /\ History
    BY <1>1 DEF Init, Work, History, NoTasks, Active, Hows
  <1>4. Store
    BY EmptyDeferred DEF Init, Store
  <1> QED
    BY <1>2, <1>3, <1>4, <1>5 DEF IInv

LEMMA BeginTypes == IInv /\ (StartFresh \/ StartFromCheckpoint) => IInv'
  <1> SUFFICES ASSUME IInv, StartFresh \/ StartFromCheckpoint PROVE IInv'
    OBVIOUS
  <1> USE DEF IInv
  <1>1. BeginRun
    BY DEF StartFresh, StartFromCheckpoint
  <1>2. conf.runs \in Nat /\ RecursionLimit \in Nat
    BY GraphAssumption DEF Control, Config
  <1>3. Control'
    <2>1. /\ runs' = runs + 1 /\ runs < conf.runs /\ runs \in 0..conf.runs
          /\ conf' = conf /\ conf \in Configs
          /\ phase' = "loop" /\ step' = 0
      BY <1>1 DEF BeginRun, Control
    <2>2. runs' \in 0..conf'.runs /\ runs' > 0
      BY <2>1, <1>2
    <2> QED
      BY <2>1, <2>2, <1>2 DEF Control
  <1>4. Progress'
    <2>1. CASE StartFresh
      BY <2>1, FreshChannels DEF StartFresh, Progress
    <2>2. CASE StartFromCheckpoint
      <3>1. saved \in Good
        BY <2>2 DEF StartFromCheckpoint, Store
      <3>2. Restored(saved.chans) \in Channels
        BY <3>1, GoodSaved DEF Restored, Channels
      <3> QED
        BY <2>2, <3>1, <3>2, GoodSaved DEF StartFromCheckpoint, Progress
    <2> QED
      BY <2>1, <2>2
  <1>5. Work'
    BY <1>1 DEF BeginRun, Work, Active
  <1>6. Store' /\ History'
    BY <1>1, <1>2 DEF BeginRun, Store, History, Control
  <1> QED
    BY <1>3, <1>4, <1>5, <1>6

LEMMA GiveUpTypes == IInv /\ GiveUp => IInv'
  <1> SUFFICES ASSUME IInv, GiveUp PROVE IInv'
    OBVIOUS
  <1> USE DEF IInv
  <1>1. PICK how \in Hows : EndRun(how, {})
    BY DEF GiveUp, Hows
  <1>2. completed' = completed /\ completed' \in SUBSET Nodes
    BY DEF GiveUp, Progress
  <1>3. Work' /\ phase' = "idle" /\ deferred' = <<>>
        /\ end' \in [how : Hows, nodes : SUBSET Nodes, done : SUBSET Nodes]
    BY <1>1, <1>2, EndTypes
  <1>4. Control' /\ Progress' /\ Store' /\ History'
    BY <1>3, EmptyDeferred DEF GiveUp, Control, Progress, Store, History
  <1> QED
    BY <1>3, <1>4

LEMMA FinishTypes == IInv /\ Finish => IInv'
  <1> SUFFICES ASSUME IInv, Finish PROVE IInv'
    OBVIOUS
  <1> USE DEF IInv
  <1>1. PICK how \in Hows : EndRun(how, {})
    BY DEF Finish, Hows
  <1>2. completed' = completed /\ completed' \in SUBSET Nodes
    BY DEF Finish, Progress
  <1>3. Work' /\ phase' = "idle" /\ deferred' = <<>>
        /\ end' \in [how : Hows, nodes : SUBSET Nodes, done : SUBSET Nodes]
    BY <1>1, <1>2, EndTypes
  <1>4. \A i \in DOMAIN deferred : deferred[i] \in Good
    BY DEF Store
  <1>5. deferred # <<>> => Len(deferred) \in DOMAIN deferred
    BY DEF Store
  <1>6. saved' # None => saved' \in Good
    BY <1>4, <1>5 DEF Finish, Store
  <1>7. Control' /\ Progress' /\ Store' /\ History'
    BY <1>3, <1>6, EmptyDeferred DEF Finish, Control, Progress, Store, History
  <1> QED
    BY <1>3, <1>7

LEMMA InterruptBeforeTypes == IInv /\ InterruptBefore => IInv'
  <1> SUFFICES ASSUME IInv, InterruptBefore PROVE IInv'
    OBVIOUS
  <1> USE DEF IInv
  <1>1. PICK next \in NextTasks :
          PutOrFail(StepCheckpoint(chans), EndRun("before", next \cap conf.before))
    BY DEF InterruptBefore
  <1>2. next \cap conf.before \in SUBSET Nodes
    BY TaskTypes
  <1>3. PICK how \in Hows, at \in SUBSET Nodes : EndRun(how, at)
    BY <1>1, <1>2 DEF PutOrFail, Hows
  <1>4. completed' \in SUBSET Nodes
    BY DEF InterruptBefore, Progress
  <1>5. Work' /\ phase' = "idle" /\ deferred' = <<>>
        /\ end' \in [how : Hows, nodes : SUBSET Nodes, done : SUBSET Nodes]
    BY <1>3, <1>4, EndTypes
  <1>6. StepCheckpoint(chans) \in Good
    BY GoodCheckpoints DEF Progress
  <1>7. saved' # None => saved' \in Good
    BY <1>1, <1>6 DEF PutOrFail, Store
  <1>8. Control' /\ Progress' /\ Store' /\ History'
    BY <1>5, <1>7, EmptyDeferred DEF InterruptBefore, Control, Progress, Store, History
  <1> QED
    BY <1>5, <1>8

LEMMA ScheduleTypes == IInv /\ Schedule => IInv'
  <1> SUFFICES ASSUME IInv, Schedule PROVE IInv'
    OBVIOUS
  <1> USE DEF IInv
  <1>1. PICK next \in NextTasks \ {{}} :
          tasks' = [n \in Nodes |-> IF n \in next THEN "run" ELSE "off"]
    BY DEF Schedule
  <1>2. \E n \in Nodes : n \in next
    BY <1>1, TaskTypes
  <1>3. Work'
    BY <1>1, <1>2, GraphAssumption DEF Schedule, Work, Active
  <1>4. Control' /\ Progress' /\ Store' /\ History'
    BY GraphAssumption DEF Schedule, MayStep, Control, Progress, Store, History
  <1> QED
    BY <1>3, <1>4

LEMMA NodeTypes == ASSUME NEW n \in Nodes PROVE IInv /\ Node(n) => IInv'
  <1> SUFFICES ASSUME IInv, Node(n) PROVE IInv'
    OBVIOUS
  <1> USE DEF IInv
  <1>1. PICK r \in {"run", "ok", "err", "asks"} : Answer(n, r)
    BY DEF Node, NodeReturns, NodeInterrupts, NodeRetries, NodeFails
  <1>2. Active' = Active
    BY <1>1 DEF Answer, Active, Work
  <1>3. tries' \in [Nodes -> 0..(MaxAttempts - 1)]
    <2>1. CASE NodeRetries(n)
      BY <2>1, GraphAssumption DEF NodeRetries, Work
    <2>2. CASE tries' = tries
      BY <2>2 DEF Work
    <2> QED
      BY <2>1, <2>2 DEF Node, NodeReturns, NodeInterrupts, NodeFails
  <1>4. Work'
    BY <1>1, <1>2, <1>3 DEF Answer, node, Work
  <1>5. Control' /\ Progress' /\ Store'
    BY <1>1 DEF Answer, node, Control, Progress, Store
  <1>6. end' = end
    BY <1>1 DEF Answer, node
  <1>7. execs' \in [Nodes -> Nat] /\ ran' \in SUBSET Nodes
    BY DEF Node, NodeReturns, NodeInterrupts, NodeRetries, NodeFails, History
  <1> QED
    BY <1>4, <1>5, <1>6, <1>7 DEF History

LEMMA MarkTypes ==
    ASSUME IInv, completed' = Completed, LastOf(last')
    PROVE  /\ completed' \in SUBSET Nodes /\ last' \in completed' \cup {None}
           /\ completed' = {} <=> last' = None
  BY GraphAssumption DEF IInv, Progress, Completed, LastOf, Returned

LEMMA PauseTypes == IInv /\ Pause => IInv'
  <1> SUFFICES ASSUME IInv, Pause PROVE IInv'
    OBVIOUS
  <1> USE DEF IInv
  <1>1. PutOrFail(Checkpoint(chans, completed', last'), EndRun("task", Returned("asks")))
    BY DEF Pause
  <1>2. PICK how \in Hows, at \in SUBSET Nodes : EndRun(how, at)
    BY <1>1 DEF PutOrFail, Hows, Returned
  <1>3. /\ completed' \in SUBSET Nodes /\ last' \in completed' \cup {None}
        /\ completed' = {} <=> last' = None
    BY MarkTypes DEF Pause
  <1>4. Work' /\ phase' = "idle" /\ deferred' = <<>>
        /\ end' \in [how : Hows, nodes : SUBSET Nodes, done : SUBSET Nodes]
    BY <1>2, <1>3, EndTypes
  <1>5. Checkpoint(chans, completed', last') \in Good
    BY <1>3, GoodCheckpoints DEF Progress
  <1>6. saved' # None => saved' \in Good
    BY <1>1, <1>5 DEF PutOrFail, Store
  <1>7. Progress'
    BY <1>3 DEF Pause, Progress
  <1>8. Control' /\ Store' /\ History'
    BY <1>4, <1>6, EmptyDeferred DEF Pause, Control, Store, History
  <1> QED
    BY <1>4, <1>7, <1>8

LEMMA AllFailedTypes == IInv /\ AllFailed => IInv'
  <1> SUFFICES ASSUME IInv, AllFailed PROVE IInv'
    OBVIOUS
  <1> USE DEF IInv
  <1>1. EndRun("failed", {}) /\ completed' \in SUBSET Nodes
    BY DEF AllFailed, Progress
  <1>2. Work' /\ phase' = "idle" /\ deferred' = <<>>
        /\ end' \in [how : Hows, nodes : SUBSET Nodes, done : SUBSET Nodes]
    BY <1>1, EndTypes DEF Hows
  <1>3. Control' /\ Progress' /\ Store' /\ History'
    BY <1>2, EmptyDeferred DEF AllFailed, Control, Progress, Store, History
  <1> QED
    BY <1>2, <1>3

\* After a superstep the run goes on with the next or ends.
LEMMA NextStepTypes ==
    ASSUME IInv, phase = "execute", NextStep
    PROVE  /\ phase' = "loop" /\ step' \in 0..RecursionLimit /\ Work'
           /\ end' = end
  BY GraphAssumption DEF IInv, NextStep, Work, Control, NoTasks, Active

LEMMA SaveStepTypes ==
    ASSUME IInv, phase = "execute", conf' = conf, runs' = runs, completed' \in SUBSET Nodes,
           NEW cp \in Good, SaveStep(cp)
    PROVE  Control' /\ Work' /\ Store' /\ end' \in [how : Hows, nodes : SUBSET Nodes, done : SUBSET Nodes]
  <1> USE DEF IInv
  <1>1. conf \in Config
    BY GraphAssumption DEF Control
  <1>2. Interrupted \in SUBSET Nodes
    BY DEF Interrupted, Returned
  <1>3. \/ NextStep /\ (deferred' = deferred \/ deferred' = Append(deferred, cp))
        \/ \E how \in Hows, at \in SUBSET Nodes : EndRun(how, at) /\ step' = step
    BY <1>1, <1>2 DEF SaveStep, AfterStep, Config, Hows
  <1>4. /\ saved' = saved \/ saved' = cp
        /\ \/ pending' = pending
           \/ pending' = pending \cup {[run |-> runs, step |-> step, cp |-> cp]}
    BY <1>1 DEF SaveStep, Config
  <1>5. /\ phase' \in {"idle", "loop"} /\ step' \in 0..RecursionLimit /\ Work'
        /\ deferred' \in Seq(Good)
        /\ end' \in [how : Hows, nodes : SUBSET Nodes, done : SUBSET Nodes]
    <2>1. CASE NextStep /\ (deferred' = deferred \/ deferred' = Append(deferred, cp))
      <3>1. deferred' \in Seq(Good)
        BY <2>1 DEF Store
      <3> QED
        BY <2>1, <3>1, NextStepTypes DEF History
    <2>2. CASE \E how \in Hows, at \in SUBSET Nodes : EndRun(how, at) /\ step' = step
      BY <2>2, EndTypes, EmptyDeferred DEF Control
    <2> QED
      BY <1>3, <2>1, <2>2
  <1>6. Control'
    BY <1>5 DEF Control
  <1>7. runs \in 1..runs /\ step \in 0..(RecursionLimit - 1)
    BY <1>1, GraphAssumption DEF Control, Config
  <1>8. Store'
    BY <1>4, <1>5, <1>7 DEF Store
  <1> QED
    BY <1>5, <1>6, <1>8

LEMMA ApplyTypes == IInv /\ Apply => IInv'
  <1> SUFFICES ASSUME IInv, Apply PROVE IInv'
    OBVIOUS
  <1> USE DEF IInv
  <1>1. chans' \in Channels
    BY DEF Apply, ApplyWrites, Progress, History, Channels
  <1>2. /\ completed' \in SUBSET Nodes /\ last' \in completed' \cup {None}
        /\ completed' = {} <=> last' = None
    BY MarkTypes DEF Apply
  <1>3. Progress'
    BY <1>1, <1>2 DEF Progress
  <1>4. StepCheckpoint(chans') \in Good
    BY <1>1, <1>2, GoodCheckpoints
  <1>5. Control' /\ Work' /\ Store' /\ end' \in [how : Hows, nodes : SUBSET Nodes, done : SUBSET Nodes]
    BY <1>2, <1>4, SaveStepTypes DEF Apply, Joined
  <1>6. History'
    BY <1>5 DEF Apply, History
  <1> QED
    BY <1>3, <1>5, <1>6

LEMMA AroundTypes == IInv /\ (BackgroundSave \/ Cancel \/ Crash) => IInv'
  <1> SUFFICES ASSUME IInv, BackgroundSave \/ Cancel \/ Crash PROVE IInv'
    OBVIOUS
  <1> USE DEF IInv
  <1>1. CASE BackgroundSave
    <2>1. pending' \subseteq pending /\ (saved' # None => saved' \in Good)
      BY <1>1 DEF BackgroundSave, Store
    <2>2. Store'
      BY <1>1, <2>1 DEF BackgroundSave, run, Store
    <2> QED
      BY <1>1, <2>2 DEF BackgroundSave, run, Control, Progress, Work, Active, History
  <1>2. CASE Cancel
    BY <1>2 DEF Cancel, Control, Progress, Work, Active, Store, History
  <1>3. CASE Crash
    <2>1. EndRun("crash", {}) /\ completed' \in SUBSET Nodes
      BY <1>3 DEF Crash, Progress
    <2>2. Work' /\ phase' = "idle" /\ deferred' = <<>>
          /\ end' \in [how : Hows, nodes : SUBSET Nodes, done : SUBSET Nodes]
      BY <2>1, EndTypes DEF Hows
    <2> QED
      BY <1>3, <2>2, EmptyDeferred DEF Crash, Control, Progress, Store, History
  <1> QED
    BY <1>1, <1>2, <1>3

LEMMA StutterTypes == IInv /\ UNCHANGED vars => IInv'
  BY DEF IInv, vars, run, Control, Progress, Work, Active, Store, History

LEMMA FlagTypes == cancelled \in BOOLEAN /\ [Next]_vars => cancelled' \in BOOLEAN
  BY Zenon DEF Next, Engine, Node, StartFresh, StartFromCheckpoint, BeginRun, GiveUp, Finish, InterruptBefore,
     Schedule, Pause, AllFailed, Apply, NodeReturns, NodeInterrupts, NodeRetries, NodeFails, Answer, node,
     BackgroundSave, Cancel, Crash, vars, run

LEMMA StepTypes == IInv /\ [Next]_vars => IInv'
  BY BeginTypes, GiveUpTypes, FinishTypes, InterruptBeforeTypes, ScheduleTypes, NodeTypes, PauseTypes,
     AllFailedTypes, ApplyTypes, AroundTypes, StutterTypes DEF Next, Engine

TInv == IInv /\ cancelled \in BOOLEAN

LEMMA Invariance == Spec => []TInv
  <1>1. Init => TInv
    BY InitTypes DEF Init, TInv
  <1>2. TInv /\ [Next]_vars => TInv'
    BY StepTypes, FlagTypes DEF TInv
  <1> QED
    BY <1>1, <1>2, PTL DEF Spec

\* The engine keeps its types: no run exceeds the recursion limit, a
\* checkpoint in any place is one, and only a superstep in progress has tasks.
THEOREM Types == Spec => []TypeOK
  <1>1. TInv => TypeOK
    BY InvTypes DEF TInv
  <1> QED
    BY <1>1, Invariance, PTL

-----------------------------------------------------------------------------
(* Fan-in.  In graphs with fan-in a node may only be marked completed when     *)
(* its last output is in the channels, in a run as in a checkpoint that has    *)
(* progress.  A node that finishes beside one that interrupts itself would     *)
(* break this; a checkpoint of anything but a pause has no progress.           *)

FanIn == conf.mode = "all"

Closed(g, done) == \A n \in done : PredsIn(g, n) \subseteq done

\* What a checkpoint counts as completed is true, and the run that goes on from
\* it knows.
Applied(cp) ==
    /\ conf.asking = {} => cp.completed = {}
    /\ Closed(conf, cp.completed)
    /\ phase # "idle" => cp.completed \subseteq completed
    /\ \A n \in cp.completed : cp.chans.out[n] = execs[n] /\ execs[n] > 0

SavedApplied == saved # None => Applied(saved)

NoProgressWaits ==
    /\ \A p \in pending : p.cp.completed = {}
    /\ \A i \in DOMAIN deferred : deferred[i].completed = {}

NodesReady ==
    /\ Active \cap completed = {} /\ Returned("asks") \subseteq conf.asking
    /\ Active \cap conf.asking # {} => \E n \in Nodes : Active = {n}
    /\ \A n \in Active : Preds(n) \subseteq completed
    /\ \A n \in Returned("ok") : execs[n] > 0

OutputsApplied ==
    /\ Closed(conf, completed)
    /\ \A n \in completed : chans.out[n] = execs[n] /\ execs[n] > 0

DoneIsComplete == phase = "idle" /\ end.how = "done" => completed = Nodes

Fed == SavedApplied /\ NoProgressWaits /\ NodesReady /\ OutputsApplied /\ DoneIsComplete

FInv == FanIn => Fed

\* A node that interrupts itself is never ready together with another one.
AskingAlone(g) ==
    \A done \in (SUBSET Nodes) \ {{}} :
        LET ready == {n \in Nodes \ done : PredsIn(g, n) \subseteq done}
        IN  Closed(g, done) /\ ready \cap g.asking # {} => \E n \in Nodes : ready = {n}

\* What is asked of a graph with fan-in: an entry nothing leads to, no cycle,
\* and, if nodes interrupt themselves, that they do so alone, that the store
\* answers and that every channel is restored.
FanInGraph(c) ==
    c.mode = "all" =>
        /\ PredsIn(c, c.entry) = {}
        /\ \A S \in SUBSET Nodes : S # {} => \E n \in S : PredsIn(c, n) \cap S = {}
        /\ c.asking # {} => AskingAlone(c) /\ ~c.storeFails /\ c.channels = Nodes

LEMMA FInvProperties == IInv /\ FInv => FanInReads /\ DoneHasAllOutputs
  BY DEF IInv, Control, Work, FInv, FanIn, Fed, NodesReady, OutputsApplied, DoneIsComplete, FanInReads, DoneHasAllOutputs,
     Active, Preds, PredsIn

LEMMA IdleReady ==
    ASSUME tasks' = NoTasks
    PROVE  NodesReady'
  BY DEF NodesReady, NoTasks, Active, Returned

LEMMA StepCheckpointHasNone == \A c : StepCheckpoint(c).completed = {}
  BY DEF StepCheckpoint, Checkpoint

\* The store keeps its checkpoint, or has one without progress.
LEMMA SavedStays ==
    ASSUME SavedApplied, conf' = conf, saved' = saved \/ saved'.completed = {},
           completed \subseteq completed', phase' = "idle" \/ phase # "idle",
           \A n \in saved.completed : saved # None => execs'[n] = execs[n]
    PROVE  SavedApplied'
  <1>1. CASE saved' = saved
    BY <1>1 DEF SavedApplied, Applied, Closed, PredsIn
  <1>2. CASE saved'.completed = {}
    BY <1>2 DEF SavedApplied, Applied, Closed
  <1> QED
    BY <1>1, <1>2

LEMMA BeginFanIn ==
    IInv /\ FanIn /\ FanInGraph(conf) /\ Fed /\ (StartFresh \/ StartFromCheckpoint) => Fed'
  <1> SUFFICES ASSUME IInv, FanIn, FanInGraph(conf), Fed, StartFresh \/ StartFromCheckpoint PROVE Fed'
    OBVIOUS
  <1>1. /\ BeginRun /\ conf' = conf /\ execs' = execs /\ saved' = saved
        /\ phase = "idle" /\ phase' = "loop" /\ tasks' = tasks
    BY DEF StartFresh, StartFromCheckpoint, BeginRun
  <1>2. SavedApplied' /\ OutputsApplied'
    <2>1. CASE StartFresh
      <3>1. completed' = {}
        BY <2>1 DEF StartFresh
      <3>2. saved = None \/ conf.asking = {}
        BY <2>1 DEF StartFresh, FanInGraph, FanIn
      <3>3. saved = None \/ saved.completed = {}
        BY <3>2 DEF Fed, SavedApplied, Applied
      <3> QED
        BY <1>1, <3>1, <3>3 DEF SavedApplied, Applied, OutputsApplied, Closed
    <2>2. CASE StartFromCheckpoint
      <3>1. /\ saved # None /\ completed' = saved.completed /\ chans' = Restored(saved.chans)
            /\ Applied(saved)
        BY <2>2 DEF StartFromCheckpoint, Fed, SavedApplied
      <3>2. saved.completed \subseteq Nodes /\ saved.chans \in Channels
        BY <3>1, GoodSaved DEF IInv, Store
      <3>3. ASSUME NEW n \in saved.completed PROVE chans'.out[n] = saved.chans.out[n]
        <4>1. conf.channels = Nodes
          BY <3>1, <3>3 DEF Applied, FanInGraph, FanIn
        <4> QED
          BY <3>1, <3>2, <3>3, <4>1 DEF Restored, Channels
      <3>4. SavedApplied'
        BY <1>1, <3>1 DEF SavedApplied, Applied, Closed, PredsIn
      <3>5. OutputsApplied'
        BY <1>1, <3>1, <3>3 DEF OutputsApplied, Applied, Closed, PredsIn
      <3> QED
        BY <3>4, <3>5
    <2> QED
      BY <2>1, <2>2
  <1>3. Active = {}
    BY <1>1 DEF IInv, Work, Control
  <1>4. NodesReady'
    BY <1>1, <1>3 DEF NodesReady, Active, Returned
  <1> QED
    BY <1>1, <1>2, <1>4 DEF BeginRun, Fed, NoProgressWaits, DoneIsComplete

LEMMA EndFanIn ==
    ASSUME IInv, Fed, EndRun("failed", {}) \/ EndRun("limit", {}) \/ EndRun("cancelled", {}) \/ EndRun("crash", {}),
           conf' = conf, completed' = completed, chans' = chans, execs' = execs, saved' = saved, pending' \subseteq pending
    PROVE  Fed'
  <1>1. tasks' = NoTasks /\ deferred' = <<>> /\ end'.how # "done" /\ phase' = "idle"
    BY DEF EndRun
  <1>2. SavedApplied'
    BY <1>1, SavedStays DEF Fed
  <1>3. NoProgressWaits' /\ OutputsApplied' /\ DoneIsComplete'
    BY <1>1 DEF Fed, NoProgressWaits, OutputsApplied, DoneIsComplete, Closed, PredsIn
  <1> QED
    BY <1>1, <1>2, <1>3, IdleReady DEF Fed

\* Without a cycle there is always a node that is ready until all have completed.
LEMMA SomeReady ==
    ASSUME IInv, FanIn, FanInGraph(conf), completed # Nodes
    PROVE  {} \notin NextTasks
  <1>1. CASE completed = {}
    <2>1. NextTasks = {{conf.entry}}
      BY <1>1 DEF NextTasks
    <2> QED
      BY <2>1
  <1>2. CASE completed # {}
    <2>1. Nodes \ completed # {} /\ completed \subseteq Nodes
      BY DEF IInv, Progress
    <2>2. PICK n \in Nodes \ completed : PredsIn(conf, n) \cap (Nodes \ completed) = {}
      BY <2>1 DEF FanInGraph, FanIn
    <2>3. Preds(n) \subseteq Nodes
      BY GraphTypes DEF IInv, Control
    <2>4. n \in Ready
      BY <2>2, <2>3 DEF Ready, Preds
    <2> QED
      BY <1>2, <2>4 DEF NextTasks, FanIn
  <1> QED
    BY <1>1, <1>2

LEMMA FinishFanIn == IInv /\ FanIn /\ FanInGraph(conf) /\ Fed /\ Finish => Fed'
  <1> SUFFICES ASSUME IInv, FanIn, FanInGraph(conf), Fed, Finish PROVE Fed'
    OBVIOUS
  <1>1. completed = Nodes
    BY SomeReady DEF Finish
  <1>2. tasks' = NoTasks /\ deferred' = <<>>
    BY DEF Finish, EndRun
  <1>3. deferred \in Seq(Good)
    BY DEF IInv, Store
  <1>4. deferred # <<>> => Len(deferred) \in DOMAIN deferred
    BY <1>3
  <1>5. NoProgressWaits' /\ (saved' = saved \/ saved'.completed = {})
    BY <1>2, <1>4 DEF Finish, Fed, NoProgressWaits
  <1>6. SavedApplied'
    <2>1. conf' = conf /\ completed' = completed /\ execs' = execs /\ phase' = "idle"
      BY DEF Finish, EndRun
    <2> QED
      BY <1>5, <2>1, SavedStays DEF Fed
  <1>7. OutputsApplied' /\ DoneIsComplete'
    BY <1>1 DEF Finish, Fed, OutputsApplied, DoneIsComplete, Closed, PredsIn
  <1> QED
    BY <1>2, <1>5, <1>6, <1>7, IdleReady DEF Fed

LEMMA InterruptBeforeFanIn == Fed /\ InterruptBefore => Fed'
  <1> SUFFICES ASSUME Fed, InterruptBefore PROVE Fed'
    OBVIOUS
  <1>1. PICK at : PutOrFail(StepCheckpoint(chans), EndRun("before", at))
    BY DEF InterruptBefore
  <1>2. tasks' = NoTasks /\ deferred' = <<>> /\ end'.how # "done"
    BY <1>1 DEF PutOrFail, EndRun
  <1>3. saved' = saved \/ saved'.completed = {}
    BY <1>1, StepCheckpointHasNone DEF PutOrFail
  <1>4. SavedApplied'
    <2>1. conf' = conf /\ completed' = completed /\ execs' = execs /\ phase' = "idle"
      BY <1>1 DEF InterruptBefore, PutOrFail, EndRun
    <2> QED
      BY <1>3, <2>1, SavedStays DEF Fed
  <1>5. NoProgressWaits' /\ OutputsApplied' /\ DoneIsComplete'
    BY <1>2 DEF InterruptBefore, Fed, NoProgressWaits, OutputsApplied, DoneIsComplete, Closed, PredsIn
  <1> QED
    BY <1>2, <1>4, <1>5, IdleReady DEF Fed

LEMMA ScheduleFanIn == IInv /\ FanIn /\ FanInGraph(conf) /\ Fed /\ Schedule => Fed'
  <1> SUFFICES ASSUME IInv, FanIn, FanInGraph(conf), Fed, Schedule PROVE Fed'
    OBVIOUS
  <1>1. PICK next \in NextTasks \ {{}} :
          tasks' = [n \in Nodes |-> IF n \in next THEN "run" ELSE "off"]
    BY DEF Schedule
  <1>2. \A n \in next : n \notin completed /\ Preds(n) \subseteq completed
    BY <1>1 DEF NextTasks, Ready, FanIn, FanInGraph, Preds
  <1>3. Active' \subseteq next /\ Returned("asks")' = {} /\ Returned("ok")' = {}
    BY <1>1 DEF Active, Returned
  <1>a. next \subseteq Nodes /\ conf.entry \in Nodes
    BY <1>1, TaskTypes, GraphTypes DEF IInv, Control, Config
  <1>b. next \cap conf.asking # {} => \E n \in Nodes : next = {n}
    <2>1. CASE completed = {}
      BY <1>1, <1>a, <2>1 DEF NextTasks
    <2>2. CASE completed # {}
      <3>1. next = {n \in Nodes \ completed : PredsIn(conf, n) \subseteq completed}
        BY <1>1, <2>2 DEF NextTasks, FanIn, Ready, Preds
      <3>2. completed \in (SUBSET Nodes) \ {{}} /\ Closed(conf, completed)
        BY <2>2 DEF IInv, Progress, Fed, OutputsApplied
      <3> QED
        BY <3>1, <3>2 DEF FanInGraph, FanIn, AskingAlone
    <2> QED
      BY <2>1, <2>2
  <1>c. Active' = next
    BY <1>1, <1>a DEF Active
  <1>4. NodesReady'
    BY <1>2, <1>3, <1>b, <1>c DEF NodesReady, Schedule, Preds
  <1>5. SavedApplied'
    <2>1. conf' = conf /\ completed' = completed /\ execs' = execs /\ phase # "idle" /\ saved' = saved
      BY DEF Schedule, MayStep
    <2> QED
      BY <2>1, SavedStays DEF Fed
  <1>6. NoProgressWaits' /\ OutputsApplied' /\ DoneIsComplete'
    BY DEF Schedule, Fed, NoProgressWaits, OutputsApplied, DoneIsComplete, Closed, PredsIn
  <1> QED
    BY <1>4, <1>5, <1>6 DEF Fed

LEMMA NodeFanIn ==
    ASSUME NEW n \in Nodes
    PROVE  IInv /\ FanIn /\ FanInGraph(conf) /\ Fed /\ Node(n) => Fed'
  <1> SUFFICES ASSUME IInv, FanIn, FanInGraph(conf), Fed, Node(n) PROVE Fed'
    OBVIOUS
  <1>1. PICK r \in {"run", "ok", "err", "asks"} :
          Answer(n, r) /\ (r = "ok" => NodeReturns(n)) /\ (r = "asks" => n \in conf.asking)
    BY DEF Node, NodeReturns, NodeInterrupts, NodeRetries, NodeFails
  <1>2. n \in Active /\ n \notin completed /\ phase # "idle"
    BY <1>1 DEF Answer, Active, Fed, NodesReady, IInv, Work, Control
  <1>3. \A m \in Nodes \ {n} : execs'[m] = execs[m] /\ tasks'[m] = tasks[m]
    BY <1>1 DEF Answer, Node, NodeReturns, NodeInterrupts, NodeRetries, NodeFails, IInv, History, Work
  <1>4. tasks'[n] = r /\ (r = "ok" => execs'[n] > 0)
    BY <1>1 DEF Answer, NodeReturns, IInv, Work, History
  <1>a. Active' = Active
    BY <1>1, <1>2, <1>3, <1>4 DEF Active
  <1>b. Returned("asks")' \subseteq conf.asking /\ \A m \in Returned("ok")' : execs'[m] > 0
    BY <1>1, <1>3, <1>4 DEF Fed, NodesReady, Returned
  <1>5. NodesReady'
    BY <1>1, <1>a, <1>b DEF Answer, node, Fed, NodesReady, Preds, PredsIn
  <1>6. OutputsApplied'
    BY <1>1, <1>2, <1>3 DEF Answer, node, Fed, OutputsApplied, IInv, Progress, Closed, PredsIn
  <1>7. SavedApplied'
    <2>1. conf' = conf /\ completed' = completed /\ saved' = saved
      BY <1>1 DEF Answer, node
    <2>2. saved # None => saved.completed \subseteq completed /\ completed \subseteq Nodes
      BY <1>2 DEF Fed, SavedApplied, Applied, IInv, Progress
    <2>3. saved # None => \A m \in saved.completed : execs'[m] = execs[m]
      BY <1>2, <1>3, <2>2
    <2> QED
      BY <1>2, <2>1, <2>3, SavedStays DEF Fed
  <1>8. NoProgressWaits' /\ DoneIsComplete'
    BY <1>1 DEF Answer, node, Fed, NoProgressWaits, DoneIsComplete
  <1> QED
    BY <1>5, <1>6, <1>7, <1>8 DEF Fed

\* A node that pauses the run is alone, so that nothing is marked beside it.
LEMMA PauseFanIn == IInv /\ FanIn /\ FanInGraph(conf) /\ Fed /\ Pause => Fed'
  <1> SUFFICES ASSUME IInv, FanIn, FanInGraph(conf), Fed, Pause PROVE Fed'
    OBVIOUS
  <1>1. /\ Returned("asks") # {} /\ completed' = Completed
        /\ conf' = conf /\ chans' = chans /\ execs' = execs /\ pending' = pending
    BY DEF Pause
  <1>2. Returned("asks") \subseteq Active /\ Returned("ok") \subseteq Active
        /\ Returned("asks") \cap Returned("ok") = {} /\ Returned("asks") \subseteq conf.asking
    BY DEF Returned, Active, Fed, NodesReady
  <1>3. PICK n \in Nodes : Active = {n}
    BY <1>1, <1>2 DEF Fed, NodesReady
  <1>4. completed' = completed
    BY <1>1, <1>2, <1>3 DEF Completed
  <1>5. ~conf.storeFails
    BY <1>1, <1>2 DEF FanInGraph, FanIn
  <1>6. saved' = Checkpoint(chans, completed', last') /\ EndRun("task", Returned("asks"))
    BY <1>5 DEF Pause, PutOrFail
  <1>7. phase' = "idle" /\ tasks' = NoTasks /\ deferred' = <<>> /\ end'.how # "done"
    BY <1>6 DEF EndRun
  <1>8. OutputsApplied' /\ DoneIsComplete' /\ NoProgressWaits'
    BY <1>1, <1>4, <1>7 DEF Fed, OutputsApplied, DoneIsComplete, NoProgressWaits, Closed, PredsIn
  <1>9. SavedApplied'
    <2>1. saved'.completed = completed' /\ saved'.chans = chans'
      BY <1>1, <1>6 DEF Checkpoint
    <2>2. conf'.asking # {}
      BY <1>1, <1>2
    <2> QED
      BY <1>7, <1>8, <2>1, <2>2 DEF SavedApplied, Applied, OutputsApplied
  <1> QED
    BY <1>7, <1>8, <1>9, IdleReady DEF Fed

LEMMA ApplyFanIn == IInv /\ FanIn /\ Fed /\ Apply => Fed'
  <1> SUFFICES ASSUME IInv, FanIn, Fed, Apply PROVE Fed'
    OBVIOUS
  <1>1. conf \in Config
    BY GraphAssumption DEF IInv, Control
  <1>2. SaveStep(StepCheckpoint(chans')) /\ execs' = execs /\ completed' = Completed /\ chans' = ApplyWrites
    BY DEF Apply
  <1> DEFINE cp == StepCheckpoint(chans')
  <1>a. /\ (AfterStep => tasks' = NoTasks /\ (phase' = "idle" => end'.how # "done"))
        /\ (EndRun("failed", {}) => tasks' = NoTasks /\ (phase' = "idle" => end'.how # "done"))
    BY DEF AfterStep, NextStep, EndRun
  <1>b. /\ (AfterStep /\ (Interrupted = {} => UNCHANGED deferred) => deferred' = deferred \/ deferred' = <<>>)
        /\ (AfterStep /\ (Interrupted = {} => deferred' = Append(deferred, cp))
              => deferred' = <<>> \/ deferred' = Append(deferred, cp))
        /\ (EndRun("failed", {}) => deferred' = <<>>)
    BY DEF AfterStep, EndRun
  <1> HIDE DEF cp
  <1>3. /\ tasks' = NoTasks /\ (phase' = "idle" => end'.how # "done")
        /\ saved' = saved \/ saved' = cp
        /\ pending' = pending \/ pending' = pending \cup {[run |-> runs, step |-> step, cp |-> cp]}
        /\ deferred' = deferred \/ deferred' = <<>> \/ deferred' = Append(deferred, cp)
    <2>0. SaveStep(cp)
      BY <1>2 DEF cp
    <2>1. CASE conf.durability = "sync"
      BY <1>a, <1>b, <2>0, <2>1 DEF SaveStep
    <2>2. CASE conf.durability = "async"
      BY <1>a, <1>b, <2>0, <2>2 DEF SaveStep
    <2>3. CASE conf.durability = "exit"
      BY <1>a, <1>b, <2>0, <2>3 DEF SaveStep
    <2> QED
      BY <1>1, <2>1, <2>2, <2>3 DEF Config
  <1>c. cp.completed = {}
    BY StepCheckpointHasNone DEF cp
  <1>4. \A i \in DOMAIN deferred' : deferred'[i].completed = {}
    <2>1. deferred \in Seq(Good) /\ \A i \in DOMAIN deferred : deferred[i].completed = {}
      BY DEF IInv, Store, Fed, NoProgressWaits
    <2>2. CASE deferred' = Append(deferred, cp)
      BY <2>1, <2>2, <1>c
    <2> QED
      BY <1>3, <2>1, <2>2
  <1>5. NoProgressWaits'
    BY <1>3, <1>4, <1>c DEF Fed, NoProgressWaits
  <1>d. conf' = conf /\ phase # "idle"
    BY DEF Apply, Joined
  <1>e. SavedApplied'
    BY <1>2, <1>3, <1>c, <1>d, SavedStays DEF Fed, Completed
  <1>f. Closed(conf, Completed)
    BY DEF Fed, NodesReady, OutputsApplied, Closed, Completed, Returned, Active, Preds
  <1>g. Closed(conf, completed)'
    BY <1>2, <1>d, <1>f DEF Closed, PredsIn
  <1>6. OutputsApplied'
    <2> SUFFICES ASSUME NEW n \in Completed
                 PROVE  ApplyWrites.out[n] = execs[n] /\ execs[n] > 0
      BY <1>2, <1>g DEF OutputsApplied
    <2>1. n \in Nodes /\ chans \in Channels
      BY DEF Completed, Returned, IInv, Progress
    <2>2. CASE tasks[n] = "ok"
      BY <2>1, <2>2 DEF ApplyWrites, Channels, Fed, NodesReady, Returned
    <2>3. CASE tasks[n] # "ok"
      <3>1. n \in completed
        BY <2>3 DEF Completed, Returned
      <3> QED
        BY <2>1, <2>3, <3>1 DEF ApplyWrites, Channels, Fed, OutputsApplied
    <2> QED
      BY <2>2, <2>3
  <1>7. DoneIsComplete'
    BY <1>3 DEF DoneIsComplete
  <1> QED
    BY <1>3, <1>5, <1>6, <1>7, <1>e, IdleReady DEF Fed

LEMMA AroundFanIn == IInv /\ Fed /\ (BackgroundSave \/ Cancel \/ Crash) => Fed'
  <1> SUFFICES ASSUME IInv, Fed, BackgroundSave \/ Cancel \/ Crash PROVE Fed'
    OBVIOUS
  <1>1. CASE BackgroundSave
    <2>1. NoProgressWaits' /\ (saved' = saved \/ saved'.completed = {})
      BY <1>1 DEF BackgroundSave, run, Fed, NoProgressWaits
    <2>2. SavedApplied'
      <3>1. conf' = conf /\ completed' = completed /\ execs' = execs /\ phase' = phase
        BY <1>1 DEF BackgroundSave, run
      <3> QED
        BY <2>1, <3>1, SavedStays DEF Fed
    <2>3. NodesReady' /\ OutputsApplied' /\ DoneIsComplete'
      BY <1>1 DEF BackgroundSave, run, Fed, NodesReady, Active, Returned, Preds, PredsIn, OutputsApplied, Closed,
         DoneIsComplete
    <2> QED
      BY <2>1, <2>2, <2>3 DEF Fed
  <1>2. CASE Cancel
    <2>1. SavedApplied'
      BY <1>2, SavedStays DEF Cancel, Fed
    <2>2. NoProgressWaits' /\ NodesReady' /\ OutputsApplied' /\ DoneIsComplete'
      BY <1>2 DEF Cancel, Fed, NoProgressWaits, NodesReady, Active, Returned, Preds, PredsIn, OutputsApplied, Closed,
         DoneIsComplete
    <2> QED
      BY <2>1, <2>2 DEF Fed
  <1>3. CASE Crash
    BY <1>3, EndFanIn DEF Crash
  <1> QED
    BY <1>1, <1>2, <1>3

LEMMA StepFanIn ==
    ASSUME IInv, FanIn, FanInGraph(conf), Fed, Next
    PROVE  Fed'
  <1>1. CASE StartFresh \/ StartFromCheckpoint
    BY <1>1, BeginFanIn
  <1>2. CASE GiveUp \/ AllFailed
    BY <1>2, EndFanIn DEF GiveUp, AllFailed
  <1>3. CASE Finish \/ InterruptBefore \/ Schedule \/ Pause \/ Apply
    BY <1>3, FinishFanIn, InterruptBeforeFanIn, ScheduleFanIn, PauseFanIn, ApplyFanIn
  <1>4. CASE \E n \in Nodes : Node(n)
    BY <1>4, NodeFanIn
  <1>5. CASE BackgroundSave \/ Cancel \/ Crash
    BY <1>5, AroundFanIn
  <1> QED
    BY <1>1, <1>2, <1>3, <1>4, <1>5 DEF Next, Engine

LEMMA ConfKept == [Next]_vars => conf' = conf
  BY DEF Next, Engine, Node, StartFresh, StartFromCheckpoint, BeginRun, GiveUp, Finish, InterruptBefore,
     Schedule, Pause, AllFailed, Apply, NodeReturns, NodeInterrupts, NodeRetries, NodeFails, Answer, node,
     BackgroundSave, Cancel, Crash, vars

LEMMA FanInInvariance ==
    ASSUME \A c \in Configs : FanInGraph(c)
    PROVE  Spec => [](TInv /\ FInv)
  <1>1. Init => FInv
    BY DEF Init, FInv, Fed, SavedApplied, NoProgressWaits, NodesReady, NoTasks, Active, Returned, OutputsApplied, Closed,
       DoneIsComplete
  <1>2. TInv /\ FInv /\ [Next]_vars => FInv'
    <2> SUFFICES ASSUME TInv, FInv, [Next]_vars, FanIn' PROVE Fed'
      BY DEF FInv
    <2>1. FanIn /\ Fed /\ IInv /\ FanInGraph(conf)
      BY ConfKept DEF FanIn, FInv, TInv, IInv, Control
    <2>2. CASE Next
      BY <2>1, <2>2, StepFanIn
    <2>3. CASE UNCHANGED vars
      BY <2>1, <2>3 DEF vars, run, Fed, SavedApplied, Applied, NoProgressWaits, NodesReady, Active, Returned, Preds,
         PredsIn, OutputsApplied, Closed, DoneIsComplete
    <2> QED
      BY <2>2, <2>3
  <1> QED
    BY <1>1, <1>2, Invariance, PTL DEF Spec

\* In graphs with fan-in, without cycles and in which a node that interrupts
\* itself is alone, a node only runs when the channels hold what the last
\* execution of each of its predecessors returned, whatever failed, crashed, was
\* cancelled, interrupted, paused and resumed, or saved too late before.
THEOREM ReadsAreCurrent ==
    ASSUME \A c \in Configs : FanInGraph(c)
    PROVE  Spec => []FanInReads
  <1>1. TInv /\ FInv => FanInReads
    BY FInvProperties DEF TInv
  <1> QED
    BY <1>1, FanInInvariance, PTL

\* In the same graphs a run that ends without an error has every output.
THEOREM DoneIsDone ==
    ASSUME \A c \in Configs : FanInGraph(c)
    PROVE  Spec => []DoneHasAllOutputs
  <1>1. TInv /\ FInv => DoneHasAllOutputs
    BY FInvProperties DEF TInv
  <1> QED
    BY <1>1, FanInInvariance, PTL

-----------------------------------------------------------------------------
(* Pauses.  The checkpoint of a node that interrupts itself has the progress   *)
(* of the run.  As long as it is the last one in the store, the next run goes  *)
(* on from there.                                                              *)

\* The hypothesis on a store: a graph in which nodes interrupt themselves does
\* not save in the background, and its store answers.
SavesInOrder == \A g \in Configs : g.asking # {} => g.durability # "async" /\ ~g.storeFails

\* In the default mode a node that interrupts itself is the only one behind
\* the nodes that lead to it, and no condition leads to it.
AsksAlone(g) ==
    g.mode = "any" =>
        \A n \in Nodes :
            /\ g.routes[n] \cap g.asking = {}
            /\ \A i, j \in DOMAIN g.edges :
                 g.edges[i][1] = n /\ g.edges[j][1] = n /\ g.edges[i][2] \in g.asking
                    => g.edges[j][2] = g.edges[i][2]

\* The supersteps that may follow when done has completed, l as the last.
NextOf(done, l) ==
    IF done = {} THEN {{conf.entry}}
    ELSE IF conf.mode = "all" THEN {{n \in Nodes \ done : Preds(n) \subseteq done}}
    ELSE NextNodes(l)

Paused == end.how = "task"

Asking == Returned("asks") \subseteq conf.asking /\ (Paused => conf.asking # {})

Planned == phase = "execute" => Active \in NextTasks

Settled == conf.asking # {} => pending = {}

\* Every superstep that may come next runs the nodes that have interrupted.
GoesOn(nexts) == end.nodes # {} /\ \A next \in nexts : end.nodes \subseteq next

PauseSaved ==
    Paused /\ phase = "idle" =>
        /\ saved # None /\ saved.completed = end.done
        /\ AsksAlone(conf) => GoesOn(NextOf(saved.completed, saved.last))

Resumed ==
    Paused /\ phase # "idle" =>
        /\ end.done \subseteq completed
        /\ AsksAlone(conf) /\ step = 0 => GoesOn(NextTasks)

PInv == Asking /\ Planned /\ Settled /\ PauseSaved /\ Resumed

LEMMA NextOfNow == NextTasks = NextOf(completed, last) /\ NextTasks' = NextOf(completed, last)'
  BY DEF NextTasks, NextOf, Ready

LEMMA PausedProperty == IInv /\ PInv => PauseKeepsProgress
  <1> SUFFICES ASSUME IInv, PInv, phase = "execute", Paused, conf.mode = "all"
               PROVE  Active \cap end.done = {}
    BY DEF PauseKeepsProgress, Paused
  <1>1. Active \in NextTasks /\ end.done \subseteq completed
    BY DEF PInv, Planned, Resumed
  <1>2. CASE completed = {}
    BY <1>1, <1>2
  <1>3. CASE completed # {}
    BY <1>1, <1>3 DEF NextTasks, Ready
  <1> QED
    BY <1>2, <1>3

\* A run that ends in another way leaves nothing to resume.
LEMMA OtherEnd ==
    ASSUME PInv, phase' = "idle", tasks' = NoTasks, end'.how # "task", conf' = conf,
           conf.asking # {} => pending' = {}
    PROVE  PInv'
  BY DEF PInv, Asking, Planned, Settled, PauseSaved, Resumed, Paused, Returned, NoTasks

LEMMA OtherEnds ==
    ASSUME PInv, conf' = conf, conf.asking # {} => pending' = {},
           NEW how \in Hows \ {"task"}, NEW at, EndRun(how, at)
    PROVE  PInv'
  <1>1. phase' = "idle" /\ tasks' = NoTasks /\ end'.how # "task"
    BY DEF EndRun
  <1> QED
    BY <1>1, OtherEnd

LEMMA BeginPaused == IInv /\ SavesInOrder /\ PInv /\ (StartFresh \/ StartFromCheckpoint) => PInv'
  <1> SUFFICES ASSUME IInv, SavesInOrder, PInv, StartFresh \/ StartFromCheckpoint PROVE PInv'
    OBVIOUS
  <1>1. /\ phase = "idle" /\ phase' = "loop" /\ step' = 0
        /\ conf' = conf /\ tasks' = tasks /\ pending' = pending /\ saved' = saved /\ end' = end
    BY DEF StartFresh, StartFromCheckpoint, BeginRun
  <1>2. Asking' /\ Planned' /\ Settled' /\ PauseSaved'
    BY <1>1 DEF PInv, Asking, Planned, Settled, PauseSaved, Paused, Returned
  <1>3. Resumed'
    <2> SUFFICES ASSUME Paused
                 PROVE  /\ end.done \subseteq completed'
                        /\ AsksAlone(conf) => GoesOn(NextTasks)'
      BY <1>1 DEF Resumed, Paused
    <2>1. conf \in Configs /\ conf.asking # {} /\ saved # None
      BY <1>1 DEF PInv, Asking, PauseSaved, IInv, Control
    <2>2. StartFromCheckpoint
      BY <2>1 DEF SavesInOrder, StartFresh
    <2>3. completed' = saved.completed /\ last' = saved.last
      BY <2>2 DEF StartFromCheckpoint
    <2>4. NextTasks' = NextOf(saved.completed, saved.last)
      BY <1>1, <2>3, NextOfNow DEF NextOf, NextNodes, Successors, Edge, Preds, PredsIn
    <2> QED
      BY <1>1, <2>3, <2>4 DEF PInv, PauseSaved, GoesOn
  <1> QED
    BY <1>2, <1>3 DEF PInv

LEMMA SchedulePaused == IInv /\ PInv /\ Schedule => PInv'
  <1> SUFFICES ASSUME IInv, PInv, Schedule PROVE PInv'
    OBVIOUS
  <1>1. PICK next \in NextTasks \ {{}} : tasks' = [n \in Nodes |-> IF n \in next THEN "run" ELSE "off"]
    BY DEF Schedule
  <1>2. next \subseteq Nodes
    BY <1>1, TaskTypes DEF IInv
  <1>3. /\ phase = "loop" /\ phase' = "execute"
        /\ step' = step /\ conf' = conf /\ completed' = completed /\ last' = last /\ pending' = pending
        /\ saved' = saved /\ end' = end
    BY DEF Schedule, MayStep
  <1>4. NextTasks' = NextTasks
    BY <1>3 DEF NextTasks, NextNodes, Successors, Edge, Ready, Preds, PredsIn
  <1>5. Active' = next /\ Returned("asks")' = {}
    BY <1>1, <1>2 DEF Active, Returned
  <1>6. Asking' /\ Planned'
    BY <1>1, <1>3, <1>4, <1>5 DEF PInv, Asking, Planned, Paused
  <1>7. Settled' /\ PauseSaved' /\ Resumed'
    BY <1>3, <1>4 DEF PInv, Settled, PauseSaved, Resumed, Paused, GoesOn
  <1> QED
    BY <1>6, <1>7 DEF PInv

LEMMA NodePaused ==
    ASSUME NEW n \in Nodes
    PROVE  IInv /\ PInv /\ Node(n) => PInv'
  <1> SUFFICES ASSUME IInv, PInv, Node(n) PROVE PInv'
    OBVIOUS
  <1>1. PICK r \in {"run", "ok", "err", "asks"} : Answer(n, r) /\ (r = "asks" => n \in conf.asking)
    BY DEF Node, NodeReturns, NodeInterrupts, NodeRetries, NodeFails
  <1>2. /\ phase' = phase /\ step' = step /\ conf' = conf /\ completed' = completed /\ last' = last
        /\ pending' = pending /\ saved' = saved /\ end' = end
    BY <1>1 DEF Answer, node
  <1>3. tasks[n] = "run" /\ tasks' = [tasks EXCEPT ![n] = r] /\ tasks \in [Nodes -> {"off", "run", "ok", "err", "asks"}]
    BY <1>1 DEF Answer, IInv, Work
  <1>4. Active' = Active
    BY <1>3 DEF Active
  <1>5. Returned("asks")' \subseteq conf.asking
    BY <1>1, <1>3 DEF Returned, PInv, Asking
  <1>6. NextTasks' = NextTasks
    BY <1>2 DEF NextTasks, NextNodes, Successors, Edge, Ready, Preds, PredsIn
  <1>7. phase # "idle"
    BY <1>3 DEF IInv, Control, Work, Active
  <1>8. Asking' /\ Planned' /\ Settled'
    BY <1>2, <1>4, <1>5, <1>6 DEF PInv, Asking, Planned, Settled, Paused
  <1>9. PauseSaved' /\ Resumed'
    BY <1>2, <1>6, <1>7 DEF PInv, PauseSaved, Resumed, Paused, GoesOn
  <1> QED
    BY <1>8, <1>9 DEF PInv

(* After a pause every superstep that may follow has the nodes that asked.    *)

LEMMA AskedFits ==
    ASSUME IInv, Asking, Planned, AsksAlone(conf), Joined, Returned("asks") # {},
           NEW l, LastOf(l), NEW next \in NextOf(Completed, l)
    PROVE  Returned("asks") \subseteq next
  <1> DEFINE asked == Returned("asks")
  <1>1. Active \in NextTasks /\ asked \subseteq Active /\ asked \subseteq conf.asking
    BY DEF Joined, Planned, Asking, Active, Returned
  <1>2. conf \in Config
    BY GraphAssumption DEF IInv, Control
  <1>3. asked \cap Returned("ok") = {} /\ Returned("ok") \subseteq Active /\ asked \subseteq Nodes
    BY DEF Returned, Active
  <1>a. Completed = completed \cup Returned("ok") /\ (Returned("ok") = {} => l = last)
    BY DEF Completed, LastOf
  <1> HIDE DEF asked
  <1>4. CASE completed = {}
    <2>1. Active = {conf.entry}
      BY <1>1, <1>4 DEF NextTasks
    <2>2. Returned("ok") = {} /\ asked = {conf.entry}
      BY <1>1, <1>3, <2>1 DEF asked
    <2> QED
      BY <1>4, <1>a, <2>2 DEF NextOf, asked
  <1>5. CASE completed # {} /\ conf.mode = "all"
    <2>1. Active = Ready
      BY <1>1, <1>5 DEF NextTasks
    <2>2. next = {n \in Nodes \ Completed : Preds(n) \subseteq Completed}
      BY <1>5, <1>a DEF NextOf
    <2> QED
      BY <1>1, <1>3, <1>a, <2>1, <2>2 DEF Ready, asked
  <1>6. CASE completed # {} /\ conf.mode # "all"
    <2>1. conf.mode = "any" /\ last \in Nodes /\ Active \in NextNodes(last)
      BY <1>1, <1>2, <1>6 DEF NextTasks, Config, IInv, Progress
    <2>2. PICK m \in asked : m \in Active /\ m \in conf.asking
      BY <1>1 DEF asked
    <2>3. conf.routes[last] = {}
      <3>1. conf.routes[last] \cap conf.asking = {}
        BY <2>1 DEF AsksAlone
      <3>2. CASE conf.routes[last] # {}
        <4>1. PICK t \in conf.routes[last] : Active = {t} \ {End}
          BY <2>1, <3>2 DEF NextNodes
        <4> QED
          BY <2>2, <3>1, <4>1
      <3> QED
        BY <3>2
    <2>4. Active = Successors(last) /\ NextNodes(last) = {Successors(last)}
      BY <2>1, <2>3 DEF NextNodes
    <2>5. Active = {m}
      <3>1. PICK i \in DOMAIN conf.edges : conf.edges[i][1] = last /\ conf.edges[i][2] = m
        BY <2>2, <2>4 DEF Successors, Edge
      <3>2. ASSUME NEW x \in Active PROVE x = m
        <4>1. PICK j \in DOMAIN conf.edges : conf.edges[j][1] = last /\ conf.edges[j][2] = x
          BY <2>4, <3>2 DEF Successors, Edge
        <4> QED
          BY <2>1, <2>2, <3>1, <4>1 DEF AsksAlone
      <3> QED
        BY <2>2, <3>2
    <2>6. Returned("ok") = {} /\ asked = {m}
      BY <1>1, <1>3, <2>2, <2>5
    <2>7. next \in NextNodes(last)
      BY <1>6, <1>a, <2>6 DEF NextOf
    <2> QED
      BY <2>4, <2>5, <2>6, <2>7 DEF asked
  <1> QED
    BY <1>4, <1>5, <1>6

LEMMA PausePaused == IInv /\ SavesInOrder /\ PInv /\ Pause => PInv'
  <1> SUFFICES ASSUME IInv, SavesInOrder, PInv, Pause PROVE PInv'
    OBVIOUS
  <1>1. /\ Joined /\ Returned("asks") # {} /\ completed' = Completed /\ LastOf(last')
        /\ conf' = conf /\ pending' = pending
    BY DEF Pause
  <1>2. conf \in Configs /\ conf.asking # {}
    BY <1>1 DEF PInv, Asking, IInv, Control
  <1>3. saved' = Checkpoint(chans, completed', last') /\ EndRun("task", Returned("asks"))
    BY <1>2 DEF SavesInOrder, Pause, PutOrFail
  <1>4. /\ phase' = "idle" /\ tasks' = NoTasks
        /\ end' = [how |-> "task", nodes |-> Returned("asks"), done |-> completed']
    BY <1>3 DEF EndRun
  <1>5. Asking' /\ Planned' /\ Settled' /\ Resumed'
    BY <1>1, <1>2, <1>4 DEF PInv, Asking, Planned, Settled, Resumed, Paused, Returned, NoTasks
  <1>6. PauseSaved'
    <2>1. saved' # None
      <3>1. IInv'
        BY PauseTypes
      <3>2. /\ chans \in Channels /\ completed' \in SUBSET Nodes /\ last' \in completed' \cup {None}
            /\ completed' = {} <=> last' = None
        BY <3>1 DEF IInv, Progress
      <3> QED
        BY <1>3, <3>2, GoodCheckpoints, GoodSaved
    <2>2. saved'.completed = Completed /\ saved'.last = last'
      BY <1>1, <1>3 DEF Checkpoint
    <2>3. NextOf(saved.completed, saved.last)' = NextOf(Completed, last')
      BY <1>1, <2>2 DEF NextOf, NextNodes, Successors, Edge, Preds, PredsIn
    <2>4. AsksAlone(conf) => \A next \in NextOf(Completed, last') : Returned("asks") \subseteq next
      BY <1>1, AskedFits DEF PInv
    <2> QED
      BY <1>1, <1>4, <2>1, <2>2, <2>3, <2>4 DEF PauseSaved, GoesOn
  <1> QED
    BY <1>5, <1>6 DEF PInv

LEMMA ApplyPaused == IInv /\ SavesInOrder /\ PInv /\ Apply => PInv'
  <1> SUFFICES ASSUME IInv, SavesInOrder, PInv, Apply PROVE PInv'
    OBVIOUS
  <1>1. conf' = conf /\ completed' = Completed /\ phase = "execute"
    BY DEF Apply, Joined
  <1>2. conf \in Config /\ conf \in Configs /\ step \in Nat
    BY GraphAssumption DEF IInv, Control
  <1>3. conf.asking # {} => pending' = {}
    BY <1>2 DEF SavesInOrder, Apply, SaveStep, Config, PInv, Settled
  <1>4. AfterStep \/ EndRun("failed", {})
    BY <1>2 DEF Apply, SaveStep, Config
  <1>5. CASE EndRun("failed", {})
    BY <1>1, <1>3, <1>5, OtherEnds DEF Hows
  <1>6. CASE EndRun("after", Interrupted)
    BY <1>1, <1>3, <1>6, OtherEnds DEF Hows
  <1>7. CASE NextStep
    <2>1. phase' = "loop" /\ step' = step + 1 /\ tasks' = NoTasks /\ end' = end
      BY <1>7 DEF NextStep
    <2>2. step' # 0
      BY <1>2, <2>1
    <2>3. completed \subseteq completed'
      BY <1>1 DEF Completed
    <2> QED
      BY <1>1, <1>3, <2>1, <2>2, <2>3
         DEF PInv, Asking, Planned, Settled, PauseSaved, Resumed, Paused, Returned, NoTasks
  <1> QED
    BY <1>4, <1>5, <1>6, <1>7 DEF AfterStep

LEMMA StopPaused ==
    ASSUME IInv, SavesInOrder, PInv, GiveUp \/ Finish \/ InterruptBefore \/ AllFailed \/ Crash
    PROVE  PInv'
  <1>1. conf' = conf
    BY DEF GiveUp, Finish, InterruptBefore, AllFailed, Crash
  <1>2. conf.asking # {} => pending' = {}
    BY DEF GiveUp, Finish, InterruptBefore, AllFailed, Crash, PInv, Settled
  <1>3. \E how \in Hows \ {"task"} : \E at : EndRun(how, at)
    <2>1. CASE GiveUp
      BY <2>1 DEF GiveUp, Hows
    <2>2. CASE Finish
      BY <2>2 DEF Finish, Hows
    <2>3. CASE InterruptBefore
      BY <2>3 DEF InterruptBefore, PutOrFail, Hows
    <2>4. CASE AllFailed
      BY <2>4 DEF AllFailed, Hows
    <2>5. CASE Crash
      BY <2>5 DEF Crash, Hows
    <2> QED
      BY <2>1, <2>2, <2>3, <2>4, <2>5
  <1> QED
    BY <1>1, <1>2, <1>3, OtherEnds

LEMMA AsidePaused == IInv /\ SavesInOrder /\ PInv /\ (BackgroundSave \/ Cancel) => PInv'
  <1> SUFFICES ASSUME IInv, SavesInOrder, PInv, BackgroundSave \/ Cancel PROVE PInv'
    OBVIOUS
  <1>1. CASE BackgroundSave
    <2>1. /\ conf' = conf /\ phase' = phase /\ end' = end /\ tasks' = tasks /\ completed' = completed
          /\ last' = last /\ step' = step
      BY <1>1 DEF BackgroundSave, run
    <2>2. pending # {} /\ pending' \subseteq pending
      BY <1>1 DEF BackgroundSave
    <2>3. conf.asking = {}
      BY <2>2 DEF PInv, Settled
    <2>4. Active' = Active /\ NextTasks' = NextTasks /\ Returned("asks")' = Returned("asks")
      BY <2>1 DEF Active, Returned, NextTasks, NextNodes, Successors, Edge, Ready, Preds, PredsIn
    <2> QED
      BY <2>1, <2>3, <2>4 DEF PInv, Asking, Planned, Settled, PauseSaved, Resumed, Paused
  <1>2. CASE Cancel
    <2>1. /\ conf' = conf /\ phase' = phase /\ end' = end /\ tasks' = tasks /\ completed' = completed
          /\ last' = last /\ step' = step /\ pending' = pending /\ saved' = saved /\ phase # "idle"
      BY <1>2 DEF Cancel
    <2>2. Active' = Active /\ NextTasks' = NextTasks /\ Returned("asks")' = Returned("asks")
      BY <2>1 DEF Active, Returned, NextTasks, NextNodes, Successors, Edge, Ready, Preds, PredsIn
    <2> QED
      BY <2>1, <2>2 DEF PInv, Asking, Planned, Settled, PauseSaved, Resumed, Paused, GoesOn
  <1> QED
    BY <1>1, <1>2

LEMMA RestPaused == PInv /\ UNCHANGED vars => PInv'
  <1> SUFFICES ASSUME PInv, UNCHANGED vars PROVE PInv'
    OBVIOUS
  <1>1. /\ conf' = conf /\ phase' = phase /\ end' = end /\ tasks' = tasks /\ completed' = completed
        /\ last' = last /\ step' = step /\ pending' = pending /\ saved' = saved
    BY DEF vars, run
  <1>2. /\ Active' = Active /\ NextTasks' = NextTasks /\ Returned("asks")' = Returned("asks")
        /\ (saved # None => NextOf(saved.completed, saved.last)' = NextOf(saved.completed, saved.last))
    BY <1>1 DEF Active, Returned, NextTasks, NextOf, NextNodes, Successors, Edge, Ready, Preds, PredsIn
  <1> QED
    BY <1>1, <1>2 DEF PInv, Asking, Planned, Settled, PauseSaved, Resumed, Paused, GoesOn

LEMMA StepPaused == IInv /\ SavesInOrder /\ PInv /\ [Next]_vars => PInv'
  BY BeginPaused, SchedulePaused, NodePaused, PausePaused, ApplyPaused, StopPaused, AsidePaused, RestPaused
     DEF Next, Engine

LEMMA PauseInvariance ==
    ASSUME SavesInOrder
    PROVE  Spec => [](TInv /\ PInv)
  <1>1. Init => PInv
    BY DEF Init, PInv, Asking, Planned, Settled, PauseSaved, Resumed, Paused, NoTasks, Returned
  <1>2. TInv /\ PInv /\ [Next]_vars => PInv'
    BY StepPaused DEF TInv
  <1> QED
    BY <1>1, <1>2, Invariance, PTL DEF Spec

\* With fan-in a resumed run repeats no node that had completed when the run
\* before it paused, if saves reach the store in order and it answers.
THEOREM ProgressIsKept ==
    ASSUME SavesInOrder
    PROVE  Spec => []PauseKeepsProgress
  <1>1. TInv /\ PInv => PauseKeepsProgress
    BY PausedProperty DEF TInv
  <1> QED
    BY <1>1, PauseInvariance, PTL

\* The run after a pause starts with every node that interrupted itself and
\* does not end cleanly without them, with fan-in whatever runs beside them,
\* in the default mode if such a node is alone in its superstep.
THEOREM ResumesThere ==
    ASSUME SavesInOrder, \A g \in Configs : AsksAlone(g)
    PROVE  Spec => ResumesAtNode
  <1> DEFINE Again == phase = "loop" /\ step = 0 /\ end.how = "task" =>
                        /\ phase' = "execute" => \A n \in end.nodes : tasks'[n] = "run"
                        /\ end'.how # "done"
  <1>1. TInv /\ PInv /\ [Next]_vars => Again
    <2> SUFFICES ASSUME IInv, PInv, Next, phase = "loop", step = 0, Paused
                 PROVE  /\ phase' = "execute" => \A n \in end.nodes : tasks'[n] = "run"
                        /\ end'.how # "done"
      BY DEF TInv, Paused, vars, run
    <2>1. end.nodes # {} /\ end.nodes \subseteq Nodes /\ \A next \in NextTasks : end.nodes \subseteq next
      BY DEF PInv, Resumed, GoesOn, IInv, Control, History
    <2>2. ASSUME phase' = "execute", NEW n \in end.nodes PROVE tasks'[n] = "run"
      <3>1. Schedule
        BY <2>2 DEF Next, Engine, Node, StartFresh, StartFromCheckpoint, BeginRun, GiveUp, Finish, InterruptBefore,
           PutOrFail, EndRun, Pause, Joined, AllFailed, Apply, NodeReturns, NodeInterrupts, NodeRetries, NodeFails,
           Answer, node, BackgroundSave, run, Cancel, Crash
      <3>2. PICK next \in NextTasks : tasks' = [m \in Nodes |-> IF m \in next THEN "run" ELSE "off"]
        BY <3>1 DEF Schedule
      <3> QED
        BY <2>1, <2>2, <3>2
    <2>3. end'.how # "done"
      <3>1. {} \notin NextTasks
        BY <2>1
      <3>2. ~Finish /\ ~Joined /\ ~(StartFresh \/ StartFromCheckpoint)
        BY <3>1 DEF Finish, Joined, StartFresh, StartFromCheckpoint, BeginRun
      <3>3. CASE GiveUp \/ InterruptBefore \/ Crash
        BY <3>3 DEF GiveUp, InterruptBefore, PutOrFail, Crash, EndRun
      <3>4. CASE Schedule \/ BackgroundSave \/ Cancel
        BY <3>4 DEF Schedule, BackgroundSave, Cancel, Paused
      <3>5. CASE \E n \in Nodes : Node(n)
        BY <3>5 DEF Node, NodeReturns, NodeInterrupts, NodeRetries, NodeFails, Answer, node, Paused
      <3> QED
        BY <3>2, <3>3, <3>4, <3>5 DEF Next, Engine, Pause, AllFailed, Apply
    <2> QED
      BY <2>2, <2>3
  <1>2. Spec => [][Again]_vars
    BY <1>1, PauseInvariance, PTL DEF Spec
  <1> QED
    BY <1>2 DEF ResumesAtNode

=============================================================================
