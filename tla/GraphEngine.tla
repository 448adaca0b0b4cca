---------------------------- MODULE GraphEngine ----------------------------
(***************************************************************************)
(* The Pregel engine of the graph harness                                  *)
(* (ragflow/internal/harness/graph/pregel/engine.go).  A run of a graph    *)
(* goes through supersteps: choose the next nodes, run them side by side   *)
(* behind a barrier, apply what they return to the channels, save a        *)
(* checkpoint of the thread.  The next run of the thread starts from the   *)
(* last checkpoint in the store.                                           *)
(*                                                                         *)
(* A node is a step of any outcome: a result, an error that is retried, a  *)
(* panic, an interrupt.  Each node writes a channel of its own; the value  *)
(* is the number of the execution that wrote it.  A channel with a reducer *)
(* that only the input writes counts how often the input is in it.  The    *)
(* goroutine of a run is one actor: what it does between two waits for     *)
(* nodes is one action.  The nodes, the saves in the background, the       *)
(* caller's cancel and a crash come in between.                            *)
(***************************************************************************)
EXTENDS Naturals, Sequences, FiniteSets

CONSTANTS
    Nodes, End,      \* End: the end of the graph, as the target of an edge
    None,
    Configs,         \* compiled graphs with their options
    MaxAttempts,     \* of the retry policy
    RecursionLimit,  \* supersteps of one run
    MaxPending       \* bound: saves in the background at a time

(***************************************************************************)
(* A compiled graph: the entry node, the edges in the order they were      *)
(* added, the targets of a node's conditional edge (none: the node has no  *)
(* such edge), the trigger mode, the durability, the nodes to interrupt    *)
(* before and after, the nodes that may interrupt themselves, the nodes    *)
(* that may fail, the nodes whose channel was configured before the run,   *)
(* whether the store may fail to answer, and a bound: the runs of the      *)
(* thread.                                                                 *)
(***************************************************************************)
Config == [entry : Nodes, edges : Seq(Nodes \X (Nodes \cup {End})),
           routes : [Nodes -> SUBSET (Nodes \cup {End})],
           mode : {"any", "all"}, durability : {"sync", "async", "exit"},
           before : SUBSET Nodes, after : SUBSET Nodes,
           asking : SUBSET Nodes, failing : SUBSET Nodes,
           channels : SUBSET Nodes, storeFails : BOOLEAN, runs : Nat]

Channels == [out : [Nodes -> Nat], input : Nat]

Checkpoints == [chans : Channels, completed : SUBSET Nodes, last : Nodes \cup {None}]

ASSUME GraphAssumption ==
    /\ Configs \subseteq Config
    /\ End \notin Nodes /\ None \notin Nodes /\ None \notin Checkpoints
    /\ MaxAttempts \in Nat \ {0} /\ RecursionLimit \in Nat
    /\ MaxPending \in Nat \ {0}

VARIABLES
    conf,            \* the graph, the same for every run
    phase,           \* idle, loop (top of a superstep), execute
    step,
    chans,           \* channel registry
    completed, last, \* completedTasks, lastCompletedNode
    tasks, tries,    \* node -> off, run, or its result; failed attempts
    cancelled,       \* the caller's context has ended
    deferred,        \* checkpoints kept until the run ends
    pending,         \* checkpoints on their way to the store
    saved,           \* the last checkpoint in the store
    end,             \* how the last run ended, at which nodes, and what it
                     \* had completed by then
    execs,           \* history: node -> executions that returned a result
    ran,             \* history: nodes that did so in this run
    runs

run  == <<phase, step, chans, completed, last, tasks, tries, cancelled, deferred>>
vars == <<conf, run, pending, saved, end, execs, ran, runs>>

-----------------------------------------------------------------------------
(* The graph. *)

Edge(i) == conf.edges[i]

PredsIn(c, n) == {c.edges[i][1] : i \in {j \in DOMAIN c.edges : c.edges[j][2] = n}}
Preds(n) == PredsIn(conf, n)

\* The edges of a node are followed up to its first edge to the end.
Successors(n) ==
    {Edge(i)[2] : i \in {j \in DOMAIN conf.edges :
        /\ Edge(j)[1] = n
        /\ \A k \in 1..j : Edge(k) # <<n, End>>}}

\* getNextNodes: a conditional edge hides the ordinary ones.  A graph has at
\* most one for each node, no branch functions and no _next in its state.
NextNodes(n) ==
    IF conf.routes[n] = {} THEN {Successors(n)}
                           ELSE {{t} \ {End} : t \in conf.routes[n]}

\* Mutant: one completed predecessor is enough.
ReadyAny == {n \in Nodes \ completed : Preds(n) \cap completed # {}}

Ready == {n \in Nodes \ completed : Preds(n) \subseteq completed}

\* prepareNextTasks: the sets of nodes the next superstep may run.
NextTasks ==
    IF completed = {} THEN {{conf.entry}}
    ELSE IF conf.mode = "all" THEN {Ready} ELSE NextNodes(last)

-----------------------------------------------------------------------------
(* Checkpoints. *)

Blank == [out |-> [n \in Nodes |-> 0], input |-> 0]

ApplyInput(c) == [c EXCEPT !.input = @ + 1]

\* Mutant: the progress is never saved.
CheckpointChannelsOnly(c, done, l) == [chans |-> c, completed |-> {}, last |-> None]

\* A step saves its channels only, a node's interrupt the progress as well.
Checkpoint(c, done, l) == [chans |-> c, completed |-> done, last |-> l]
StepCheckpoint(c) == Checkpoint(c, {}, None)

\* Only channels that are registered when the run starts are restored.
Restored(c) ==
    [c EXCEPT !.out = [n \in Nodes |-> IF n \in conf.channels THEN @[n] ELSE 0]]

-----------------------------------------------------------------------------
(* The end of a run. *)

NoTasks == [n \in Nodes |-> "off"]
Active == {n \in Nodes : tasks[n] # "off"}
Returned(r) == {n \in Nodes : tasks[n] = r}

EndRun(how, at) ==
    /\ phase' = "idle"
    /\ end' = [how |-> how, nodes |-> at, done |-> completed']
    /\ tasks' = NoTasks /\ tries' = [n \in Nodes |-> 0]
    /\ deferred' = <<>>

\* A Put that ends the run if it fails.
PutOrFail(cp, Then) ==
    \/ saved' = cp /\ Then
    \/ conf.storeFails /\ UNCHANGED saved /\ EndRun("failed", {})

-----------------------------------------------------------------------------
(* A run begins: channels, input, the checkpoint of the thread. *)

BeginRun ==
    /\ phase = "idle" /\ runs < conf.runs
    /\ runs' = runs + 1
    /\ phase' = "loop" /\ step' = 0 /\ cancelled' = FALSE /\ ran' = {}
    /\ UNCHANGED <<conf, tasks, tries, deferred, pending, saved, end, execs>>

StartFresh ==
    /\ saved = None \/ conf.storeFails
    /\ chans' = ApplyInput(ApplyInput(Blank))
    /\ completed' = {} /\ last' = None
    /\ BeginRun

StartFromCheckpoint ==
    /\ saved # None
    /\ chans' = Restored(saved.chans)
    /\ completed' = saved.completed /\ last' = saved.last
    /\ BeginRun

-----------------------------------------------------------------------------
(* The top of a superstep. *)

\* Mutant: no recursion limit.
MayStepUnlimited == phase = "loop" /\ ~cancelled

MayStep == phase = "loop" /\ ~cancelled /\ step < RecursionLimit

GiveUp ==
    /\ phase = "loop"
    /\ cancelled \/ step >= RecursionLimit
    /\ UNCHANGED <<conf, step, chans, completed, last, cancelled, pending, saved, execs, ran, runs>>
    /\ EndRun(IF cancelled THEN "cancelled" ELSE "limit", {})

\* Nothing is left to do: the deferred checkpoints are saved in their order.
\* The last one that gets through stays.
Finish ==
    /\ MayStep /\ {} \in NextTasks
    /\ UNCHANGED <<conf, step, chans, completed, last, cancelled, pending, execs, ran, runs>>
    /\ \/ /\ saved' = IF deferred = <<>> THEN saved ELSE deferred[Len(deferred)]
          /\ EndRun("done", {})
       \/ /\ conf.storeFails
          /\ saved' \in {saved} \cup {deferred[i] : i \in DOMAIN deferred}
          /\ EndRun("failed", {})

InterruptBefore ==
    /\ MayStep
    /\ \E next \in NextTasks :
         /\ next \cap conf.before # {}
         /\ UNCHANGED <<conf, step, chans, completed, last, cancelled, pending, execs, ran, runs>>
         /\ PutOrFail(StepCheckpoint(chans), EndRun("before", next \cap conf.before))

Schedule ==
    /\ MayStep
    /\ \E next \in NextTasks \ {{}} :
         /\ next \cap conf.before = {}
         /\ tasks' = [n \in Nodes |-> IF n \in next THEN "run" ELSE "off"]
    /\ phase' = "execute" /\ tries' = [n \in Nodes |-> 0]
    /\ UNCHANGED <<conf, step, chans, completed, last, cancelled, deferred, pending,
                   saved, end, execs, ran, runs>>

-----------------------------------------------------------------------------
(* The nodes of a superstep, side by side. *)

node == <<conf, phase, step, chans, completed, last, cancelled, deferred, pending, saved, end, runs>>

Answer(n, r) == tasks[n] = "run" /\ tasks' = [tasks EXCEPT ![n] = r] /\ UNCHANGED node

NodeReturns(n) ==
    /\ Answer(n, "ok")
    /\ execs' = [execs EXCEPT ![n] = @ + 1] /\ ran' = ran \cup {n}
    /\ UNCHANGED tries

\* A resumed node may ask again.
NodeInterrupts(n) ==
    /\ n \in conf.asking
    /\ Answer(n, "asks")
    /\ UNCHANGED <<tries, execs, ran>>

NodeRetries(n) ==
    /\ n \in conf.failing /\ tries[n] + 1 < MaxAttempts
    /\ Answer(n, "run")
    /\ tries' = [tries EXCEPT ![n] = @ + 1]
    /\ UNCHANGED <<execs, ran>>

\* The last attempt failed, a panic, or the caller's context ended.
NodeFails(n) ==
    /\ cancelled \/ n \in conf.failing
    /\ Answer(n, "err")
    /\ UNCHANGED <<tries, execs, ran>>

-----------------------------------------------------------------------------
(* Behind the barrier. *)

Joined == phase = "execute" /\ Returned("run") = {}

\* Mutants: whatever the error, or after an interrupt, the node is marked.
CompletedWithFailures == completed \cup Active

CompletedWithAsking == completed \cup Returned("ok") \cup Returned("asks")

Completed == completed \cup Returned("ok")

\* Results come in the order of a map: any success may be the last one.
LastOf(l) == IF Returned("ok") = {} THEN l = last ELSE l \in Returned("ok")

\* What finished next to the interrupt is marked, but not applied.
Pause ==
    /\ Joined /\ Returned("asks") # {}
    /\ completed' = Completed /\ LastOf(last')
    /\ UNCHANGED <<conf, step, chans, cancelled, pending, execs, ran, runs>>
    /\ PutOrFail(Checkpoint(chans, completed', last'), EndRun("task", Returned("asks")))

\* Mutant: a superstep in which every node failed is done again.
AllFailedAgain ==
    /\ Joined /\ Returned("err") = Active
    /\ phase' = "loop" /\ tasks' = NoTasks /\ tries' = [n \in Nodes |-> 0]
    /\ UNCHANGED <<conf, step, chans, completed, last, cancelled, deferred, pending, saved,
                   end, execs, ran, runs>>

AllFailed ==
    /\ Joined /\ Returned("err") = Active
    /\ UNCHANGED <<conf, step, chans, completed, last, cancelled, pending, saved, execs, ran, runs>>
    /\ EndRun("failed", {})

ApplyWrites ==
    [chans EXCEPT !.out = [n \in Nodes |-> IF tasks[n] = "ok" THEN execs[n] ELSE @[n]]]

NextStep ==
    /\ phase' = "loop" /\ step' = step + 1
    /\ tasks' = NoTasks /\ tries' = [n \in Nodes |-> 0]
    /\ UNCHANGED end

Interrupted == Returned("ok") \cap conf.after

\* The run goes on, unless a node to interrupt after has run.
AfterStep ==
    IF Interrupted = {} THEN NextStep
                        ELSE UNCHANGED step /\ EndRun("after", Interrupted)

SaveStep(cp) ==
    CASE conf.durability = "sync" ->
            /\ UNCHANGED pending
            /\ \/ saved' = cp /\ AfterStep /\ (Interrupted = {} => UNCHANGED deferred)
               \/ conf.storeFails /\ UNCHANGED <<saved, step>> /\ EndRun("failed", {})
      [] conf.durability = "async" ->
            /\ Cardinality(pending) < MaxPending
            /\ pending' = pending \cup {[run |-> runs, step |-> step, cp |-> cp]}
            /\ UNCHANGED saved
            /\ AfterStep /\ (Interrupted = {} => UNCHANGED deferred)
      [] conf.durability = "exit" ->
            /\ UNCHANGED <<pending, saved>>
            /\ AfterStep /\ (Interrupted = {} => deferred' = Append(deferred, cp))

Apply ==
    /\ Joined /\ Returned("asks") = {} /\ Returned("ok") # {}
    /\ completed' = Completed /\ LastOf(last')
    /\ chans' = ApplyWrites
    /\ UNCHANGED <<conf, cancelled, execs, ran, runs>>
    /\ SaveStep(StepCheckpoint(chans'))

-----------------------------------------------------------------------------
(* Around the run. *)

\* A save in the background is a goroutine of its own: any order.
BackgroundSave ==
    /\ \E p \in pending :
         /\ pending' = pending \ {p}
         /\ saved' = p.cp \/ (conf.storeFails /\ saved' = saved)
    /\ UNCHANGED <<conf, run, end, execs, ran, runs>>

Cancel ==
    /\ phase # "idle" /\ ~cancelled
    /\ cancelled' = TRUE
    /\ UNCHANGED <<conf, phase, step, chans, completed, last, tasks, tries, deferred,
                   pending, saved, end, execs, ran, runs>>

\* The process dies: what is not in the store is gone.
Crash ==
    /\ phase # "idle" \/ pending # {}
    /\ pending' = {}
    /\ UNCHANGED <<conf, step, chans, completed, last, cancelled, saved, execs, ran, runs>>
    /\ EndRun("crash", {})

-----------------------------------------------------------------------------
Init ==
    /\ conf \in Configs
    /\ phase = "idle" /\ step = 0 /\ cancelled = FALSE
    /\ chans = Blank /\ completed = {} /\ last = None
    /\ tasks = NoTasks /\ tries = [n \in Nodes |-> 0]
    /\ deferred = <<>> /\ pending = {} /\ saved = None
    /\ end = [how |-> "none", nodes |-> {}, done |-> {}]
    /\ execs = [n \in Nodes |-> 0] /\ ran = {} /\ runs = 0

Node(n) == NodeReturns(n) \/ NodeInterrupts(n) \/ NodeRetries(n) \/ NodeFails(n)

Engine == GiveUp \/ Finish \/ InterruptBefore \/ Schedule \/ Pause \/ AllFailed \/ Apply

Next ==
    \/ StartFresh \/ StartFromCheckpoint
    \/ Engine
    \/ \E n \in Nodes : Node(n)
    \/ BackgroundSave \/ Cancel \/ Crash

Spec == Init /\ [][Next]_vars

\* The goroutines of the run and of a background save go on, and every node
\* returns in the end; nobody has to start a run, to cancel or to crash.
FairSpec ==
    /\ Spec
    /\ WF_vars(Engine) /\ WF_vars(BackgroundSave)
    /\ \A n \in Nodes : WF_vars(Node(n))

-----------------------------------------------------------------------------
(* Properties. *)

IsCheckpoint(cp) ==
    /\ cp \in Checkpoints
    /\ cp.last \in cp.completed \cup {None}
    /\ cp.completed = {} <=> cp.last = None

\* Types.  No run exceeds the recursion limit, a node fails for good within
\* its attempts, only the nodes of a superstep in progress have a state, and
\* there is a last completed node whenever one has completed.
TypeOK ==
    /\ conf \in Configs
    /\ phase \in {"idle", "loop", "execute"}
    /\ step \in 0..RecursionLimit
    /\ IsCheckpoint(Checkpoint(chans, completed, last))
    /\ tasks \in [Nodes -> {"off", "run", "ok", "err", "asks"}]
    /\ phase = "execute" <=> Active # {}
    /\ tries \in [Nodes -> 0..(MaxAttempts - 1)]
    /\ cancelled \in BOOLEAN
    /\ \A i \in DOMAIN deferred : IsCheckpoint(deferred[i])
    /\ \A p \in pending : IsCheckpoint(p.cp) /\ p.run \in 1..runs /\ p.step \in 0..(RecursionLimit - 1)
    /\ saved # None => IsCheckpoint(saved)
    /\ end.how \in {"none", "done", "failed", "limit", "cancelled", "before", "task", "after", "crash"}
    /\ end.nodes \subseteq Nodes /\ end.done \subseteq Nodes
    /\ execs \in [Nodes -> Nat] /\ ran \subseteq Nodes
    /\ runs \in 0..conf.runs

\* When a node of a graph with fan-in runs, the channels hold what the last
\* execution of each of its predecessors returned, whatever crashed, failed
\* or was resumed before (types.go:19, engine.go:307).
FanInReads ==
    phase = "execute" /\ conf.mode = "all" =>
        \A n \in Active : \A p \in Preds(n) : chans.out[p] = execs[p] /\ execs[p] > 0

\* A graph with fan-in that ends without an error has the output of every
\* node, also of those that failed in a step that went on without them.
DoneHasAllOutputs ==
    phase = "idle" /\ end.how = "done" /\ conf.mode = "all" =>
        \A n \in Nodes : chans.out[n] = execs[n] /\ execs[n] > 0

\* The run after a pause starts with the nodes that interrupted themselves,
\* and does not end cleanly without them (interrupt.go:56).
ResumesAtNode ==
    [][phase = "loop" /\ step = 0 /\ end.how = "task" =>
         /\ phase' = "execute" => \A n \in end.nodes : tasks'[n] = "run"
         /\ end'.how # "done"]_vars

\* With fan-in it does not repeat what had completed before the pause.
PauseKeepsProgress ==
    phase = "execute" /\ end.how = "task" /\ conf.mode = "all" => Active \cap end.done = {}

\* When a run stops after a node, the thread's checkpoint has the output of
\* that node (engine.go:918).
AfterCaptured ==
    phase = "idle" /\ end.how = "after" =>
        saved # None /\ \A n \in end.nodes : saved.chans.out[n] = execs[n]

\* In the default mode a node runs when any of its predecessors has completed
\* (engine.go:734).
AnyTriggers ==
    phase = "idle" /\ end.how = "done" /\ conf.mode = "any" =>
        \A n \in ran : Successors(n) \subseteq ran

\* A run that resumes an interrupt before a node gets past that node
\* (graph_integration_test.go:179).
ResumeGoesOn ==
    [][phase = "loop" /\ end.how = "before" /\ phase' = "idle" /\ end'.how = "before"
         => end.nodes \cap ran # {}]_vars

\* The input of a run is applied once, when no checkpoint was loaded
\* (engine.go:394).
InputOnce == chans.input <= 1

\* Every run ends, cycles and failing nodes or not.
RunEnds == phase # "idle" ~> phase = "idle"

=============================================================================
