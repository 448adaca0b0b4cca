------------------------ MODULE KnowledgeCompileProofs ------------------------
(* What holds of a dataset's scheduling row for every number of documents,     *)
(* workers and events, every batch size and any number of failures: types, no  *)
(* entry lost, a live lease respected, one worker inside a batch, a status     *)
(* that tells the truth, and products that agree with the last events.         *)
EXTENDS KnowledgeCompile, FiniteSetTheorems, TLAPS

LEMMA BatchIsQueued ==
    ASSUME NEW backlog, NEW order
    PROVE  FirstOf(backlog, order) \subseteq backlog
  BY DEF FirstOf

LEMMA InColumn == \A c : In(c) \subseteq Ids
  BY DEF In

LEMMA InitTypes == Init => TypeOK
  <1> SUFFICES ASSUME Init PROVE TypeOK
    OBVIOUS
  <1>1. \E e \in Events : TRUE
    <2>1. PICK d \in Docs : TRUE
      BY KnowledgeCompileAssumption
    <2>2. <<d, "completed">> \in Events
      BY DEF Events
    <2> QED
      BY <2>2
  <1>2. (CHOOSE e \in Events : TRUE) \in Events
    BY <1>1
  <1>3. event \in [Ids -> Events]
    BY <1>2 DEF Init
  <1>4. NoClaim \in WorkerStates
    BY DEF NoClaim, WorkerStates
  <1>5. worker \in [Workers -> WorkerStates]
    BY <1>4 DEF Init
  <1>6. column \in [Ids -> {"none", "backlog", "inflight", "acked"}]
    BY DEF Init
  <1>7. In("inflight") = {}
    BY DEF Init, In
  <1>8. \A w \in Workers : ~Busy(w) => worker[w].batch = {} /\ worker[w].beat = "off"
    BY DEF Init, NoClaim
  <1>9. expired \in BOOLEAN /\ errorMsg \in BOOLEAN /\ reordered \in BOOLEAN
    BY Zenon DEF Init
  <1> QED
    BY <1>3, <1>5, <1>6, <1>7, <1>8, <1>9, KnowledgeCompileAssumption DEF Init, TypeOK

\* A batch taken by w: what claimRow does to the row and to its worker.
LEMMA TakeBatchTypes ==
    ASSUME TypeOK, NEW w \in Workers, NEW backlog \in SUBSET Ids,
           NEW order \in SUBSET (Ids \X Ids), TakeBatch(w, backlog, order)
    PROVE  /\ column' \in [Ids -> {"none", "backlog", "inflight", "acked"}]
           /\ before' \subseteq Ids \X Ids
           /\ owner' = w /\ ~expired' /\ expired' \in BOOLEAN
           /\ state' = "running" /\ ~errorMsg' /\ errorMsg' \in BOOLEAN
           /\ worker' \in [Workers -> WorkerStates]
           /\ \A v \in Workers \ {w} : worker'[v] = worker[v]
           /\ worker'[w].pc \in {"drop", "load"} /\ worker'[w].beat = "on"
           /\ worker'[w].batch = FirstOf(backlog, order)
           /\ In("inflight")' # {}
  <1> DEFINE batch == FirstOf(backlog, order)
             claim == [pc     |-> IF LastIs("deleted", batch, order) # {} THEN "drop" ELSE "load",
                       batch  |-> batch, drop |-> LastIs("deleted", batch, order),
                       merge  |-> LastIs("completed", batch, order),
                       loaded |-> {}, seen |-> {}, beat |-> "on"]
  <1>1. batch \subseteq Ids /\ batch # {}
    BY BatchIsQueued DEF TakeBatch
  <1>2. \A t : LastIs(t, batch, order) \subseteq Docs
    BY DEF LastIs
  <1>3. claim \in WorkerStates
    BY <1>1, <1>2 DEF WorkerStates
  <1>4. worker' = [worker EXCEPT ![w] = claim]
    BY DEF TakeBatch
  <1>5. /\ worker' \in [Workers -> WorkerStates]
        /\ \A v \in Workers \ {w} : worker'[v] = worker[v]
        /\ worker'[w] = claim
    BY <1>3, <1>4 DEF TypeOK
  <1>6. column' = [i \in Ids |-> CASE i \in batch -> "inflight"
                                   [] i \in backlog \ batch -> "backlog"
                                   [] OTHER -> column[i]]
    BY DEF TakeBatch
  <1>7. column' \in [Ids -> {"none", "backlog", "inflight", "acked"}]
    BY <1>6 DEF TypeOK
  <1>8. In("inflight")' # {}
    BY <1>1, <1>6 DEF In
  <1>9. before' \subseteq Ids \X Ids
    BY DEF TakeBatch
  <1>10. owner' = w /\ expired' = FALSE /\ state' = "running" /\ errorMsg' = FALSE
    BY DEF TakeBatch
  <1>11. worker'[w].pc \in {"drop", "load"} /\ worker'[w].beat = "on" /\ worker'[w].batch = batch
    BY <1>5
  <1> HIDE DEF batch, claim
  <1>12. worker'[w].batch = FirstOf(backlog, order)
    BY <1>11 DEF batch
  <1> QED
    BY <1>5, <1>7, <1>8, <1>9, <1>10, <1>11, <1>12

\* The claims: which backlog and which order TakeBatch is given.
LEMMA ClaimTakes ==
    ASSUME TypeOK, NEW w \in Workers, Claim(w) \/ (Reclaim(w) /\ worker'[w] # NoClaim)
    PROVE  \E backlog \in SUBSET (In("backlog") \cup In("inflight")), order \in SUBSET (Ids \X Ids) :
              /\ In("backlog") \subseteq backlog
              /\ TakeBatch(w, backlog, order)
              /\ ~LiveLease /\ ~Busy(w)
              /\ reordered' \in BOOLEAN
  <1>1. CASE Claim(w)
    <2>1. before \in SUBSET (Ids \X Ids)
      BY DEF TypeOK
    <2>2. TakeBatch(w, In("backlog"), before) /\ ~LiveLease /\ ~Busy(w)
      BY <1>1 DEF Claim, Busy
    <2>3. reordered' \in BOOLEAN
      BY <1>1, Zenon DEF Claim, TypeOK
    <2> QED
      BY <2>1, <2>2, <2>3
  <1>2. CASE Reclaim(w) /\ worker'[w] # NoClaim
    <2> DEFINE order == (before \ (In("inflight") \X In("backlog")))
                            \cup (In("backlog") \X In("inflight"))
    <2>1. order \in SUBSET (Ids \X Ids)
      BY InColumn DEF TypeOK
    <2>2. ~ (worker' = [worker EXCEPT ![w] = NoClaim])
      BY <1>2 DEF TypeOK
    <2>3. /\ TakeBatch(w, In("backlog") \cup In("inflight"), order) /\ ~LiveLease
          /\ reordered' = (reordered \/ In("backlog") # {})
      BY <1>2, <2>2 DEF Reclaim
    <2>4. ~Busy(w)
      BY <1>2 DEF Reclaim, Busy
    <2>5. reordered' \in BOOLEAN
      BY <2>3
    <2> HIDE DEF order
    <2> QED
      BY <2>1, <2>3, <2>4, <2>5
  <1> QED
    BY <1>1, <1>2

LEMMA ReclaimGivesUp ==
    ASSUME TypeOK, NEW w \in Workers, Reclaim(w), worker'[w] = NoClaim
    PROVE  worker' = [worker EXCEPT ![w] = NoClaim] /\ UNCHANGED <<log, row, engine, history>>
  <1> DEFINE backlog == In("backlog") \cup In("inflight")
             order   == (before \ (In("inflight") \X In("backlog")))
                            \cup (In("backlog") \X In("inflight"))
  <1>1. backlog \in SUBSET Ids /\ order \in SUBSET (Ids \X Ids)
    BY InColumn DEF TypeOK
  <1>2. ASSUME TakeBatch(w, backlog, order) PROVE FALSE
    <2> HIDE DEF backlog, order
    <2>1. worker'[w].pc \in {"drop", "load"}
      BY <1>1, <1>2, TakeBatchTypes
    <2> QED
      BY <2>1 DEF NoClaim
  <1> QED
    BY <1>2 DEF Reclaim

\* The steps of a worker that change neither the row nor the publishers.
LEMMA StepTypes ==
    ASSUME TypeOK, NEW w \in Workers, NEW new \in WorkerStates,
           worker' = [worker EXCEPT ![w] = new],
           new.pc \notin {"idle", "reclaim"} \/ new = [NoClaim EXCEPT !.pc = new.pc],
           UNCHANGED <<log, row>>,
           products' \subseteq Docs, merged' \subseteq Docs, graph' \subseteq Docs,
           applied' \subseteq Ids, UNCHANGED <<removed, reordered>>,
           faults' \in 0..MaxTroubles, abandons' \in 0..MaxTroubles
    PROVE  TypeOK'
  <1>1. worker' \in [Workers -> WorkerStates]
    BY DEF TypeOK
  <1>2. \A v \in Workers : ~Busy(v)' => worker'[v].batch = {} /\ worker'[v].beat = "off"
    <2> SUFFICES ASSUME NEW v \in Workers, ~Busy(v)'
                 PROVE  worker'[v].batch = {} /\ worker'[v].beat = "off"
      OBVIOUS
    <2>1. CASE v = w
      BY <2>1 DEF TypeOK, Busy, NoClaim
    <2>2. CASE v # w
      BY <2>2 DEF TypeOK, Busy
    <2> QED
      BY <2>1, <2>2
  <1>3. In("inflight")' = In("inflight")
    BY DEF In, row
  <1> QED
    BY <1>1, <1>2, <1>3 DEF TypeOK, log, row

LEMMA ProcessTypes ==
    ASSUME TypeOK, NEW w \in Workers,
           \/ DeleteDocLevel(w) \/ StripMergedSources(w) \/ LoadAndSearch(w)
           \/ WriteMerged(w) \/ DropWikiGraph(w) \/ InsertWikiGraph(w)
    PROVE  TypeOK'
  <1> USE DEF history, engine
  <1>0. /\ worker[w] \in WorkerStates /\ NoClaim \in WorkerStates
        /\ products \subseteq Docs /\ merged \subseteq Docs /\ graph \subseteq Docs
        /\ faults \in 0..MaxTroubles /\ abandons \in 0..MaxTroubles
        /\ applied \subseteq Ids
    BY DEF TypeOK, NoClaim, WorkerStates
  <1>1. CASE DeleteDocLevel(w)
    <2>1. [worker[w] EXCEPT !.pc = "strip"] \in WorkerStates
      BY <1>0 DEF WorkerStates
    <2>2. worker' = [worker EXCEPT ![w] = [worker[w] EXCEPT !.pc = "strip"]]
      BY <1>1 DEF DeleteDocLevel, Step
    <2> QED
      BY <1>0, <1>1, <2>1, <2>2, StepTypes DEF DeleteDocLevel, Step, WorkerStates
  <1>2. CASE StripMergedSources(w)
    <2>1. [worker[w] EXCEPT !.pc = "load"] \in WorkerStates
      BY <1>0 DEF WorkerStates
    <2>2. worker' = [worker EXCEPT ![w] = [worker[w] EXCEPT !.pc = "load"]]
      BY <1>2 DEF StripMergedSources, Step
    <2> QED
      BY <1>0, <1>2, <2>1, <2>2, StepTypes DEF StripMergedSources, Step, WorkerStates
  <1>3. CASE LoadAndSearch(w)
    <2> DEFINE loaded == worker[w].merge \cap products
               seen   == IF loaded = {} THEN {} ELSE merged
               new    == [worker[w] EXCEPT !.pc = "write", !.loaded = loaded, !.seen = seen]
    <2>1. new \in WorkerStates /\ new.pc = "write"
      BY <1>0 DEF WorkerStates
    <2>2. worker' = [worker EXCEPT ![w] = new]
      BY <1>3 DEF LoadAndSearch
    <2> HIDE DEF new
    <2> QED
      BY <1>0, <1>3, <2>1, <2>2, StepTypes DEF LoadAndSearch
  <1>4. CASE WriteMerged(w)
    <2>1. [worker[w] EXCEPT !.pc = "project"] \in WorkerStates
      BY <1>0 DEF WorkerStates
    <2>2. worker' = [worker EXCEPT ![w] = [worker[w] EXCEPT !.pc = "project"]]
      BY <1>4 DEF WriteMerged, Step
    <2>3. merged' \subseteq Docs
      BY <1>0, <1>4 DEF WriteMerged, WorkerStates
    <2> QED
      BY <1>0, <1>4, <2>1, <2>2, <2>3, StepTypes DEF WriteMerged, Step, WorkerStates
  <1>5. CASE DropWikiGraph(w)
    <2> DEFINE new == [worker[w] EXCEPT !.pc = "insert", !.seen = merged]
    <2>1. new \in WorkerStates /\ new.pc = "insert"
      BY <1>0 DEF WorkerStates
    <2>2. worker' = [worker EXCEPT ![w] = new]
      BY <1>5 DEF DropWikiGraph
    <2> HIDE DEF new
    <2> QED
      BY <1>0, <1>5, <2>1, <2>2, StepTypes DEF DropWikiGraph
  <1>6. CASE InsertWikiGraph(w)
    <2> DEFINE new == IF worker[w].beat = "failed" THEN NoClaim
                      ELSE [worker[w] EXCEPT !.pc = "ack"]
    <2>1. new \in WorkerStates /\ (new.pc = "ack" \/ new = [NoClaim EXCEPT !.pc = new.pc])
      BY <1>0 DEF WorkerStates, NoClaim
    <2>2. worker' = [worker EXCEPT ![w] = new]
      BY <1>6 DEF InsertWikiGraph
    <2>3. graph' \subseteq Docs /\ applied' \subseteq Ids
      BY <1>0, <1>6 DEF InsertWikiGraph, WorkerStates
    <2> HIDE DEF new
    <2> QED
      BY <1>0, <1>6, <2>1, <2>2, <2>3, StepTypes DEF InsertWikiGraph
  <1> QED
    BY <1>1, <1>2, <1>3, <1>4, <1>5, <1>6

LEMMA AckTypes ==
    ASSUME TypeOK, NEW w \in Workers, Ack(w)
    PROVE  TypeOK'
  <1> DEFINE gone == RemoveEntries(worker[w].batch)
  <1>0. NoClaim \in WorkerStates
    BY DEF NoClaim, WorkerStates
  <1>1. /\ worker' \in [Workers -> WorkerStates]
        /\ \A v \in Workers : ~Busy(v)' => worker'[v].batch = {} /\ worker'[v].beat = "off"
    BY <1>0 DEF Ack, TypeOK, Busy, NoClaim
  <1>2. CASE TokenMatches(w)
    <2>1. gone \subseteq In("inflight")
      BY DEF RemoveEntries
    <2>2. /\ column' = [i \in Ids |-> IF i \in gone THEN "acked" ELSE column[i]]
          /\ before' \subseteq before
          /\ owner' = LeaseAfterAck(gone)
          /\ expired' = (expired /\ owner' # Nobody)
          /\ state' = StateAfterAck /\ errorMsg' = errorMsg
      BY <1>2 DEF Ack
    <2>3. In("inflight")' = In("inflight") \ gone
      BY <2>1, <2>2 DEF In, TypeOK
    <2>4. column' \in [Ids -> {"none", "backlog", "inflight", "acked"}]
      BY <2>2 DEF TypeOK
    <2>5. owner' = Nobody <=> In("inflight")' = {}
      BY <1>2, <2>1, <2>2, <2>3, KnowledgeCompileAssumption DEF LeaseAfterAck, TokenMatches
    <2>6. owner' \in Workers \cup {Nobody} /\ expired' \in BOOLEAN
      BY <2>2 DEF LeaseAfterAck, TypeOK
    <2> HIDE DEF gone
    <2> QED
      BY <1>1, <2>2, <2>4, <2>5, <2>6 DEF Ack, TypeOK, StateAfterAck, log, engine, history
  <1>3. CASE ~TokenMatches(w)
    <2>1. UNCHANGED row
      BY <1>3 DEF Ack
    <2>2. In("inflight")' = In("inflight")
      BY <2>1 DEF row, In
    <2> QED
      BY <1>1, <2>1, <2>2 DEF Ack, TypeOK, row, log, engine, history
  <1> QED
    BY <1>2, <1>3

LEMMA PublishedRoom ==
    ASSUME IsFiniteSet(pending), published \in Nat,
           published + Cardinality(pending) <= MaxEvents, NEW e \in pending
    PROVE  /\ published + 1 \in Ids
           /\ IsFiniteSet(pending \ {e})
           /\ Cardinality(pending \ {e}) = Cardinality(pending) - 1
  <1>1. IsFiniteSet(pending \ {e}) /\ Cardinality(pending \ {e}) = Cardinality(pending) - 1
    BY FS_RemoveElement
  <1>2. Cardinality(pending) \in Nat /\ Cardinality(pending \ {e}) \in Nat
    BY <1>1, FS_CardinalityType
  <1> QED
    BY <1>1, <1>2, KnowledgeCompileAssumption DEF Ids

\* The bound on events leaves room for everything that is still to be published,
\* and an entry is in a column exactly when it was published.
Room   == IsFiniteSet(pending) /\ published + Cardinality(pending) <= MaxEvents
Unused == \A i \in Ids : column[i] = "none" <=> published < i

LEMMA RoomStep ==
    ASSUME TypeOK, Room, [Next]_vars
    PROVE  Room'
  <1> USE DEF Room
  <1>0. published \in Nat /\ Cardinality(pending) \in Nat
    BY FS_CardinalityType DEF TypeOK
  <1>1. ASSUME NEW e, Announce(e) PROVE Room'
    <2>1. IsFiniteSet(pending \cup {e}) /\ Cardinality(pending \cup {e}) = Cardinality(pending) + 1
      BY <1>1, FS_AddElement DEF Announce
    <2> QED
      BY <1>0, <1>1, <2>1, KnowledgeCompileAssumption DEF Announce
  <1>2. ASSUME NEW e \in Events, Publish(e) \/ PublishFails(e) PROVE Room'
    <2>1. e \in pending /\ pending' = pending \ {e} /\ published' \in {published, published + 1}
      BY <1>2 DEF Publish, PublishFails
    <2> QED
      BY <1>0, <2>1, PublishedRoom, KnowledgeCompileAssumption
  <1>3. CASE UNCHANGED log
    BY <1>3 DEF log
  <1>4. ASSUME NEW w \in Workers, Run(w) PROVE UNCHANGED log
    BY <1>4 DEF Run, Poll, Process, Claim, FindExpired, Reclaim, TakeBatch, DeleteDocLevel,
                StripMergedSources, LoadAndSearch, WriteMerged, DropWikiGraph,
                InsertWikiGraph, Step, Ack
  <1>5. ASSUME NEW w \in Workers, Abandon(w) \/ Touch(w) \/ TouchFails(w) PROVE UNCHANGED log
    BY <1>5 DEF Abandon, Touch, TouchFails
  <1>6. ASSUME LeaseExpires \/ LeaseOutlived PROVE UNCHANGED log
    BY <1>6 DEF LeaseExpires, LeaseOutlived
  <1> QED
    BY <1>1, <1>2, <1>3, <1>4, <1>5, <1>6 DEF Next, vars, IndexDocument, DeleteDocument

LEMMA TakenTypes ==
    ASSUME TypeOK, NEW w \in Workers, Claim(w) \/ (Reclaim(w) /\ worker'[w] # NoClaim)
    PROVE  TypeOK'
  <1>1. PICK backlog \in SUBSET (In("backlog") \cup In("inflight")),
             order \in SUBSET (Ids \X Ids) :
             TakeBatch(w, backlog, order) /\ reordered' \in BOOLEAN
    BY ClaimTakes
  <1>2. backlog \in SUBSET Ids
    BY InColumn
  <1>3. /\ column' \in [Ids -> {"none", "backlog", "inflight", "acked"}]
        /\ before' \subseteq Ids \X Ids /\ owner' = w /\ expired' \in BOOLEAN
        /\ state' = "running" /\ errorMsg' \in BOOLEAN /\ In("inflight")' # {}
        /\ worker' \in [Workers -> WorkerStates]
    BY <1>1, <1>2, TakeBatchTypes
  <1>4. \A v \in Workers : ~Busy(v)' => worker'[v].batch = {} /\ worker'[v].beat = "off"
    <2>1. /\ \A v \in Workers \ {w} : worker'[v] = worker[v]
          /\ worker'[w].pc \in {"drop", "load"}
      BY <1>1, <1>2, TakeBatchTypes
    <2> QED
      BY <2>1 DEF TypeOK, Busy
  <1>5. UNCHANGED <<log, engine, applied, removed, faults, abandons>>
    BY <1>1 DEF TakeBatch
  <1> QED
    BY <1>1, <1>3, <1>4, <1>5, KnowledgeCompileAssumption DEF TypeOK, log, engine

\* The steps that leave the entries, the products and the publishers alone.
LEMMA LeaseTypes ==
    ASSUME TypeOK, worker' \in [Workers -> WorkerStates],
           \A v \in Workers : ~Busy(v)' => worker'[v].batch = {} /\ worker'[v].beat = "off",
           UNCHANGED <<log, column, before, owner, state, engine, applied, removed, reordered>>,
           expired' \in BOOLEAN, errorMsg' \in BOOLEAN,
           faults' \in 0..MaxTroubles, abandons' \in 0..MaxTroubles
    PROVE  TypeOK'
  <1>1. In("inflight")' = In("inflight")
    BY DEF In
  <1> QED
    BY <1>1 DEF TypeOK, log, engine

LEMMA UnusedStep ==
    ASSUME TypeOK, Room, Unused, [Next]_vars
    PROVE  Unused'
  <1> USE DEF Unused
  <1>0. published \in Nat
    BY KnowledgeCompileAssumption DEF TypeOK
  <1>1. CASE UNCHANGED <<published, column>>
    BY <1>1
  <1>2. ASSUME NEW e \in Events, Publish(e) PROVE Unused'
    <2>1. published' = published + 1 /\ column' = [column EXCEPT ![published + 1] = "backlog"]
      BY <1>2 DEF Publish
    <2> QED
      BY <1>0, <2>1 DEF TypeOK, Ids
  <1>3. ASSUME NEW w \in Workers, Claim(w) \/ (Reclaim(w) /\ worker'[w] # NoClaim) PROVE Unused'
    <2>1. PICK backlog \in SUBSET (In("backlog") \cup In("inflight")),
               order \in SUBSET (Ids \X Ids) : TakeBatch(w, backlog, order)
      BY <1>3, ClaimTakes
    <2>2. \A i \in Ids : column'[i] = column[i] \/ (i \in backlog /\ column'[i] # "none")
      BY <2>1, BatchIsQueued DEF TakeBatch
    <2>3. \A i \in backlog : column[i] # "none"
      BY DEF In
    <2>4. published' = published
      BY <2>1 DEF TakeBatch, log
    <2> QED
      BY <2>2, <2>3, <2>4
  <1>4. ASSUME NEW w \in Workers, Ack(w) PROVE Unused'
    <2>1. \A i \in Ids : column'[i] = column[i] \/ (i \in In("inflight") /\ column'[i] = "acked")
      BY <1>4 DEF Ack, row, RemoveEntries, TypeOK
    <2>2. published' = published
      BY <1>4 DEF Ack, log
    <2> QED
      BY <2>1, <2>2 DEF In
  <1>5. ASSUME NEW w \in Workers, Reclaim(w), worker'[w] = NoClaim
        PROVE  UNCHANGED <<published, column>>
    BY <1>5, ReclaimGivesUp DEF log, row
  <1>6. ASSUME NEW w \in Workers, FindExpired(w) \/ Abandon(w) \/ Touch(w) \/ TouchFails(w)
        PROVE  UNCHANGED <<published, column>>
    BY <1>6 DEF FindExpired, Abandon, Touch, TouchFails, log, row
  <1>7. ASSUME NEW w \in Workers, DeleteDocLevel(w) \/ StripMergedSources(w) \/ LoadAndSearch(w)
                 \/ WriteMerged(w) \/ DropWikiGraph(w) \/ InsertWikiGraph(w)
        PROVE  UNCHANGED <<published, column>>
    BY <1>7 DEF DeleteDocLevel, StripMergedSources, LoadAndSearch, WriteMerged, DropWikiGraph,
                InsertWikiGraph, Step, log, row
  <1>8. ASSUME \/ \E d \in Docs : IndexDocument(d) \/ DeleteDocument(d)
               \/ \E e \in Events : PublishFails(e)
               \/ LeaseExpires \/ LeaseOutlived
        PROVE  UNCHANGED <<published, column>>
    BY <1>8 DEF IndexDocument, DeleteDocument, Announce, PublishFails, LeaseExpires,
                LeaseOutlived, log, row
  <1>9. CASE UNCHANGED vars
    BY <1>1, <1>9 DEF vars, log, row
  <1> QED
    BY <1>1, <1>2, <1>3, <1>4, <1>5, <1>6, <1>7, <1>8, <1>9 DEF Next, Run, Poll, Process

LEMMA NextTypes ==
    ASSUME TypeOK, Room, Unused, [Next]_vars
    PROVE  TypeOK'
  <1>0. NoClaim \in WorkerStates
    BY DEF NoClaim, WorkerStates
  <1>00. /\ faults \in 0..MaxTroubles /\ abandons \in 0..MaxTroubles
         /\ expired \in BOOLEAN /\ errorMsg \in BOOLEAN
         /\ \A w \in Workers : worker[w] \in WorkerStates
    BY DEF TypeOK
  <1>1. CASE UNCHANGED vars
    <2>1. In("inflight")' = In("inflight")
      BY <1>1 DEF vars, row, In
    <2>2. \A v \in Workers : Busy(v)' = Busy(v)
      BY <1>1 DEF vars, Busy
    <2> QED
      BY <1>1, <2>1, <2>2 DEF vars, log, row, engine, history, TypeOK
  <1>2. ASSUME NEW d \in Docs, IndexDocument(d) \/ DeleteDocument(d) PROVE TypeOK'
    <2>1. PICK e \in Events : Announce(e)
      BY <1>2 DEF IndexDocument, DeleteDocument, Events
    <2>2. products' \subseteq Docs /\ removed' \subseteq Docs
      BY <1>2 DEF IndexDocument, DeleteDocument, TypeOK
    <2>3. In("inflight")' = In("inflight") /\ \A v \in Workers : Busy(v)' = Busy(v)
      BY <2>1 DEF Announce, row, In, Busy
    <2> QED
      BY <2>1, <2>2, <2>3 DEF Announce, row, TypeOK
  <1>3. ASSUME NEW e \in Events, Publish(e) PROVE TypeOK'
    <2>0. published \in Nat
      BY KnowledgeCompileAssumption DEF TypeOK
    <2>1. published + 1 \in Ids
      BY <1>3, <2>0, PublishedRoom DEF Publish, Room
    <2>2. /\ published' = published + 1 /\ published' \in 0..MaxEvents
          /\ event' \in [Ids -> Events]
          /\ column' \in [Ids -> {"none", "backlog", "inflight", "acked"}]
      BY <1>3, <2>1, KnowledgeCompileAssumption DEF Publish, TypeOK, Ids
    <2>3. before' \subseteq Ids \X Ids
      BY <1>3, <2>1, InColumn DEF Publish, TypeOK
    <2>4. state' \in {"idle", "pending", "running", "completed"} /\ pending' \subseteq Events
      BY <1>3 DEF Publish, TypeOK
    <2>5. \A v \in Workers : Busy(v)' = Busy(v)
      BY <1>3 DEF Publish, Busy
    <2>6. In("inflight")' = In("inflight")
      <3>1. column[published + 1] = "none"
        BY <2>0, <2>1 DEF Unused
      <3> QED
        BY <1>3, <2>1, <3>1 DEF Publish, In, TypeOK
    <2> QED
      BY <1>3, <2>2, <2>3, <2>4, <2>5, <2>6 DEF Publish, TypeOK, engine, history
  <1>4. ASSUME NEW e \in Events, PublishFails(e) PROVE TypeOK'
    <2>1. In("inflight")' = In("inflight") /\ \A v \in Workers : Busy(v)' = Busy(v)
      BY <1>4 DEF PublishFails, row, In, Busy
    <2> QED
      BY <1>4, <2>1 DEF PublishFails, row, engine, history, TypeOK
  <1>5. ASSUME NEW w \in Workers, FindExpired(w) PROVE TypeOK'
    <2> DEFINE new == [worker[w] EXCEPT !.pc = "reclaim"]
    <2>1. worker' = [worker EXCEPT ![w] = new] /\ new \in WorkerStates
      BY <1>00, <1>5 DEF FindExpired, WorkerStates
    <2>2. worker[w].batch = {} /\ worker[w].beat = "off"
      BY <1>5 DEF FindExpired, TypeOK, Busy
    <2>3. worker' \in [Workers -> WorkerStates]
      BY <2>1 DEF TypeOK
    <2>4. \A v \in Workers : ~Busy(v)' => worker'[v].batch = {} /\ worker'[v].beat = "off"
      BY <1>00, <2>1, <2>2 DEF TypeOK, Busy, WorkerStates
    <2> QED
      BY <1>00, <1>5, <2>3, <2>4, LeaseTypes DEF FindExpired, row, history
  <1>6. ASSUME NEW w \in Workers, Reclaim(w), worker'[w] = NoClaim PROVE TypeOK'
    <2>2. /\ worker' = [worker EXCEPT ![w] = NoClaim]
          /\ UNCHANGED <<log, row, engine, history>>
      BY <1>6, ReclaimGivesUp
    <2>3. worker' \in [Workers -> WorkerStates]
      BY <1>0, <2>2 DEF TypeOK
    <2>4. \A v \in Workers : ~Busy(v)' => worker'[v].batch = {} /\ worker'[v].beat = "off"
      BY <2>2 DEF TypeOK, Busy, NoClaim
    <2> QED
      BY <1>00, <2>2, <2>3, <2>4, LeaseTypes DEF row, history
  <1>7. ASSUME NEW w \in Workers, Poll(w) PROVE TypeOK'
    BY <1>5, <1>6, <1>7, TakenTypes DEF Poll
  <1>8. ASSUME NEW w \in Workers, Abandon(w) PROVE TypeOK'
    <2>1. worker' = [worker EXCEPT ![w] = NoClaim]
      BY <1>8 DEF Abandon
    <2>2. worker' \in [Workers -> WorkerStates]
      BY <1>0, <2>1 DEF TypeOK
    <2>3. \A v \in Workers : ~Busy(v)' => worker'[v].batch = {} /\ worker'[v].beat = "off"
      BY <2>1 DEF TypeOK, Busy, NoClaim
    <2>4. abandons' \in 0..MaxTroubles
      BY <1>00, <1>8, KnowledgeCompileAssumption DEF Abandon
    <2>5. errorMsg' \in BOOLEAN
      BY <1>00, <1>8, Zenon DEF Abandon
    <2> QED
      BY <1>00, <1>8, <2>2, <2>3, <2>4, <2>5, LeaseTypes DEF Abandon
  <1>9. ASSUME NEW w \in Workers, Touch(w) \/ TouchFails(w) PROVE TypeOK'
    <2> DEFINE new == [worker[w] EXCEPT !.beat = "failed"]
    <2>1. new \in WorkerStates /\ new.pc = worker[w].pc /\ Busy(w)
      BY <1>00, <1>9 DEF WorkerStates, Touch, TouchFails
    <2>2. worker' = worker \/ worker' = [worker EXCEPT ![w] = new]
      BY <1>9 DEF Touch, TouchFails
    <2>3. worker' \in [Workers -> WorkerStates]
      BY <2>1, <2>2 DEF TypeOK
    <2>4. \A v \in Workers : ~Busy(v)' => worker'[v].batch = {} /\ worker'[v].beat = "off"
      <3> HIDE DEF new
      <3> QED
        BY <2>1, <2>2 DEF TypeOK, Busy
    <2>5. faults' \in 0..MaxTroubles
      BY <1>00, <1>9, KnowledgeCompileAssumption DEF Touch, TouchFails, history
    <2>6. expired' \in BOOLEAN
      <3>1. expired' = expired \/ expired' = FALSE
        BY <1>9 DEF Touch, TouchFails, row
      <3> QED
        BY <1>00, <3>1, Zenon
    <2> QED
      BY <1>00, <1>9, <2>3, <2>4, <2>5, <2>6, LeaseTypes DEF Touch, TouchFails, row, history
  <1>10. ASSUME LeaseExpires \/ LeaseOutlived PROVE TypeOK'
    <2>1. faults' \in 0..MaxTroubles /\ expired' = TRUE /\ worker' = worker
      BY <1>00, <1>10, KnowledgeCompileAssumption DEF LeaseExpires, LeaseOutlived, history
    <2>2. \A v \in Workers : ~Busy(v)' => worker'[v].batch = {} /\ worker'[v].beat = "off"
      BY <2>1 DEF TypeOK, Busy
    <2> QED
      BY <1>00, <1>10, <2>1, <2>2, LeaseTypes DEF LeaseExpires, LeaseOutlived, history, TypeOK
  <1> QED
    BY <1>1, <1>2, <1>3, <1>4, <1>7, <1>8, <1>9, <1>10, ProcessTypes, AckTypes
    DEF Next, Run, Process

LEMMA RoomInit == Init => Room /\ Unused
  BY FS_EmptySet, KnowledgeCompileAssumption DEF Init, Room, Unused, Ids

\* The row of scheduler.go keeps its types: a lease is recorded exactly while
\* entries are inflight, and a worker without a claim holds no batch.
THEOREM RowTypes == Spec => [](TypeOK /\ Room /\ Unused)
  <1>1. Init => TypeOK /\ Room /\ Unused
    BY InitTypes, RoomInit
  <1>2. TypeOK /\ Room /\ Unused /\ [Next]_vars => (TypeOK /\ Room /\ Unused)'
    BY NextTypes, RoomStep, UnusedStep
  <1> QED
    BY <1>1, <1>2, PTL DEF Spec

-------------------------------------------------------------------------------
(* No entry is lost: what an ack removes was merged, or equals an entry that   *)
(* was.  Inductive with the fact that a worker about to acknowledge has merged *)
(* its batch.                                                                  *)

Types == TypeOK /\ Room /\ Unused

MergedFirst ==
    /\ applied \subseteq 1..published
    /\ \A w \in Workers : /\ worker[w].batch \subseteq 1..published
                          /\ worker[w].pc = "ack" => worker[w].batch \subseteq applied

\* A worker that a step leaves alone, resets, or moves on without its ack.
LEMMA MergedKept ==
    ASSUME TypeOK, MergedFirst, NEW w \in Workers,
           UNCHANGED <<published, applied>>,
           \A v \in Workers \ {w} : worker'[v] = worker[v],
           worker'[w].batch \in {{}, worker[w].batch},
           worker'[w].pc = "ack" => worker[w].pc = "ack"
    PROVE  MergedFirst'
  BY DEF MergedFirst

LEMMA MergedFirstStep ==
    ASSUME Types, MergedFirst, [Next]_vars
    PROVE  MergedFirst'
  <1>0. TypeOK /\ published \in Nat /\ \A w \in Workers : worker[w] \in WorkerStates
    BY KnowledgeCompileAssumption DEF Types, TypeOK
  <1>1. CASE UNCHANGED <<published, applied, worker>>
    BY <1>1 DEF MergedFirst
  <1>2. ASSUME NEW e \in Events, Publish(e) PROVE MergedFirst'
    <2>1. published' = published + 1 /\ UNCHANGED <<applied, worker>>
      BY <1>2 DEF Publish, history
    <2> QED
      BY <1>0, <2>1 DEF MergedFirst
  <1>3. ASSUME NEW w \in Workers, Claim(w) \/ (Reclaim(w) /\ worker'[w] # NoClaim) PROVE MergedFirst'
    <2>1. PICK backlog \in SUBSET (In("backlog") \cup In("inflight")),
               order \in SUBSET (Ids \X Ids) : TakeBatch(w, backlog, order)
      BY <1>0, <1>3, ClaimTakes
    <2>2. backlog \in SUBSET Ids
      BY InColumn
    <2>3. /\ \A v \in Workers \ {w} : worker'[v] = worker[v]
          /\ worker'[w].pc \in {"drop", "load"} /\ worker'[w].batch \subseteq backlog
      <3>1. /\ \A v \in Workers \ {w} : worker'[v] = worker[v]
            /\ worker'[w].pc \in {"drop", "load"} /\ worker'[w].batch = FirstOf(backlog, order)
        BY <1>0, <2>1, <2>2, TakeBatchTypes
      <3> QED
        BY <3>1, BatchIsQueued
    <2>4. backlog \subseteq 1..published
      <3> SUFFICES ASSUME NEW i \in backlog PROVE i \in 1..published
        OBVIOUS
      <3>1. i \in Ids /\ column[i] # "none"
        BY DEF In
      <3> QED
        BY <1>0, <3>1, KnowledgeCompileAssumption DEF Types, Unused, Ids
    <2>5. UNCHANGED <<published, applied>>
      BY <2>1 DEF TakeBatch, log
    <2> QED
      BY <2>3, <2>4, <2>5 DEF MergedFirst
  <1>4. ASSUME NEW w \in Workers, Reclaim(w), worker'[w] = NoClaim PROVE MergedFirst'
    <2>1. worker' = [worker EXCEPT ![w] = NoClaim] /\ UNCHANGED <<published, applied>>
      BY <1>0, <1>4, ReclaimGivesUp DEF log, history
    <2> QED
      BY <1>0, <2>1, MergedKept DEF TypeOK, NoClaim
  <1>5. ASSUME NEW w \in Workers, Ack(w) \/ Abandon(w) PROVE MergedFirst'
    <2>1. worker' = [worker EXCEPT ![w] = NoClaim] /\ UNCHANGED <<published, applied>>
      BY <1>5 DEF Ack, Abandon, log, history
    <2> QED
      BY <1>0, <2>1, MergedKept DEF TypeOK, NoClaim
  <1>6. ASSUME NEW w \in Workers, InsertWikiGraph(w) PROVE MergedFirst'
    <2>1. /\ applied' = applied \cup worker[w].batch /\ UNCHANGED published
          /\ worker' = [worker EXCEPT ![w] = IF worker[w].beat = "failed" THEN NoClaim
                                             ELSE [worker[w] EXCEPT !.pc = "ack"]]
      BY <1>6 DEF InsertWikiGraph, log
    <2>2. worker'[w].batch \in {{}, worker[w].batch}
      BY <1>0, <2>1 DEF TypeOK, WorkerStates, NoClaim
    <2>3. \A v \in Workers \ {w} : worker'[v] = worker[v]
      BY <2>1 DEF TypeOK
    <2> QED
      BY <2>1, <2>2, <2>3 DEF MergedFirst
  <1>7. ASSUME NEW w \in Workers,
               \/ FindExpired(w) \/ Touch(w) \/ TouchFails(w) \/ DeleteDocLevel(w)
               \/ StripMergedSources(w) \/ LoadAndSearch(w) \/ WriteMerged(w) \/ DropWikiGraph(w)
        PROVE  MergedFirst'
    <2>1. UNCHANGED <<published, applied>>
      BY <1>7 DEF FindExpired, Touch, TouchFails, DeleteDocLevel, StripMergedSources,
                  LoadAndSearch, WriteMerged, DropWikiGraph, Step, log, history
    <2>2. \A v \in Workers \ {w} : worker'[v] = worker[v]
      BY <1>0, <1>7 DEF TypeOK, FindExpired, Touch, TouchFails, DeleteDocLevel, StripMergedSources,
                        LoadAndSearch, WriteMerged, DropWikiGraph, Step
    <2>3. worker'[w].batch = worker[w].batch /\ (worker'[w].pc = "ack" => worker[w].pc = "ack")
      BY <1>0, <1>7 DEF TypeOK, WorkerStates, FindExpired, Touch, TouchFails, DeleteDocLevel,
                        StripMergedSources, LoadAndSearch, WriteMerged, DropWikiGraph, Step
    <2> QED
      BY <1>0, <2>1, <2>2, <2>3, MergedKept
  <1>8. ASSUME \/ \E d \in Docs : IndexDocument(d) \/ DeleteDocument(d)
               \/ \E e \in Events : PublishFails(e)
               \/ LeaseExpires \/ LeaseOutlived
        PROVE  UNCHANGED <<published, applied, worker>>
    BY <1>8 DEF IndexDocument, DeleteDocument, Announce, PublishFails, LeaseExpires,
                LeaseOutlived, log, history
  <1>9. CASE UNCHANGED vars
    BY <1>1, <1>9 DEF vars, log, history
  <1> QED
    BY <1>1, <1>2, <1>3, <1>4, <1>5, <1>6, <1>7, <1>8, <1>9 DEF Next, Run, Poll, Process

LEMMA NothingDroppedStep ==
    ASSUME Types, MergedFirst, NothingDropped, [Next]_vars
    PROVE  NothingDropped'
  <1>0. TypeOK /\ published \in Nat /\ published <= MaxEvents /\ MaxEvents \in Nat
    BY KnowledgeCompileAssumption DEF Types, TypeOK
  <1>1. CASE UNCHANGED <<published, column, event>> /\ applied \subseteq applied'
    BY <1>1 DEF NothingDropped
  <1>2. ASSUME NEW e \in Events, Publish(e) PROVE NothingDropped'
    <2> DEFINE new == published + 1
    <2>1. /\ published' = new /\ event' = [event EXCEPT ![new] = e]
          /\ column' = [column EXCEPT ![new] = "backlog"] /\ applied' = applied
      BY <1>2 DEF Publish, history
    <2>2. new \in Ids
      BY <1>0, <1>2, PublishedRoom DEF Publish, Room, Types
    <2>3. \A i \in 1..published : i \in Ids /\ i # new
      BY <1>0 DEF Ids
    <2>4. /\ column'[new] = "backlog"
          /\ \A i \in 1..published : column'[i] = column[i] /\ event'[i] = event[i]
      BY <1>0, <2>1, <2>2, <2>3 DEF TypeOK
    <2>5. applied \subseteq 1..published
      BY DEF MergedFirst
    <2>6. \A i \in 1..published' : i = new \/ i \in 1..published
      BY <1>0, <2>1
    <2> HIDE DEF new
    <2> QED
      BY <2>1, <2>4, <2>5, <2>6 DEF NothingDropped
  <1>3. ASSUME NEW w \in Workers, Claim(w) \/ (Reclaim(w) /\ worker'[w] # NoClaim)
        PROVE  NothingDropped'
    <2>1. PICK backlog \in SUBSET (In("backlog") \cup In("inflight")),
               order \in SUBSET (Ids \X Ids) : TakeBatch(w, backlog, order)
      BY <1>0, <1>3, ClaimTakes
    <2>2. \A i \in Ids : column'[i] \in {"inflight", "backlog", column[i]}
      BY <2>1 DEF TakeBatch
    <2>3. UNCHANGED <<published, event, applied>>
      BY <2>1 DEF TakeBatch, log
    <2>4. \A i \in 1..published : i \in Ids
      BY <1>0 DEF Ids
    <2> QED
      BY <2>2, <2>3, <2>4 DEF NothingDropped
  <1>4. ASSUME NEW w \in Workers, Ack(w) PROVE NothingDropped'
    <2>1. UNCHANGED <<published, event, applied>> /\ worker[w].pc = "ack"
      BY <1>4 DEF Ack, log, history
    <2>2. \A i \in Ids : \/ column'[i] = column[i]
                         \/ /\ column'[i] = "acked"
                            /\ \E j \in worker[w].batch : event[i] = event[j]
      BY <1>0, <1>4 DEF Ack, row, RemoveEntries, TypeOK
    <2>3. worker[w].batch \subseteq applied
      BY <2>1 DEF MergedFirst
    <2>4. \A i \in 1..published : i \in Ids
      BY <1>0 DEF Ids
    <2> QED
      BY <2>1, <2>2, <2>3, <2>4 DEF NothingDropped
  <1>5. ASSUME NEW w \in Workers, Reclaim(w), worker'[w] = NoClaim
        PROVE  UNCHANGED <<published, column, event, applied>>
    BY <1>0, <1>5, ReclaimGivesUp DEF log, row, history
  <1>6. ASSUME NEW w \in Workers, FindExpired(w) \/ Abandon(w) \/ Touch(w) \/ TouchFails(w)
        PROVE  UNCHANGED <<published, column, event, applied>>
    BY <1>6 DEF FindExpired, Abandon, Touch, TouchFails, log, row, history
  <1>7. ASSUME NEW w \in Workers, \/ DeleteDocLevel(w) \/ StripMergedSources(w) \/ LoadAndSearch(w)
                                  \/ WriteMerged(w) \/ DropWikiGraph(w) \/ InsertWikiGraph(w)
        PROVE  UNCHANGED <<published, column, event>> /\ applied \subseteq applied'
    BY <1>7 DEF DeleteDocLevel, StripMergedSources, LoadAndSearch, WriteMerged, DropWikiGraph,
                InsertWikiGraph, Step, log, row, history
  <1>8. ASSUME \/ \E d \in Docs : IndexDocument(d) \/ DeleteDocument(d)
               \/ \E e \in Events : PublishFails(e)
               \/ LeaseExpires \/ LeaseOutlived
        PROVE  UNCHANGED <<published, column, event, applied>>
    BY <1>8 DEF IndexDocument, DeleteDocument, Announce, PublishFails, LeaseExpires,
                LeaseOutlived, log, row, history
  <1>9. CASE UNCHANGED vars
    BY <1>1, <1>9 DEF vars, log, row, history
  <1> QED
    BY <1>1, <1>2, <1>3, <1>4, <1>5, <1>6, <1>7, <1>8, <1>9 DEF Next, Run, Poll, Process

\* "Never ack what we failed to merge" (consumer.go, Ack at scheduler.go:306):
\* whatever fails or outlives its lease, a published entry is queued, or it was
\* acknowledged and an equal entry was merged.
THEOREM NoEntryLost == Spec => []NothingDropped
  <1>1. Init => MergedFirst /\ NothingDropped
    BY DEF Init, MergedFirst, NothingDropped, NoClaim
  <1>2. Types /\ MergedFirst /\ NothingDropped /\ [Next]_vars => MergedFirst' /\ NothingDropped'
    BY MergedFirstStep, NothingDroppedStep
  <1>3. Spec => []Types
    BY RowTypes, PTL DEF Types
  <1> QED
    BY <1>1, <1>2, <1>3, PTL DEF Spec

-------------------------------------------------------------------------------
(* Leases.                                                                     *)

LEMMA ClaimRefusesLive ==
    ASSUME NEW v \in Workers, Claim(v) \/ Reclaim(v), LiveLease
    PROVE  owner' = owner
  BY DEF Claim, Reclaim, row

\* A live lease ends by its holder's ack alone: TryClaim and reclaimOne refuse a
\* row whose lease has not expired, and Ack and SetError one of another token.
THEOREM LeaseSafe == Spec => LiveLeaseRespected
  <1> DEFINE Respected ==
        \A w \in Workers : owner = w /\ ~expired /\ owner' # w
                             => worker[w].pc = "ack" /\ worker'[w].pc = "idle"
  <1>1. TypeOK /\ Next => Respected
    <2> SUFFICES ASSUME TypeOK, Next, NEW w \in Workers, owner = w, ~expired, owner' # w
                 PROVE  worker[w].pc = "ack" /\ worker'[w].pc = "idle"
      OBVIOUS
    <2>1. LiveLease
      BY KnowledgeCompileAssumption DEF LiveLease
    <2>2. ASSUME NEW v \in Workers, Ack(v) PROVE worker[w].pc = "ack" /\ worker'[w].pc = "idle"
      <3>1. v = w
        BY <2>2 DEF Ack, row, TokenMatches
      <3> QED
        BY <2>2, <3>1 DEF Ack, TypeOK, NoClaim
    <2>3. ASSUME NEW v \in Workers, \/ FindExpired(v) \/ Abandon(v) \/ Touch(v) \/ TouchFails(v)
                                    \/ DeleteDocLevel(v) \/ StripMergedSources(v)
                                    \/ LoadAndSearch(v) \/ WriteMerged(v) \/ DropWikiGraph(v)
                                    \/ InsertWikiGraph(v)
          PROVE  owner' = owner
      BY <2>3 DEF FindExpired, Abandon, Touch, TouchFails, DeleteDocLevel, StripMergedSources,
                  LoadAndSearch, WriteMerged, DropWikiGraph, InsertWikiGraph, Step, row
    <2>4. ASSUME \/ \E d \in Docs : IndexDocument(d) \/ DeleteDocument(d)
                 \/ \E e \in Events : Publish(e) \/ PublishFails(e)
                 \/ LeaseExpires \/ LeaseOutlived
          PROVE  owner' = owner
      BY <2>4 DEF IndexDocument, DeleteDocument, Announce, Publish, PublishFails, LeaseExpires,
                  LeaseOutlived, row
    <2> QED
      BY <2>1, <2>2, <2>3, <2>4, ClaimRefusesLive DEF Next, Run, Poll, Process
  <1>2. TypeOK /\ [Next]_vars => [Respected]_vars
    BY <1>1
  <1>3. Spec => []TypeOK
    BY RowTypes, PTL
  <1> QED
    BY <1>2, <1>3, PTL DEF Spec, LiveLeaseRespected

\* While no heartbeat failed and no lease was outlived, whoever is inside a
\* batch holds the live lease and renews it.
HoldersBeat ==
    faults = 0 => \A w \in Workers : Busy(w) => owner = w /\ ~expired /\ worker[w].beat = "on"

LEMMA HoldersBeatStep ==
    ASSUME Types, HoldersBeat, [Next]_vars
    PROVE  HoldersBeat'
  <1> SUFFICES ASSUME faults' = 0, NEW v \in Workers, Busy(v)'
               PROVE  owner' = v /\ ~expired' /\ worker'[v].beat = "on"
    BY DEF HoldersBeat
  <1>0. /\ TypeOK /\ faults \in Nat /\ Nobody \notin Workers
        /\ \A w \in Workers : worker[w] \in WorkerStates
    BY KnowledgeCompileAssumption DEF Types, TypeOK
  <1>1. CASE UNCHANGED <<owner, expired, worker, faults>>
    BY <1>1 DEF HoldersBeat, Busy
  <1>2. ASSUME NEW w \in Workers, Claim(w) \/ (Reclaim(w) /\ worker'[w] # NoClaim)
        PROVE  owner' = v /\ ~expired' /\ worker'[v].beat = "on"
    <2>1. PICK backlog \in SUBSET (In("backlog") \cup In("inflight")),
               order \in SUBSET (Ids \X Ids) : TakeBatch(w, backlog, order) /\ ~LiveLease
      BY <1>0, <1>2, ClaimTakes
    <2>2. backlog \in SUBSET Ids
      BY InColumn
    <2>3. /\ owner' = w /\ ~expired' /\ worker'[w].beat = "on"
          /\ \A u \in Workers \ {w} : worker'[u] = worker[u]
      BY <1>0, <2>1, <2>2, TakeBatchTypes
    <2>4. faults' = faults
      BY <2>1 DEF TakeBatch
    <2>5. ~Busy(v)
      BY <1>0, <2>1, <2>4 DEF HoldersBeat, LiveLease
    <2>6. v = w
      BY <2>3, <2>5 DEF Busy
    <2> QED
      BY <2>3, <2>6
  <1>3. ASSUME NEW w \in Workers, worker' = [worker EXCEPT ![w] = NoClaim], faults' = faults,
               v # w => UNCHANGED <<owner, expired>>
        PROVE  owner' = v /\ ~expired' /\ worker'[v].beat = "on"
    <2>1. v # w
      BY <1>0, <1>3 DEF TypeOK, Busy, NoClaim
    <2>2. worker'[v] = worker[v]
      BY <1>0, <1>3, <2>1 DEF TypeOK
    <2> QED
      BY <1>3, <2>1, <2>2 DEF HoldersBeat, Busy
  <1>4. ASSUME NEW w \in Workers, Reclaim(w), worker'[w] = NoClaim
        PROVE  owner' = v /\ ~expired' /\ worker'[v].beat = "on"
    <2>1. worker' = [worker EXCEPT ![w] = NoClaim] /\ UNCHANGED <<owner, expired, faults>>
      BY <1>0, <1>4, ReclaimGivesUp DEF row, history
    <2> QED
      BY <1>3, <2>1
  <1>5. ASSUME NEW w \in Workers, Abandon(w)
        PROVE  owner' = v /\ ~expired' /\ worker'[v].beat = "on"
    <2>1. worker' = [worker EXCEPT ![w] = NoClaim] /\ UNCHANGED <<owner, expired, faults>>
      BY <1>5 DEF Abandon
    <2> QED
      BY <1>3, <2>1
  <1>6. ASSUME NEW w \in Workers, Ack(w)
        PROVE  owner' = v /\ ~expired' /\ worker'[v].beat = "on"
    <2>1. worker' = [worker EXCEPT ![w] = NoClaim] /\ faults' = faults /\ Busy(w)
      BY <1>6 DEF Ack, history, Busy
    <2>2. owner = w
      BY <2>1 DEF HoldersBeat
    <2>3. v = w
      <3>1. ASSUME v # w PROVE FALSE
        <4>1. worker'[v] = worker[v]
          BY <1>0, <2>1, <3>1 DEF TypeOK
        <4> QED
          BY <2>1, <2>2, <3>1, <4>1 DEF HoldersBeat, Busy
      <3> QED
        BY <3>1
    <2> QED
      BY <1>3, <2>1, <2>3
  <1>7. ASSUME NEW w \in Workers, InsertWikiGraph(w)
        PROVE  owner' = v /\ ~expired' /\ worker'[v].beat = "on"
    <2>1. UNCHANGED <<owner, expired, faults>> /\ Busy(w)
      BY <1>7 DEF InsertWikiGraph, row, Busy
    <2>2. worker[w].beat = "on"
      BY <2>1 DEF HoldersBeat
    <2>3. worker' = [worker EXCEPT ![w] = [worker[w] EXCEPT !.pc = "ack"]]
      BY <1>7, <2>2 DEF InsertWikiGraph
    <2>4. worker'[v].beat = worker[v].beat /\ (v # w => worker'[v] = worker[v])
      BY <1>0, <2>3 DEF TypeOK, WorkerStates
    <2> QED
      BY <2>1, <2>2, <2>4 DEF HoldersBeat, Busy
  <1>8. ASSUME NEW w \in Workers, \/ DeleteDocLevel(w) \/ StripMergedSources(w) \/ LoadAndSearch(w)
                                  \/ WriteMerged(w) \/ DropWikiGraph(w)
        PROVE  owner' = v /\ ~expired' /\ worker'[v].beat = "on"
    <2>1. UNCHANGED <<owner, expired, faults>> /\ Busy(w)
      BY <1>8 DEF DeleteDocLevel, StripMergedSources, LoadAndSearch, WriteMerged, DropWikiGraph,
                  Step, row, history, Busy
    <2>2. worker'[v].beat = worker[v].beat /\ (v # w => worker'[v] = worker[v])
      BY <1>0, <1>8 DEF TypeOK, WorkerStates, DeleteDocLevel, StripMergedSources, LoadAndSearch,
                        WriteMerged, DropWikiGraph, Step
    <2> QED
      BY <2>1, <2>2 DEF HoldersBeat, Busy
  <1>9. ASSUME NEW w \in Workers, FindExpired(w)
        PROVE  owner' = v /\ ~expired' /\ worker'[v].beat = "on"
    <2>1. UNCHANGED <<owner, expired, faults>> /\ worker' = [worker EXCEPT ![w].pc = "reclaim"]
      BY <1>9 DEF FindExpired, row, history
    <2>2. worker'[w].pc = "reclaim" /\ \A u \in Workers \ {w} : worker'[u] = worker[u]
      BY <1>0, <2>1 DEF TypeOK, WorkerStates
    <2> QED
      BY <2>1, <2>2 DEF HoldersBeat, Busy
  <1>10. ASSUME NEW w \in Workers, Touch(w)
        PROVE  owner' = v /\ ~expired' /\ worker'[v].beat = "on"
    <2>1. Busy(w) /\ faults' = faults
      BY <1>10 DEF Touch, history
    <2>2. owner = w /\ ~expired
      BY <2>1 DEF HoldersBeat
    <2> QED
      BY <1>10, <2>2 DEF Touch
  <1>11. ASSUME LeaseExpires PROVE owner' = v /\ ~expired' /\ worker'[v].beat = "on"
    <2>1. LiveLease /\ ~Beating /\ UNCHANGED <<owner, worker, faults>>
      BY <1>11 DEF LeaseExpires, history
    <2>2. Busy(v)
      BY <2>1 DEF Busy
    <2> QED
      BY <2>1, <2>2 DEF HoldersBeat, Beating
  <1>12. ASSUME (\E w \in Workers : TouchFails(w)) \/ LeaseOutlived PROVE FALSE
    BY <1>0, <1>12 DEF TouchFails, LeaseOutlived
  <1>13. ASSUME \/ \E d \in Docs : IndexDocument(d) \/ DeleteDocument(d)
                \/ \E e \in Events : Publish(e) \/ PublishFails(e)
         PROVE  UNCHANGED <<owner, expired, worker, faults>>
    BY <1>13 DEF IndexDocument, DeleteDocument, Announce, Publish, PublishFails, row, history
  <1>14. CASE UNCHANGED vars
    BY <1>1, <1>14 DEF vars, row, history
  <1> QED
    BY <1>1, <1>2, <1>4, <1>5, <1>6, <1>7, <1>8, <1>9, <1>10, <1>11, <1>12, <1>13, <1>14
    DEF Next, Run, Poll, Process

\* "At most one instance at a time" (consumer.go:32): one worker at most is
\* inside a batch of the dataset, as long as heartbeats succeed in time.
THEOREM OneWorkerPerDataset == Spec => []Serialized
  <1>1. Init => HoldersBeat
    BY DEF Init, HoldersBeat, Busy, NoClaim
  <1>2. HoldersBeat => Serialized
    BY DEF HoldersBeat, Serialized
  <1>3. Types /\ HoldersBeat /\ [Next]_vars => HoldersBeat'
    BY HoldersBeatStep
  <1>4. Spec => []Types
    BY RowTypes, PTL DEF Types
  <1> QED
    BY <1>1, <1>2, <1>3, <1>4, PTL DEF Spec

-------------------------------------------------------------------------------
(* The status.  An error is reported by a worker that gives its batch up, so   *)
(* the holder of a row with an error is not at work and will not acknowledge.  *)

ErrorIsOwned == errorMsg => owner \in Workers /\ ~Busy(owner)

StatusInv ==
    /\ state = "idle"      => published = 0
    /\ state = "pending"   => In("backlog") # {}
    /\ state = "running"   => In("inflight") # {}
    /\ state = "completed" => In("backlog") = {}
    /\ ErrorIsOwned

LEMMA StatusStep ==
    ASSUME Types, StatusInv, [Next]_vars
    PROVE  StatusInv'
  <1>0. /\ TypeOK /\ published \in Nat /\ Nobody \notin Workers
        /\ \A w \in Workers : worker[w] \in WorkerStates
    BY KnowledgeCompileAssumption DEF Types, TypeOK
  <1>1. ASSUME UNCHANGED <<published, column, owner, state, errorMsg>>,
               \A v \in Workers : Busy(v)' => Busy(v)
        PROVE  StatusInv'
    <2>1. In("backlog")' = In("backlog") /\ In("inflight")' = In("inflight")
      BY <1>1 DEF In
    <2>2. ErrorIsOwned'
      BY <1>1 DEF StatusInv, ErrorIsOwned
    <2> QED
      BY <1>1, <2>1, <2>2 DEF StatusInv
  <1>2. ASSUME NEW e \in Events, Publish(e) PROVE StatusInv'
    <2> DEFINE new == published + 1
    <2>1. /\ column' = [column EXCEPT ![new] = "backlog"] /\ published' = new
          /\ state' = (IF state = "running" THEN state ELSE "pending")
          /\ UNCHANGED <<owner, errorMsg, worker>>
      BY <1>2 DEF Publish
    <2>2. new \in Ids /\ column[new] = "none"
      BY <1>0, <1>2, PublishedRoom DEF Publish, Types, Room, Unused
    <2> HIDE DEF new
    <2>3. new \in In("backlog")' /\ In("inflight")' = In("inflight")
      BY <1>0, <2>1, <2>2 DEF In, TypeOK
    <2>4. ErrorIsOwned'
      BY <2>1 DEF StatusInv, ErrorIsOwned, Busy
    <2>5. state' \in {"pending", "running"} /\ (state' = "running" => state = "running")
      BY <2>1
    <2> QED
      BY <2>3, <2>4, <2>5 DEF StatusInv
  <1>3. ASSUME NEW w \in Workers, Claim(w) \/ (Reclaim(w) /\ worker'[w] # NoClaim)
        PROVE  StatusInv'
    <2>1. PICK backlog \in SUBSET (In("backlog") \cup In("inflight")),
               order \in SUBSET (Ids \X Ids) : TakeBatch(w, backlog, order)
      BY <1>0, <1>3, ClaimTakes
    <2>2. backlog \in SUBSET Ids
      BY InColumn
    <2>3. state' = "running" /\ ~errorMsg' /\ In("inflight")' # {}
      BY <1>0, <2>1, <2>2, TakeBatchTypes
    <2> QED
      BY <2>3 DEF StatusInv, ErrorIsOwned
  <1>4. ASSUME NEW w \in Workers, Reclaim(w), worker'[w] = NoClaim PROVE StatusInv'
    <2>1. /\ worker' = [worker EXCEPT ![w] = NoClaim]
          /\ UNCHANGED <<published, column, owner, state, errorMsg>>
      BY <1>0, <1>4, ReclaimGivesUp DEF log, row
    <2>2. \A v \in Workers : Busy(v)' => Busy(v)
      BY <1>0, <2>1 DEF TypeOK, Busy, NoClaim
    <2> QED
      BY <1>1, <2>1, <2>2
  <1>5. ASSUME NEW w \in Workers, Ack(w) PROVE StatusInv'
    <2>1. worker' = [worker EXCEPT ![w] = NoClaim] /\ published' = published /\ Busy(w)
      BY <1>5 DEF Ack, log, Busy
    <2>2. \A v \in Workers : Busy(v)' => Busy(v)
      BY <1>0, <2>1 DEF TypeOK, Busy, NoClaim
    <2>3. CASE ~TokenMatches(w)
      BY <1>1, <1>5, <2>1, <2>2, <2>3 DEF Ack, row
    <2>4. CASE TokenMatches(w)
      <3> DEFINE gone == RemoveEntries(worker[w].batch)
      <3>1. /\ column' = [i \in Ids |-> IF i \in gone THEN "acked" ELSE column[i]]
            /\ state' = StateAfterAck /\ errorMsg' = errorMsg
        BY <1>5, <2>4 DEF Ack
      <3>2. gone \subseteq In("inflight")
        BY DEF RemoveEntries
      <3> HIDE DEF gone
      <3>3. In("backlog")' = In("backlog")
        BY <1>0, <3>1, <3>2 DEF In, TypeOK
      <3>4. ~errorMsg
        BY <2>1, <2>4 DEF StatusInv, ErrorIsOwned, TokenMatches
      <3> QED
        BY <3>1, <3>3, <3>4 DEF StatusInv, ErrorIsOwned, StateAfterAck
    <2> QED
      BY <2>3, <2>4
  <1>6. ASSUME NEW w \in Workers, Abandon(w) PROVE StatusInv'
    <2>1. /\ worker' = [worker EXCEPT ![w] = NoClaim]
          /\ UNCHANGED <<published, column, owner, state>>
          /\ errorMsg' = errorMsg \/ owner = w
      BY <1>6 DEF Abandon, log
    <2>2. ~Busy(w)' /\ \A v \in Workers : Busy(v)' => Busy(v)
      BY <1>0, <2>1 DEF TypeOK, Busy, NoClaim
    <2>3. CASE errorMsg' = errorMsg
      BY <1>1, <2>1, <2>2, <2>3
    <2>4. CASE owner = w
      <3>1. In("backlog")' = In("backlog") /\ In("inflight")' = In("inflight")
        BY <2>1 DEF In
      <3>2. ErrorIsOwned'
        BY <2>1, <2>2, <2>4 DEF ErrorIsOwned
      <3> QED
        BY <2>1, <3>1, <3>2 DEF StatusInv
    <2> QED
      BY <2>1, <2>3, <2>4
  <1>7. ASSUME NEW w \in Workers,
               \/ FindExpired(w) \/ Touch(w) \/ TouchFails(w) \/ DeleteDocLevel(w)
               \/ StripMergedSources(w) \/ LoadAndSearch(w) \/ WriteMerged(w)
               \/ DropWikiGraph(w) \/ InsertWikiGraph(w)
        PROVE  StatusInv'
    <2>1. UNCHANGED <<published, column, owner, state, errorMsg>>
      BY <1>7 DEF FindExpired, Touch, TouchFails, DeleteDocLevel, StripMergedSources,
                  LoadAndSearch, WriteMerged, DropWikiGraph, InsertWikiGraph, Step, log, row
    <2>2. \A v \in Workers \ {w} : worker'[v] = worker[v]
      BY <1>0, <1>7 DEF TypeOK, FindExpired, Touch, TouchFails, DeleteDocLevel,
                  StripMergedSources, LoadAndSearch, WriteMerged, DropWikiGraph, InsertWikiGraph, Step
    <2>3. Busy(w)' => Busy(w)
      BY <1>0, <1>7 DEF TypeOK, WorkerStates, Busy, FindExpired, Touch, TouchFails, DeleteDocLevel,
                  StripMergedSources, LoadAndSearch, WriteMerged, DropWikiGraph, InsertWikiGraph, Step
    <2>4. \A v \in Workers : Busy(v)' => Busy(v)
      BY <2>2, <2>3 DEF Busy
    <2> QED
      BY <1>1, <2>1, <2>4
  <1>8. ASSUME \/ \E d \in Docs : IndexDocument(d) \/ DeleteDocument(d)
               \/ \E e \in Events : PublishFails(e)
               \/ LeaseExpires \/ LeaseOutlived
               \/ UNCHANGED vars
        PROVE  StatusInv'
    <2>1. UNCHANGED <<published, column, owner, state, errorMsg, worker>>
      BY <1>8 DEF IndexDocument, DeleteDocument, Announce, PublishFails, LeaseExpires,
                  LeaseOutlived, log, row, vars
    <2> QED
      BY <1>1, <2>1 DEF Busy
  <1> QED
    BY <1>2, <1>3, <1>4, <1>5, <1>6, <1>7, <1>8 DEF Next, Run, Poll, Process

\* What compilation_status.go shows a user of the row is true of its columns,
\* whatever fails: in particular a row is completed only without a backlog.
THEOREM StatusIsTrue == Spec => []StatusTruthful
  <1>1. Init => StatusInv
    BY DEF Init, StatusInv, ErrorIsOwned
  <1>2. TypeOK /\ StatusInv => StatusTruthful
    <2> SUFFICES ASSUME TypeOK, StatusInv PROVE StatusTruthful
      OBVIOUS
    <2>1. errorMsg => In("inflight") # {}
      BY KnowledgeCompileAssumption DEF StatusInv, ErrorIsOwned, TypeOK
    <2> QED
      BY <2>1 DEF StatusInv, StatusTruthful, Queued
  <1>3. Types /\ StatusInv /\ [Next]_vars => StatusInv'
    BY StatusStep
  <1>4. Spec => []Types
    BY RowTypes, PTL DEF Types
  <1>5. Types => TypeOK
    BY DEF Types
  <1> QED
    BY <1>1, <1>2, <1>3, <1>4, <1>5, PTL DEF Spec
-------------------------------------------------------------------------------
(* The content of the engine.  What a claim reads of its batch stays true, one *)
(* worker at a time writes, and each entry's effect is either in the products  *)
(* or still owed by an entry that is queued.                                   *)

\* Of the entries of a finite set that a strict order relates, one is last.
LEMMA LastOfFinite ==
    ASSUME NEW S, IsFiniteSet(S), S # {}, NEW R,
           \A i \in S : <<i, i>> \notin R,
           \A i, j, k \in S : <<i, j>> \in R /\ <<j, k>> \in R => <<i, k>> \in R
    PROVE  \E i \in S : \A j \in S : <<i, j>> \notin R
  <1> DEFINE After(i) == {j \in S : <<i, j>> \in R}
             Afters   == {After(i) : i \in S}
  <1>1. Afters \subseteq SUBSET S /\ Afters # {}
    <2>1. PICK i \in S : TRUE
      OBVIOUS
    <2>2. After(i) \in Afters
      BY <2>1
    <2>3. \A j \in S : After(j) \in SUBSET S
      OBVIOUS
    <2> HIDE DEF After
    <2>4. Afters \subseteq SUBSET S
      BY <2>3
    <2> QED
      BY <2>2, <2>4
  <1>2. FiniteSubsetsOf(S) = SUBSET S
    BY FS_FiniteSubsetsOfFinite
  <1>3. IsWellFoundedOn(StrictSubsetOrdering(S), SUBSET S)
    BY <1>2, FS_StrictSubsetOrderingWellFounded
  <1>4. PICK X \in Afters : \A Y \in Afters : <<Y, X>> \notin StrictSubsetOrdering(S)
    BY <1>1, <1>3, WFMin
  <1>5. PICK i \in S : X = After(i)
    OBVIOUS
  <1>6. ASSUME NEW j \in S, <<i, j>> \in R PROVE FALSE
    <2>1. After(j) \in Afters /\ After(j) \subseteq After(i) /\ j \in After(i) /\ j \notin After(j)
      BY <1>6
    <2>2. After(j) \in SUBSET S /\ After(i) \in SUBSET S /\ After(j) # After(i)
      BY <2>1
    <2> HIDE DEF After, Afters
    <2>3. <<After(j), After(i)>> \in StrictSubsetOrdering(S)
      BY <2>1, <2>2 DEF StrictSubsetOrdering
    <2> QED
      BY <1>4, <1>5, <2>1, <2>3
  <1> QED
    BY <1>6

\* What is requested of a document: a deletion is published once, and only for
\* a document whose deletion was requested; a document that nobody wants to
\* delete has its products from before its completion is announced.
Requested ==
    \A d \in Docs :
        /\ <<d, "deleted">> \in pending => d \in removed
        /\ \A i \in 1..published : event[i] = <<d, "deleted">> =>
              /\ d \in removed /\ <<d, "deleted">> \notin pending
              /\ \A j \in 1..published : event[j] = event[i] => j = i

\* The append order of the queued entries is a strict order, and unless a
\* reclaim has put entries behind newer ones it is the order of publication.
StrictOn(order, S) ==
    /\ order \subseteq S \X S
    /\ \A i \in S : <<i, i>> \notin order
    /\ \A i, j, k \in S : <<i, j>> \in order /\ <<j, k>> \in order => <<i, k>> \in order

Ordered ==
    /\ StrictOn(before, Queued)
    /\ ~reordered => \A i, j \in Queued : <<i, j>> \in before <=> i < j

\* The entry is the last that was published of its document.
Last(i) == \A j \in 1..published : event[j][1] = event[i][1] => j <= i

\* What a claim has read from the batch stays true of it.
Frozen ==
    \A w \in Workers :
        /\ \A d \in worker[w].drop : \E i \in worker[w].batch : event[i] = <<d, "deleted">>
        /\ \A i \in worker[w].batch, d \in Docs :
             /\ event[i] = <<d, "completed">> /\ d \notin removed => d \in worker[w].merge
             /\ event[i] = <<d, "deleted">> /\ Last(i) /\ ~reordered =>
                   d \in worker[w].drop /\ d \notin worker[w].merge
        /\ worker[w].loaded \subseteq worker[w].merge

\* Queued entries are published ones.
LEMMA QueuedPublished ==
    ASSUME Types
    PROVE  /\ Queued \subseteq 1..published /\ Queued \subseteq Ids
           /\ \A i \in 1..published : i \in Ids
           /\ published \in Nat
           /\ \A i \in 1..published : i \in Queued \/ column[i] = "acked"
  <1>1. published \in Nat /\ published <= MaxEvents
    BY KnowledgeCompileAssumption DEF Types, TypeOK
  <1>2. \A i \in 1..published : i \in Ids
    BY <1>1, KnowledgeCompileAssumption DEF Ids
  <1>3. \A i \in Queued : i \in Ids /\ column[i] # "none"
    BY DEF Queued, In
  <1>4. Queued \subseteq 1..published
    BY <1>1, <1>3, KnowledgeCompileAssumption DEF Types, Unused, Ids
  <1>5. \A i \in 1..published : i \in Queued \/ column[i] = "acked"
    <2>1. \A i \in 1..published : column[i] # "none" /\ column[i] \in {"none", "backlog", "inflight", "acked"}
      BY <1>1, <1>2 DEF Types, Unused, TypeOK
    <2> QED
      BY <1>2, <2>1 DEF Queued, In
  <1> QED
    BY <1>1, <1>2, <1>3, <1>4, <1>5

\* The workers' steps other than a claim, an ack and the stages of a batch leave
\* everything else as it is, and of the workers forget one or tell its poll and
\* its heartbeat apart.
Alike(v) ==
    /\ worker'[v].batch = worker[v].batch /\ worker'[v].drop = worker[v].drop
    /\ worker'[v].merge = worker[v].merge /\ worker'[v].loaded = worker[v].loaded
    /\ worker'[v].seen = worker[v].seen
    /\ worker'[v].pc = worker[v].pc \/ {worker'[v].pc, worker[v].pc} \subseteq {"idle", "reclaim"}

Idles ==
    /\ \A v \in Workers : Alike(v) \/ worker'[v] = NoClaim
    /\ UNCHANGED <<log, column, before, engine, applied, removed, reordered>>

\* Polls that find nothing, heartbeats, failures and the lease are such steps.
LEMMA IdleSteps ==
    ASSUME TypeOK,
           \/ \E w \in Workers :
                 \/ FindExpired(w) \/ (Reclaim(w) /\ worker'[w] = NoClaim)
                 \/ Abandon(w) \/ Touch(w) \/ TouchFails(w)
           \/ LeaseExpires \/ LeaseOutlived
           \/ UNCHANGED vars
    PROVE  Idles
  <1> USE DEF history, engine, log, row
  <1>0. /\ \A w \in Workers : worker[w] \in WorkerStates
        /\ worker \in [Workers -> WorkerStates]
    BY DEF TypeOK
  <1>1. ASSUME NEW w \in Workers, worker' = [worker EXCEPT ![w] = NoClaim],
               UNCHANGED <<log, column, before, engine, applied, removed, reordered>>
        PROVE  Idles
    BY <1>0, <1>1 DEF Idles, Alike
  <1>2. ASSUME NEW w \in Workers, Reclaim(w), worker'[w] = NoClaim PROVE Idles
    BY <1>1, <1>2, ReclaimGivesUp
  <1>3. ASSUME NEW w \in Workers, Abandon(w) PROVE Idles
    BY <1>1, <1>3 DEF Abandon
  <1>4. ASSUME NEW w \in Workers, FindExpired(w) PROVE Idles
    <2>1. worker' = [worker EXCEPT ![w].pc = "reclaim"] /\ worker[w].pc = "idle"
      BY <1>4 DEF FindExpired
    <2>2. \A v \in Workers : Alike(v)
      BY <1>0, <2>1 DEF Alike, WorkerStates
    <2> QED
      BY <1>4, <2>2 DEF FindExpired, Idles
  <1>5. ASSUME NEW w \in Workers, Touch(w) \/ TouchFails(w) PROVE Idles
    <2>1. worker' = worker \/ worker' = [worker EXCEPT ![w].beat = "failed"]
      BY <1>5 DEF Touch, TouchFails
    <2>2. \A v \in Workers : Alike(v)
      BY <1>0, <2>1 DEF Alike, WorkerStates
    <2> QED
      BY <1>5, <2>2 DEF Touch, TouchFails, Idles
  <1>6. ASSUME LeaseExpires \/ LeaseOutlived \/ UNCHANGED vars PROVE Idles
    BY <1>6 DEF LeaseExpires, LeaseOutlived, vars, Idles, Alike
  <1> QED
    BY <1>2, <1>3, <1>4, <1>5, <1>6

\* A claim, with the order it reads: the queued entries stay the same and stay
\* strictly ordered, and where the new order is the publication's the old one was.
LEMMA TakesInOrder ==
    ASSUME Types, Ordered, NEW w \in Workers,
           Claim(w) \/ (Reclaim(w) /\ worker'[w] # NoClaim)
    PROVE  \E backlog \in SUBSET Queued, order \in SUBSET (Ids \X Ids) :
              /\ TakeBatch(w, backlog, order)
              /\ ~LiveLease /\ ~Busy(w)
              /\ StrictOn(order, Queued)
              /\ ~reordered' => ~reordered /\ order = before
  <1>1. CASE Claim(w)
    <2>1. before \in SUBSET (Ids \X Ids) /\ In("backlog") \in SUBSET Queued
      BY DEF Types, TypeOK, Queued
    <2>2. TakeBatch(w, In("backlog"), before) /\ ~LiveLease /\ ~Busy(w)
      BY <1>1 DEF Claim, Busy
    <2>3. reordered' = reordered /\ StrictOn(before, Queued)
      BY <1>1 DEF Claim, Ordered
    <2> QED
      BY <2>1, <2>2, <2>3
  <1>2. CASE Reclaim(w) /\ worker'[w] # NoClaim
    <2> DEFINE B == In("backlog")
               F == In("inflight")
               order == (before \ (F \X B)) \cup (B \X F)
    <2>0. B \cap F = {} /\ Queued = B \cup F
      BY DEF In, Queued
    <2>1. order \in SUBSET (Ids \X Ids)
      BY InColumn DEF Types, TypeOK
    <2>2. ~ (worker' = [worker EXCEPT ![w] = NoClaim])
      BY <1>2 DEF Types, TypeOK
    <2>3. /\ TakeBatch(w, B \cup F, order) /\ ~LiveLease
          /\ reordered' = (reordered \/ B # {})
      BY <1>2, <2>2 DEF Reclaim
    <2>4. ~Busy(w)
      BY <1>2 DEF Reclaim, Busy
    <2>5. ~reordered' => ~reordered /\ order = before
      BY <2>3
    <2>6. StrictOn(order, Queued)
      <3>1. StrictOn(before, B \cup F)
        BY <2>0 DEF Ordered
      <3> HIDE DEF B, F
      <3> QED
        BY <2>0, <3>1 DEF StrictOn
    <2> HIDE DEF order, B, F
    <2> QED
      BY <2>0, <2>1, <2>3, <2>4, <2>5, <2>6
  <1> QED
    BY <1>1, <1>2

\* A claim moves entries between the two lists and out of neither.
LEMMA TakeKeepsQueued ==
    ASSUME TypeOK, NEW w \in Workers, NEW backlog \in SUBSET Queued, NEW order,
           TakeBatch(w, backlog, order)
    PROVE  /\ Queued' = Queued
           /\ \A i \in Ids : column'[i] = "acked" <=> column[i] = "acked"
           /\ FirstOf(backlog, order) \subseteq In("inflight")'
  <1> DEFINE batch == FirstOf(backlog, order)
  <1>1. batch \subseteq backlog
    BY BatchIsQueued
  <1>2. column' = [i \in Ids |-> CASE i \in batch -> "inflight"
                                   [] i \in backlog \ batch -> "backlog"
                                   [] OTHER -> column[i]]
    BY DEF TakeBatch
  <1>3. \A i \in backlog : i \in Ids /\ column[i] \in {"backlog", "inflight"}
    BY DEF Queued, In
  <1> HIDE DEF batch
  <1>4. /\ \A i \in Ids : i \in Queued' <=> i \in Queued
        /\ \A i \in Ids : column'[i] = "acked" <=> column[i] = "acked"
    BY <1>1, <1>2, <1>3 DEF Queued, In
  <1>5. Queued' \subseteq Ids /\ Queued \subseteq Ids
    BY DEF Queued, In
  <1>6. batch \subseteq In("inflight")'
    BY <1>1, <1>2, <1>3 DEF In
  <1> QED
    BY <1>4, <1>5, <1>6 DEF batch

\* The stages of a batch, each as what it does to the worker's record and the
\* engine; the row and the publishers are left alone.
Stage(w) ==
    /\ \A v \in Workers \ {w} : worker'[v] = worker[v]
    /\ worker'[w].batch = worker[w].batch /\ worker'[w].drop = worker[w].drop
    /\ worker'[w].merge = worker[w].merge
    /\ UNCHANGED <<log, column, before, owner, removed, reordered, faults>>

DropStage(w) ==
    /\ worker[w].pc = "drop" /\ worker'[w].pc = "strip"
    /\ worker'[w].loaded = worker[w].loaded
    /\ products' = products \ worker[w].drop /\ UNCHANGED <<merged, graph>>

StripStage(w) ==
    /\ worker[w].pc = "strip" /\ worker'[w].pc = "load"
    /\ worker'[w].loaded = worker[w].loaded
    /\ merged' = merged \ worker[w].drop /\ UNCHANGED <<products, graph>>

LoadStage(w) ==
    /\ worker[w].pc = "load" /\ worker'[w].pc = "write"
    /\ worker'[w].loaded = worker[w].merge \cap products
    /\ worker'[w].loaded # {} => worker'[w].seen = merged
    /\ UNCHANGED engine

WriteStage(w) ==
    /\ worker[w].pc = "write" /\ worker'[w].pc = "project"
    /\ worker'[w].loaded = worker[w].loaded
    /\ merged' = IF worker[w].loaded = {} THEN merged ELSE worker[w].seen \cup worker[w].loaded
    /\ UNCHANGED <<products, graph>>

ProjectStage(w) ==
    /\ worker[w].pc = "project" /\ worker'[w].pc = "insert"
    /\ worker'[w].loaded = worker[w].loaded /\ worker'[w].seen = merged
    /\ UNCHANGED <<products, merged>>

InsertStage(w) ==
    /\ worker[w].pc = "insert" /\ worker'[w].pc = "ack"
    /\ worker'[w].loaded = worker[w].loaded
    /\ graph' = worker[w].seen /\ UNCHANGED <<products, merged>>

\* Each stage of processBatch is one of these.
LEMMA Stages ==
    ASSUME TypeOK, NEW w \in Workers,
           \/ DeleteDocLevel(w) \/ StripMergedSources(w) \/ LoadAndSearch(w)
           \/ WriteMerged(w) \/ DropWikiGraph(w)
           \/ InsertWikiGraph(w) /\ worker[w].beat # "failed"
    PROVE  /\ Stage(w)
           /\ \/ DropStage(w) \/ StripStage(w) \/ LoadStage(w)
              \/ WriteStage(w) \/ ProjectStage(w) \/ InsertStage(w)
  <1> USE DEF Stage, history, log, row, engine
  <1>0. worker \in [Workers -> WorkerStates] /\ worker[w] \in WorkerStates
    BY DEF TypeOK
  <1>1. CASE DeleteDocLevel(w)
    BY <1>0, <1>1 DEF DeleteDocLevel, Step, DropStage, WorkerStates
  <1>2. CASE StripMergedSources(w)
    BY <1>0, <1>2 DEF StripMergedSources, Step, StripStage, WorkerStates
  <1>3. CASE LoadAndSearch(w)
    BY <1>0, <1>3 DEF LoadAndSearch, LoadStage, WorkerStates
  <1>4. CASE WriteMerged(w)
    BY <1>0, <1>4 DEF WriteMerged, Step, WriteStage, WorkerStates
  <1>5. CASE DropWikiGraph(w)
    BY <1>0, <1>5 DEF DropWikiGraph, ProjectStage, WorkerStates
  <1>6. CASE InsertWikiGraph(w) /\ worker[w].beat # "failed"
    <2>1. worker' = [worker EXCEPT ![w] = [worker[w] EXCEPT !.pc = "ack"]]
      BY <1>6 DEF InsertWikiGraph
    <2> QED
      BY <1>0, <1>6, <2>1 DEF InsertWikiGraph, InsertStage, WorkerStates
  <1> QED
    BY <1>1, <1>2, <1>3, <1>4, <1>5, <1>6

\* A worker whose heartbeat has failed forgets its batch after the last stage.
LEMMA FailedInsert ==
    ASSUME TypeOK, NEW w \in Workers, InsertWikiGraph(w), worker[w].beat = "failed"
    PROVE  /\ \A v \in Workers : worker'[v] = worker[v] \/ worker'[v] = NoClaim
           /\ UNCHANGED <<log, column, before, products, removed, reordered>>
  BY DEF InsertWikiGraph, TypeOK, row, log

-------------------------------------------------------------------------------

\* Only publishers touch what was requested.
LEMMA WorkersKeepLog ==
    ASSUME TypeOK,
           \/ \E w \in Workers : Run(w) \/ Abandon(w) \/ Touch(w) \/ TouchFails(w)
           \/ LeaseExpires \/ LeaseOutlived
    PROVE  UNCHANGED <<log, removed>>
  <1> USE DEF history, log, row, engine
  <1>1. ASSUME NEW w \in Workers, Claim(w) \/ Reclaim(w) PROVE UNCHANGED <<log, removed>>
    BY <1>1 DEF Claim, Reclaim, TakeBatch
  <1>2. ASSUME NEW w \in Workers, FindExpired(w) \/ Abandon(w) \/ Touch(w) \/ TouchFails(w) \/ Ack(w)
        PROVE  UNCHANGED <<log, removed>>
    BY <1>2 DEF FindExpired, Abandon, Touch, TouchFails, Ack
  <1>3. ASSUME NEW w \in Workers,
               \/ DeleteDocLevel(w) \/ StripMergedSources(w) \/ LoadAndSearch(w)
               \/ WriteMerged(w) \/ DropWikiGraph(w) \/ InsertWikiGraph(w)
        PROVE  UNCHANGED <<log, removed>>
    BY <1>3 DEF DeleteDocLevel, StripMergedSources, LoadAndSearch, WriteMerged, DropWikiGraph,
                InsertWikiGraph, Step
  <1>4. ASSUME LeaseExpires \/ LeaseOutlived PROVE UNCHANGED <<log, removed>>
    BY <1>4 DEF LeaseExpires, LeaseOutlived
  <1> QED
    BY <1>1, <1>2, <1>3, <1>4 DEF Run, Poll, Process

\* What a publication adds to the log.
LEMMA Published ==
    ASSUME Types, NEW e \in Events, Publish(e)
    PROVE  /\ published' = published + 1 /\ published + 1 \in Ids
           /\ published + 1 \notin Queued /\ published + 1 \notin 1..published
           /\ 1..published' = 1..published \cup {published + 1}
           /\ event'[published + 1] = e
           /\ \A i \in 1..published : event'[i] = event[i] /\ column'[i] = column[i]
           /\ column'[published + 1] = "backlog"
           /\ Queued' = Queued \cup {published + 1}
           /\ before' = before \cup (Queued \X {published + 1})
           /\ pending' = pending \ {e} /\ e \in pending
           /\ UNCHANGED <<worker, engine, history>>
  <1>0. published \in Nat /\ Queued \subseteq 1..published /\ \A i \in 1..published : i \in Ids
    BY QueuedPublished
  <1>1. published + 1 \in Ids
    BY <1>0, PublishedRoom DEF Types, Room, Publish
  <1>2. /\ event' = [event EXCEPT ![published + 1] = e]
        /\ column' = [column EXCEPT ![published + 1] = "backlog"]
        /\ published' = published + 1
        /\ before' = before \cup ((In("backlog") \cup In("inflight")) \X {published + 1})
        /\ UNCHANGED <<worker, engine, history>>
        /\ pending' = pending \ {e} /\ e \in pending
    BY DEF Publish
  <1>3. event \in [Ids -> Events] /\ column \in [Ids -> {"none", "backlog", "inflight", "acked"}]
    BY DEF Types, TypeOK
  <1>4. published + 1 \notin 1..published /\ 1..(published + 1) = 1..published \cup {published + 1}
    BY <1>0
  <1>5. /\ \A i \in 1..published : event'[i] = event[i] /\ column'[i] = column[i]
        /\ event'[published + 1] = e /\ column'[published + 1] = "backlog"
    BY <1>0, <1>1, <1>2, <1>3, <1>4
  <1>6. Queued' = Queued \cup {published + 1}
    <2>1. \A i \in Ids : i # published + 1 => column'[i] = column[i]
      BY <1>2, <1>3
    <2> QED
      BY <1>1, <1>5, <2>1 DEF Queued, In
  <1> QED
    BY <1>0, <1>1, <1>2, <1>4, <1>5, <1>6 DEF Queued

\* Publishers keep what is requested of a document straight.
LEMMA RequestedStep ==
    ASSUME Types, Requested, [Next]_vars
    PROVE  Requested'
  <1> USE DEF history, log, engine, row
  <1>1. CASE UNCHANGED <<published, event, pending, removed>>
    BY <1>1 DEF Requested
  <1>2. ASSUME NEW e \in Events, Publish(e) PROVE Requested'
    <2>1. /\ 1..published' = 1..published \cup {published + 1}
          /\ event'[published + 1] = e
          /\ \A i \in 1..published : event'[i] = event[i]
          /\ pending' = pending \ {e} /\ e \in pending
          /\ removed' = removed
      BY <1>2, Published
    <2>2. \A d \in Docs : <<d, "deleted">> \in pending => d \in removed
      BY DEF Requested
    <2>3. \A d \in Docs, i \in 1..published : event[i] = <<d, "deleted">> =>
              /\ d \in removed /\ <<d, "deleted">> \notin pending
              /\ \A j \in 1..published : event[j] = event[i] => j = i
      BY DEF Requested
    <2> SUFFICES ASSUME NEW d \in Docs, NEW i \in 1..published', event'[i] = <<d, "deleted">>
                 PROVE  /\ d \in removed' /\ <<d, "deleted">> \notin pending'
                        /\ \A j \in 1..published' : event'[j] = event'[i] => j = i
      BY <2>1, <2>2 DEF Requested
    <2>4. CASE i = published + 1
      <3>1. e = <<d, "deleted">>
        BY <2>1, <2>4
      <3>2. \A j \in 1..published : event'[j] # e
        BY <2>1, <2>3, <3>1
      <3> QED
        BY <2>1, <2>2, <2>4, <3>1, <3>2
    <2>5. CASE i \in 1..published
      <3>1. event[i] = <<d, "deleted">>
        BY <2>1, <2>5
      <3>2. e # <<d, "deleted">>
        BY <2>1, <2>3, <2>5, <3>1
      <3> QED
        BY <2>1, <2>3, <2>5, <3>1, <3>2
    <2> QED
      BY <2>1, <2>4, <2>5
  <1>3. ASSUME NEW e \in Events, PublishFails(e) PROVE Requested'
    <2>1. pending' \subseteq pending /\ UNCHANGED <<published, event, removed>>
      BY <1>3 DEF PublishFails
    <2> QED
      BY <2>1 DEF Requested
  <1>4. ASSUME NEW d \in Docs, IndexDocument(d) PROVE Requested'
    <2>1. pending' = pending \cup {<<d, "completed">>} /\ UNCHANGED <<published, event, removed>>
      BY <1>4 DEF IndexDocument, Announce
    <2> QED
      BY <2>1 DEF Requested
  <1>5. ASSUME NEW d \in Docs, DeleteDocument(d) PROVE Requested'
    <2>1. /\ pending' = pending \cup {<<d, "deleted">>} /\ UNCHANGED <<published, event>>
          /\ removed' = removed \cup {d} /\ d \notin removed
      BY <1>5 DEF DeleteDocument, Announce
    <2> QED
      BY <2>1 DEF Requested
  <1>6. CASE UNCHANGED vars
    BY <1>1, <1>6 DEF vars
  <1> QED
    BY <1>1, <1>2, <1>3, <1>4, <1>5, <1>6, WorkersKeepLog DEF Next, Types

\* Appends, claims, reclaims and acks keep the order strict.
LEMMA OrderedStep ==
    ASSUME Types, Ordered, [Next]_vars
    PROVE  Ordered'
  <1> USE DEF history, log, engine, row
  <1>0. TypeOK
    BY DEF Types
  <1>1. CASE UNCHANGED <<column, before, reordered>>
    BY <1>1 DEF Ordered, Queued, In
  <1>2. ASSUME NEW e \in Events, Publish(e) PROVE Ordered'
    <2>1. /\ Queued' = Queued \cup {published + 1} /\ published + 1 \notin Queued
          /\ before' = before \cup (Queued \X {published + 1})
          /\ reordered' = reordered
      BY <1>2, Published
    <2>2. StrictOn(before, Queued)
      BY DEF Ordered
    <2>3. StrictOn(before', Queued')
      <3> HIDE DEF Queued
      <3> QED
        BY <2>1, <2>2 DEF StrictOn
    <2>4. \A i \in Queued : i < published + 1 /\ ~(published + 1 < i)
      BY QueuedPublished
    <2>5. ~(published + 1 < published + 1)
      BY QueuedPublished
    <2>6. ~reordered => \A i, j \in Queued : <<i, j>> \in before <=> i < j
      BY DEF Ordered
    <2>7. before \subseteq Queued \X Queued
      BY <2>2 DEF StrictOn
    <2>8. ~reordered => \A i, j \in Queued \cup {published + 1} : <<i, j>> \in before' <=> i < j
      BY <2>1, <2>4, <2>5, <2>6, <2>7
    <2> QED
      BY <2>1, <2>3, <2>8 DEF Ordered
  <1>3. ASSUME NEW w \in Workers, Claim(w) \/ (Reclaim(w) /\ worker'[w] # NoClaim) PROVE Ordered'
    <2>1. PICK backlog \in SUBSET Queued, order \in SUBSET (Ids \X Ids) :
              /\ TakeBatch(w, backlog, order)
              /\ StrictOn(order, Queued)
              /\ ~reordered' => ~reordered /\ order = before
      BY <1>3, TakesInOrder
    <2>2. Queued' = Queued /\ before' = order
      BY <1>0, <2>1, TakeKeepsQueued DEF TakeBatch
    <2> QED
      BY <2>1, <2>2 DEF Ordered
  <1>4. ASSUME NEW w \in Workers, Ack(w) PROVE Ordered'
    <2>1. CASE ~TokenMatches(w)
      BY <1>1, <1>4, <2>1 DEF Ack
    <2>2. CASE TokenMatches(w)
      <3>1. PICK gone : /\ column' = [i \in Ids |-> IF i \in gone THEN "acked" ELSE column[i]]
                        /\ before' = {p \in before : p[1] \notin gone /\ p[2] \notin gone}
                        /\ reordered' = reordered
        BY <1>4, <2>2 DEF Ack
      <3>2. Queued' = Queued \ gone
        BY <3>1 DEF Queued, In
      <3>3. StrictOn(before', Queued')
        BY <3>1, <3>2 DEF Ordered, StrictOn
      <3>4. ~reordered => \A i, j \in Queued' : <<i, j>> \in before' <=> i < j
        BY <3>1, <3>2 DEF Ordered
      <3> QED
        BY <3>1, <3>3, <3>4 DEF Ordered
    <2> QED
      BY <2>1, <2>2
  <1>5. ASSUME Idles PROVE UNCHANGED <<column, before, reordered>>
    BY <1>5 DEF Idles
  <1>6. ASSUME NEW w \in Workers,
               \/ DeleteDocLevel(w) \/ StripMergedSources(w) \/ LoadAndSearch(w)
               \/ WriteMerged(w) \/ DropWikiGraph(w) \/ InsertWikiGraph(w)
        PROVE  UNCHANGED <<column, before, reordered>>
    BY <1>6 DEF DeleteDocLevel, StripMergedSources, LoadAndSearch, WriteMerged, DropWikiGraph,
                InsertWikiGraph, Step
  <1>7. ASSUME \/ \E d \in Docs : IndexDocument(d) \/ DeleteDocument(d)
               \/ \E e \in Events : PublishFails(e)
        PROVE  UNCHANGED <<column, before, reordered>>
    BY <1>7 DEF IndexDocument, DeleteDocument, Announce, PublishFails
  <1> QED
    BY <1>0, <1>1, <1>2, <1>3, <1>4, <1>5, <1>6, <1>7, IdleSteps DEF Next, Run, Poll, Process

\* A claim reads the batch right: of a document nobody wants to delete some entry
\* is last, and it is a completion; a document whose last entry is a deletion is
\* dropped and not merged, unless the order was changed.
LEMMA FrozenTake ==
    ASSUME Types, Requested, Ordered, NEW w \in Workers,
           NEW backlog \in SUBSET Queued, NEW order \in SUBSET (Ids \X Ids),
           TakeBatch(w, backlog, order), StrictOn(order, Queued),
           ~reordered' => ~reordered /\ order = before
    PROVE  /\ \A d \in worker'[w].drop : \E i \in worker'[w].batch : event[i] = <<d, "deleted">>
           /\ \A i \in worker'[w].batch, d \in Docs :
                /\ event[i] = <<d, "completed">> /\ d \notin removed => d \in worker'[w].merge
                /\ event[i] = <<d, "deleted">> /\ Last(i) /\ ~reordered' =>
                      d \in worker'[w].drop /\ d \notin worker'[w].merge
           /\ worker'[w].loaded = {}
           /\ worker'[w].pc = IF worker'[w].drop # {} THEN "drop" ELSE "load"
           /\ worker'[w].batch = FirstOf(backlog, order) /\ worker'[w].batch # {}
           /\ worker'[w].batch \subseteq Queued
           /\ \A v \in Workers \ {w} : worker'[v] = worker[v]
  <1> DEFINE batch == FirstOf(backlog, order)
             drop  == LastIs("deleted", batch, order)
             merge == LastIs("completed", batch, order)
  <1>1. /\ worker'[w] = [pc     |-> IF drop # {} THEN "drop" ELSE "load",
                         batch  |-> batch, drop |-> drop, merge |-> merge,
                         loaded |-> {}, seen |-> {}, beat |-> "on"]
        /\ \A v \in Workers \ {w} : worker'[v] = worker[v]
        /\ batch # {}
    BY DEF TakeBatch, Types, TypeOK
  <1>2. batch \subseteq Queued /\ batch \subseteq 1..published /\ batch \subseteq Ids
    BY BatchIsQueued, QueuedPublished
  <1>3. \A d \in drop : \E i \in batch : event[i] = <<d, "deleted">>
    BY DEF LastIs
  <1>4. ASSUME NEW i \in batch, NEW d \in Docs, event[i] = <<d, "completed">>, d \notin removed
        PROVE  d \in merge
    <2> DEFINE S == {j \in batch : event[j][1] = d}
    <2>1. i \in S
      BY <1>4
    <2>2. IsFiniteSet(S)
      <3>1. IsFiniteSet(1..published)
        BY QueuedPublished, FS_Interval
      <3>2. S \subseteq 1..published
        BY <1>2
      <3> QED
        BY <3>1, <3>2, FS_Subset
    <2>3. /\ \A j \in S : <<j, j>> \notin order
          /\ \A j, k, l \in S : <<j, k>> \in order /\ <<k, l>> \in order => <<j, l>> \in order
      BY <1>2 DEF StrictOn
    <2>4. PICK j \in S : \A k \in S : <<j, k>> \notin order
      <3> HIDE DEF S
      <3> QED
        BY <2>1, <2>2, <2>3, LastOfFinite
    <2>5. event[j] = <<d, "completed">>
      <3>1. event[j] \in Events /\ j \in 1..published
        BY <1>2 DEF Types, TypeOK
      <3>2. event[j][1] = d
        OBVIOUS
      <3>3. event[j] # <<d, "deleted">>
        BY <1>4, <3>1 DEF Requested
      <3> QED
        BY <3>1, <3>2, <3>3 DEF Events
    <2> QED
      BY <2>4, <2>5 DEF LastIs
  <1>5. ASSUME NEW i \in batch, NEW d \in Docs, event[i] = <<d, "deleted">>, Last(i), ~reordered'
        PROVE  d \in drop /\ d \notin merge
    <2>1. \A j, k \in Queued : <<j, k>> \in order <=> j < k
      BY <1>5 DEF Ordered
    <2>2. \A j \in batch : event[j][1] = d => j <= i
      BY <1>2, <1>5 DEF Last
    <2>3. \A j \in batch : event[j][1] = d => ~(i < j)
      BY <1>2, <2>2, QueuedPublished
    <2>4. d \in drop
      BY <1>2, <1>5, <2>1, <2>3 DEF LastIs
    <2>5. d \notin merge
      <3> SUFFICES ASSUME d \in merge PROVE FALSE
        OBVIOUS
      <3>1. PICK k \in batch : /\ event[k] = <<d, "completed">>
                               /\ \A j \in batch : event[j][1] = d => <<k, j>> \notin order
        BY DEF LastIs
      <3>2. k <= i /\ k # i
        BY <1>5, <2>2, <3>1
      <3>3. k < i
        BY <1>2, <3>2, QueuedPublished
      <3>4. <<k, i>> \notin order
        BY <1>5, <3>1
      <3> QED
        BY <1>2, <2>1, <3>3, <3>4
    <2> QED
      BY <2>4, <2>5
  <1> HIDE DEF batch, drop, merge
  <1> QED
    BY <1>1, <1>2, <1>3, <1>4, <1>5 DEF batch

\* A worker whose batch and what was read of it stay, while the log grows.
LEMMA FrozenKept ==
    ASSUME Types, MergedFirst, Requested, Requested', Frozen,
           published \in Nat,
           1..published \subseteq 1..published',
           \A i \in 1..published : event'[i] = event[i],
           removed \subseteq removed', reordered => reordered',
           NEW v \in Workers,
           \/ worker'[v] = NoClaim
           \/ /\ worker'[v].batch = worker[v].batch /\ worker'[v].drop = worker[v].drop
              /\ worker'[v].merge = worker[v].merge
              /\ worker'[v].loaded \subseteq worker[v].merge
    PROVE  /\ \A d \in worker'[v].drop : \E i \in worker'[v].batch : event'[i] = <<d, "deleted">>
           /\ \A i \in worker'[v].batch, d \in Docs :
                /\ event'[i] = <<d, "completed">> /\ d \notin removed' => d \in worker'[v].merge
                /\ event'[i] = <<d, "deleted">> /\ Last(i)' /\ ~reordered' =>
                      d \in worker'[v].drop /\ d \notin worker'[v].merge
           /\ worker'[v].loaded \subseteq worker'[v].merge
  <1>1. CASE worker'[v] = NoClaim
    BY <1>1 DEF NoClaim
  <1>2. CASE /\ worker'[v].batch = worker[v].batch /\ worker'[v].drop = worker[v].drop
             /\ worker'[v].merge = worker[v].merge
             /\ worker'[v].loaded \subseteq worker[v].merge
    <2>1. worker[v].batch \subseteq 1..published
      BY DEF MergedFirst
    <2>2. \A i \in 1..published : Last(i)' => Last(i)
      BY DEF Last
    <2> QED
      BY <1>2, <2>1, <2>2 DEF Frozen
  <1> QED
    BY <1>1, <1>2

\* Every step keeps what a claim has read of its batch.
LEMMA FrozenStep ==
    ASSUME Types, MergedFirst, Requested, Requested', Ordered, Frozen, [Next]_vars
    PROVE  Frozen'
  <1> USE DEF history, log, engine, row
  <1>0. TypeOK /\ published \in Nat /\ \A w \in Workers : worker[w].loaded \subseteq worker[w].merge
    BY QueuedPublished DEF Types, Frozen
  <1>1. ASSUME UNCHANGED <<published, event>>, removed \subseteq removed', reordered => reordered',
               \A v \in Workers :
                 \/ worker'[v] = NoClaim
                 \/ /\ worker'[v].batch = worker[v].batch /\ worker'[v].drop = worker[v].drop
                    /\ worker'[v].merge = worker[v].merge
                    /\ worker'[v].loaded \subseteq worker[v].merge
        PROVE  Frozen'
    BY <1>0, <1>1, FrozenKept DEF Frozen
  <1>2. ASSUME NEW e \in Events, Publish(e) PROVE Frozen'
    <2>1. /\ 1..published' = 1..published \cup {published + 1}
          /\ \A i \in 1..published : event'[i] = event[i]
          /\ UNCHANGED <<worker, removed, reordered>>
      BY <1>2, Published
    <2> QED
      BY <1>0, <2>1, FrozenKept DEF Frozen
  <1>3. ASSUME NEW w \in Workers, Claim(w) \/ (Reclaim(w) /\ worker'[w] # NoClaim) PROVE Frozen'
    <2>1. PICK backlog \in SUBSET Queued, order \in SUBSET (Ids \X Ids) :
              /\ TakeBatch(w, backlog, order)
              /\ StrictOn(order, Queued)
              /\ ~reordered' => ~reordered /\ order = before
      BY <1>3, TakesInOrder
    <2>2. /\ \A d \in worker'[w].drop : \E i \in worker'[w].batch : event[i] = <<d, "deleted">>
          /\ \A i \in worker'[w].batch, d \in Docs :
                /\ event[i] = <<d, "completed">> /\ d \notin removed => d \in worker'[w].merge
                /\ event[i] = <<d, "deleted">> /\ Last(i) /\ ~reordered' =>
                      d \in worker'[w].drop /\ d \notin worker'[w].merge
          /\ worker'[w].loaded = {}
          /\ \A v \in Workers \ {w} : worker'[v] = worker[v]
      BY <2>1, FrozenTake
    <2>3. UNCHANGED <<published, event, removed>> /\ (reordered => reordered')
      BY <1>3, <2>1 DEF TakeBatch
    <2>4. \A i : Last(i)' <=> Last(i)
      BY <2>3 DEF Last
    <2>5. \A v \in Workers \ {w} :
           /\ \A d \in worker'[v].drop : \E i \in worker'[v].batch : event'[i] = <<d, "deleted">>
           /\ \A i \in worker'[v].batch, d \in Docs :
                /\ event'[i] = <<d, "completed">> /\ d \notin removed' => d \in worker'[v].merge
                /\ event'[i] = <<d, "deleted">> /\ Last(i)' /\ ~reordered' =>
                      d \in worker'[v].drop /\ d \notin worker'[v].merge
           /\ worker'[v].loaded \subseteq worker'[v].merge
      BY <1>0, <2>2, <2>3, FrozenKept
    <2> QED
      BY <2>2, <2>3, <2>4, <2>5 DEF Frozen
  <1>4. ASSUME NEW w \in Workers, Ack(w) PROVE Frozen'
    <2>1. worker' = [worker EXCEPT ![w] = NoClaim] /\ UNCHANGED <<published, event, removed, reordered>>
      BY <1>4 DEF Ack
    <2> QED
      BY <1>0, <1>1, <2>1 DEF TypeOK
  <1>5. ASSUME Idles PROVE Frozen'
    BY <1>0, <1>1, <1>5 DEF Idles, Alike
  <1>6. ASSUME NEW w \in Workers,
               \/ DeleteDocLevel(w) \/ StripMergedSources(w) \/ LoadAndSearch(w)
               \/ WriteMerged(w) \/ DropWikiGraph(w)
               \/ InsertWikiGraph(w) /\ worker[w].beat # "failed"
        PROVE  Frozen'
    <2>1. Stage(w) /\ worker'[w].loaded \in {worker[w].loaded, worker[w].merge \cap products}
      BY <1>0, <1>6, Stages DEF DropStage, StripStage, LoadStage, WriteStage, ProjectStage, InsertStage
    <2> QED
      BY <1>0, <1>1, <2>1 DEF Stage
  <1>7. ASSUME NEW w \in Workers, InsertWikiGraph(w), worker[w].beat = "failed" PROVE Frozen'
    BY <1>0, <1>1, <1>7, FailedInsert
  <1>8. ASSUME \/ \E d \in Docs : IndexDocument(d) \/ DeleteDocument(d)
               \/ \E e \in Events : PublishFails(e)
        PROVE  Frozen'
    <2>1. UNCHANGED <<published, event, worker, reordered>> /\ removed \subseteq removed'
      BY <1>8 DEF IndexDocument, DeleteDocument, Announce, PublishFails
    <2> QED
      BY <1>0, <1>1, <2>1
  <1> QED
    BY <1>0, <1>2, <1>3, <1>4, <1>5, <1>6, <1>7, <1>8, IdleSteps DEF Next, Run, Poll, Process

\* A document that nobody wants to delete has its products before its completion
\* is announced, and keeps them.
Indexed ==
    \A d \in Docs \ removed :
        <<d, "completed">> \in pending \/ (\E i \in 1..published : event[i] = <<d, "completed">>)
            => d \in products

\* Only the deletion of a document takes its products away.
LEMMA IndexedStep ==
    ASSUME Types, MergedFirst, Requested, Frozen, Indexed, [Next]_vars
    PROVE  Indexed'
  <1> USE DEF history, log, engine, row
  <1>0. TypeOK
    BY DEF Types
  <1>1. ASSUME UNCHANGED <<published, event, pending, removed>>, products \ removed \subseteq products'
        PROVE  Indexed'
    BY <1>1 DEF Indexed
  <1>2. ASSUME NEW e \in Events, Publish(e) PROVE Indexed'
    <2>1. /\ 1..published' = 1..published \cup {published + 1}
          /\ event'[published + 1] = e
          /\ \A i \in 1..published : event'[i] = event[i]
          /\ pending' = pending \ {e} /\ e \in pending
          /\ UNCHANGED <<removed, products>>
      BY <1>2, Published
    <2> QED
      BY <2>1 DEF Indexed
  <1>3. ASSUME NEW e \in Events, PublishFails(e) PROVE Indexed'
    <2>1. pending' \subseteq pending /\ UNCHANGED <<published, event, removed, products>>
      BY <1>3 DEF PublishFails
    <2> QED
      BY <2>1 DEF Indexed
  <1>4. ASSUME NEW d \in Docs, IndexDocument(d) PROVE Indexed'
    <2>1. /\ pending' = pending \cup {<<d, "completed">>} /\ products' = products \cup {d}
          /\ UNCHANGED <<published, event, removed>>
      BY <1>4 DEF IndexDocument, Announce
    <2> QED
      BY <2>1 DEF Indexed
  <1>5. ASSUME NEW d \in Docs, DeleteDocument(d) PROVE Indexed'
    <2>1. /\ pending' = pending \cup {<<d, "deleted">>} /\ products \ {d} \subseteq products'
          /\ removed' = removed \cup {d} /\ UNCHANGED <<published, event>>
      BY <1>5 DEF DeleteDocument, Announce
    <2> QED
      BY <2>1 DEF Indexed
  <1>6. ASSUME NEW w \in Workers, DeleteDocLevel(w) PROVE Indexed'
    <2>1. UNCHANGED <<published, event, pending, removed>> /\ products' = products \ worker[w].drop
      BY <1>6 DEF DeleteDocLevel, Step
    <2>2. \A d \in worker[w].drop : d \in removed
      <3>1. worker[w].batch \subseteq 1..published /\ worker[w].drop \subseteq Docs
        BY <1>0 DEF MergedFirst, TypeOK, WorkerStates
      <3> QED
        BY <3>1 DEF Frozen, Requested
    <2> QED
      BY <1>1, <2>1, <2>2
  <1>7. ASSUME NEW w \in Workers, Claim(w) \/ Reclaim(w) PROVE products' = products
    BY <1>7 DEF Claim, Reclaim, TakeBatch
  <1>8. ASSUME NEW w \in Workers,
               \/ FindExpired(w) \/ Abandon(w) \/ Touch(w) \/ TouchFails(w) \/ Ack(w)
               \/ StripMergedSources(w) \/ LoadAndSearch(w)
               \/ WriteMerged(w) \/ DropWikiGraph(w) \/ InsertWikiGraph(w)
        PROVE  products' = products
    BY <1>8 DEF FindExpired, Abandon, Touch, TouchFails, Ack, StripMergedSources, LoadAndSearch,
                WriteMerged, DropWikiGraph, InsertWikiGraph, Step
  <1>9. ASSUME LeaseExpires \/ LeaseOutlived \/ UNCHANGED vars PROVE products' = products
    BY <1>9 DEF LeaseExpires, LeaseOutlived, vars
  <1>10. CASE UNCHANGED vars
    BY <1>1, <1>10 DEF vars
  <1>11. ASSUME \/ \E w \in Workers : Run(w) \/ Abandon(w) \/ Touch(w) \/ TouchFails(w)
                \/ LeaseExpires \/ LeaseOutlived
         PROVE  Indexed'
    <2>1. UNCHANGED <<published, event, pending, removed>>
      BY <1>0, <1>11, WorkersKeepLog
    <2>2. ASSUME products' = products PROVE Indexed'
      BY <1>1, <2>1, <2>2
    <2> QED
      BY <1>6, <1>7, <1>8, <1>9, <1>11, <2>2 DEF Run, Poll, Process
  <1> QED
    BY <1>2, <1>3, <1>4, <1>5, <1>10, <1>11 DEF Next

\* While heartbeats succeed, what a worker inside a batch holds is inflight.
Held ==
    faults = 0 =>
        \A w \in Workers : Busy(w) => worker[w].batch # {} /\ worker[w].batch \subseteq In("inflight")

\* The steps of a run without failed heartbeats and outlived leases.
LEMMA HealthySteps ==
    ASSUME Types, HoldersBeat, faults' = 0, [Next]_vars
    PROVE  /\ faults = 0
           /\ \/ Idles
              \/ \E w \in Workers : Claim(w) \/ (Reclaim(w) /\ worker'[w] # NoClaim)
              \/ \E w \in Workers : /\ Stage(w) /\ Busy(w)
                                    /\ \/ DropStage(w) \/ StripStage(w) \/ LoadStage(w)
                                       \/ WriteStage(w) \/ ProjectStage(w) \/ InsertStage(w)
              \/ \E w \in Workers : Ack(w) /\ TokenMatches(w) /\ Busy(w)
              \/ \E e \in Events : Publish(e) \/ PublishFails(e)
              \/ \E d \in Docs : IndexDocument(d) \/ DeleteDocument(d)
  <1> USE DEF history, log, engine, row
  <1>0. TypeOK /\ faults \in Nat
    BY KnowledgeCompileAssumption DEF Types, TypeOK
  <1>1. faults = 0
    <2>1. faults' \in {faults, faults + 1}
      <3>1. ASSUME NEW w \in Workers, Claim(w) \/ Reclaim(w) PROVE faults' = faults
        BY <3>1 DEF Claim, Reclaim, TakeBatch
      <3>2. ASSUME NEW w \in Workers, FindExpired(w) \/ Abandon(w) \/ Touch(w) \/ TouchFails(w) \/ Ack(w)
            PROVE  faults' \in {faults, faults + 1}
        BY <3>2 DEF FindExpired, Abandon, Touch, TouchFails, Ack
      <3>3. ASSUME NEW w \in Workers,
               \/ DeleteDocLevel(w) \/ StripMergedSources(w) \/ LoadAndSearch(w)
               \/ WriteMerged(w) \/ DropWikiGraph(w) \/ InsertWikiGraph(w)
            PROVE  faults' = faults
        BY <3>3 DEF DeleteDocLevel, StripMergedSources, LoadAndSearch, WriteMerged, DropWikiGraph,
                InsertWikiGraph, Step
      <3>4. ASSUME \/ \E d \in Docs : IndexDocument(d) \/ DeleteDocument(d)
                   \/ \E e \in Events : Publish(e) \/ PublishFails(e)
                   \/ LeaseExpires \/ LeaseOutlived \/ UNCHANGED vars
            PROVE  faults' \in {faults, faults + 1}
        BY <3>4 DEF IndexDocument, DeleteDocument, Announce, Publish, PublishFails, LeaseExpires,
                    LeaseOutlived, vars
      <3> QED
        BY <3>1, <3>2, <3>3, <3>4 DEF Next, Run, Poll, Process
    <2> QED
      BY <1>0, <2>1
  <1>2. ASSUME NEW w \in Workers,
               \/ DeleteDocLevel(w) \/ StripMergedSources(w) \/ LoadAndSearch(w)
               \/ WriteMerged(w) \/ DropWikiGraph(w) \/ InsertWikiGraph(w)
        PROVE  /\ Stage(w) /\ Busy(w)
               /\ \/ DropStage(w) \/ StripStage(w) \/ LoadStage(w)
                  \/ WriteStage(w) \/ ProjectStage(w) \/ InsertStage(w)
    <2>1. Busy(w)
      BY <1>2 DEF DeleteDocLevel, StripMergedSources, LoadAndSearch, WriteMerged, DropWikiGraph,
                  InsertWikiGraph, Step, Busy
    <2>2. worker[w].beat # "failed"
      BY <1>1, <2>1 DEF HoldersBeat
    <2> QED
      BY <1>0, <1>2, <2>1, <2>2, Stages
  <1>3. ASSUME NEW w \in Workers, Ack(w) PROVE TokenMatches(w) /\ Busy(w)
    <2>1. Busy(w)
      BY <1>3 DEF Ack, Busy
    <2> QED
      BY <1>1, <2>1 DEF HoldersBeat, TokenMatches
  <1> QED
    BY <1>0, <1>1, <1>2, <1>3, IdleSteps DEF Next, Run, Poll, Process

\* Nobody else is inside a batch.
LEMMA Alone ==
    ASSUME TypeOK, HoldersBeat, faults = 0, NEW w \in Workers, Busy(w), NEW v \in Workers \ {w}
    PROVE  ~Busy(v) /\ worker[v].batch = {} /\ worker[v].pc \in {"idle", "reclaim"}
  BY DEF HoldersBeat, TypeOK, Busy

\* What an ack does to the row.
LEMMA Acked ==
    ASSUME TypeOK, NEW w \in Workers, Ack(w), TokenMatches(w)
    PROVE  /\ worker' = [worker EXCEPT ![w] = NoClaim] /\ worker[w].pc = "ack"
           /\ UNCHANGED <<log, engine, removed, reordered, faults>>
           /\ Queued' \subseteq Queued
           /\ \A i \in Ids : column'[i] # "acked" => column'[i] = column[i]
           /\ \A i \in Ids : column'[i] = "acked" =>
                 column[i] = "acked" \/ \E j \in worker[w].batch : event[i] = event[j]
  <1> DEFINE gone == RemoveEntries(worker[w].batch)
  <1>1. /\ column' = [i \in Ids |-> IF i \in gone THEN "acked" ELSE column[i]]
        /\ worker' = [worker EXCEPT ![w] = NoClaim] /\ worker[w].pc = "ack"
        /\ UNCHANGED <<log, engine, removed, reordered, faults>>
    BY DEF Ack, history
  <1>2. \A i \in gone : \E j \in worker[w].batch : event[i] = event[j]
    BY DEF RemoveEntries
  <1> HIDE DEF gone
  <1>3. Queued' \subseteq Queued
    BY <1>1 DEF Queued, In
  <1> QED
    BY <1>1, <1>2, <1>3

\* Claims put their batch inflight, and only the ack of its holder takes it out.
LEMMA HeldStep ==
    ASSUME Types, HoldersBeat, Ordered, Requested, Held, [Next]_vars
    PROVE  Held'
  <1> SUFFICES ASSUME faults' = 0, NEW v \in Workers, Busy(v)'
               PROVE  worker'[v].batch # {} /\ worker'[v].batch \subseteq In("inflight")'
    BY DEF Held
  <1> USE DEF history, log, engine, row
  <1>0. TypeOK /\ faults = 0
    BY HealthySteps DEF Types
  <1>1. ASSUME Busy(v), worker'[v].batch = worker[v].batch, In("inflight") \subseteq In("inflight")'
        PROVE  worker'[v].batch # {} /\ worker'[v].batch \subseteq In("inflight")'
    BY <1>0, <1>1 DEF Held
  <1>2. CASE Idles
    BY <1>1, <1>2 DEF Idles, Alike, Busy, In, NoClaim
  <1>3. ASSUME NEW w \in Workers, Claim(w) \/ (Reclaim(w) /\ worker'[w] # NoClaim)
        PROVE  worker'[v].batch # {} /\ worker'[v].batch \subseteq In("inflight")'
    <2>1. PICK backlog \in SUBSET Queued, order \in SUBSET (Ids \X Ids) :
              /\ TakeBatch(w, backlog, order)
              /\ ~LiveLease
              /\ StrictOn(order, Queued)
              /\ ~reordered' => ~reordered /\ order = before
      BY <1>3, TakesInOrder
    <2>2. /\ worker'[w].batch = FirstOf(backlog, order) /\ worker'[w].batch # {}
          /\ \A u \in Workers \ {w} : worker'[u] = worker[u]
      BY <2>1, FrozenTake
    <2>3. FirstOf(backlog, order) \subseteq In("inflight")'
      BY <1>0, <2>1, TakeKeepsQueued
    <2>4. v = w
      <3>1. ~Busy(v)
        BY <1>0, <2>1, KnowledgeCompileAssumption DEF HoldersBeat, LiveLease
      <3> QED
        BY <2>2, <3>1 DEF Busy
    <2> QED
      BY <2>2, <2>3, <2>4
  <1>4. ASSUME NEW w \in Workers, Stage(w), Busy(w)
        PROVE  worker'[v].batch # {} /\ worker'[v].batch \subseteq In("inflight")'
    <2>1. worker'[v].batch = worker[v].batch /\ In("inflight")' = In("inflight")
      BY <1>4 DEF Stage, In
    <2>2. Busy(v)
      BY <1>4 DEF Stage, Busy
    <2> QED
      BY <1>1, <2>1, <2>2
  <1>5. ASSUME NEW w \in Workers, Ack(w), TokenMatches(w), Busy(w) PROVE FALSE
    <2>1. worker' = [worker EXCEPT ![w] = NoClaim]
      BY <1>5 DEF Ack
    <2>2. v # w /\ Busy(v)
      BY <1>0, <2>1 DEF TypeOK, Busy, NoClaim
    <2> QED
      BY <1>0, <1>5, <2>2, Alone
  <1>6. ASSUME NEW e \in Events, Publish(e)
        PROVE  worker'[v].batch # {} /\ worker'[v].batch \subseteq In("inflight")'
    <2>1. worker' = worker /\ \A i \in 1..published : column'[i] = column[i]
      BY <1>6, Published
    <2>2. In("inflight") \subseteq In("inflight")'
      <3>1. In("inflight") \subseteq 1..published /\ In("inflight") \subseteq Ids
        BY QueuedPublished DEF Queued
      <3> QED
        BY <2>1, <3>1 DEF In
    <2> QED
      BY <1>1, <2>1, <2>2 DEF Busy
  <1>7. ASSUME \/ \E d \in Docs : IndexDocument(d) \/ DeleteDocument(d)
               \/ \E e \in Events : PublishFails(e)
        PROVE  worker'[v].batch # {} /\ worker'[v].batch \subseteq In("inflight")'
    <2>1. UNCHANGED <<worker, column>>
      BY <1>7 DEF IndexDocument, DeleteDocument, Announce, PublishFails
    <2> QED
      BY <1>1, <2>1 DEF Busy, In
  <1> QED
    BY <1>2, <1>3, <1>4, <1>5, <1>6, <1>7, HealthySteps

\* The graph follows the merged products: what the last search and the last
\* projection read is still what is stored, and a drained row leaves nothing to project.
InStep ==
    /\ \A w \in Workers :
         /\ worker[w].pc = "write" /\ worker[w].loaded # {} => worker[w].seen = merged
         /\ worker[w].pc = "insert" => worker[w].seen = merged
         /\ worker[w].pc = "ack" => graph = merged
    /\ Drained => graph = merged

Projected == faults = 0 => InStep

\* The completion of a document nobody wants to delete is queued until the
\* document is a source of the merged product.
Kept ==
    faults = 0 =>
        \A i \in 1..published, d \in Docs \ removed : event[i] = <<d, "completed">> =>
            /\ d \in merged \/ i \in Queued
            /\ \A w \in Workers : i \in worker[w].batch =>
                  /\ worker[w].pc = "write" => d \in worker[w].loaded
                  /\ worker[w].pc \in {"project", "insert", "ack"} => d \in merged

\* The deletions of the entry's batch have been carried out.
Stripped(i) ==
    \/ column[i] = "acked"
    \/ \E w \in Workers : i \in worker[w].batch /\ worker[w].pc \notin {"drop", "strip"}

\* From then on a document that was deleted for good, and whose products did not
\* come back, is no source of the merged product and about to become none.
Forgotten ==
    faults = 0 /\ ~reordered =>
        \A i \in 1..published, d \in Docs \ products :
            event[i] = <<d, "deleted">> /\ Last(i) /\ Stripped(i) =>
                /\ d \notin merged
                /\ \A w \in Workers : worker[w].pc = "write" => d \notin worker[w].loaded

\* A claim in a run of healthy heartbeats: nobody was inside a batch.
LEMMA HealthyTake ==
    ASSUME Types, HoldersBeat, Requested, Ordered, faults = 0, NEW w \in Workers,
           Claim(w) \/ (Reclaim(w) /\ worker'[w] # NoClaim)
    PROVE  /\ \A v \in Workers : ~Busy(v)
           /\ \A v \in Workers \ {w} : worker'[v] = worker[v]
           /\ worker'[w].pc = IF worker'[w].drop # {} THEN "drop" ELSE "load"
           /\ worker'[w].batch \subseteq Queued
           /\ \A i \in worker'[w].batch, d \in Docs :
                 event[i] = <<d, "deleted">> /\ Last(i) /\ ~reordered' => d \in worker'[w].drop
           /\ Queued' = Queued
           /\ \A i \in Ids : column'[i] = "acked" <=> column[i] = "acked"
           /\ UNCHANGED <<log, engine, removed>>
           /\ ~reordered' => ~reordered
  <1>1. PICK backlog \in SUBSET Queued, order \in SUBSET (Ids \X Ids) :
              /\ TakeBatch(w, backlog, order)
              /\ ~LiveLease
              /\ StrictOn(order, Queued)
              /\ ~reordered' => ~reordered /\ order = before
    BY TakesInOrder
  <1>2. /\ \A i \in worker'[w].batch, d \in Docs :
             event[i] = <<d, "deleted">> /\ Last(i) /\ ~reordered' => d \in worker'[w].drop
        /\ worker'[w].pc = IF worker'[w].drop # {} THEN "drop" ELSE "load"
        /\ \A v \in Workers \ {w} : worker'[v] = worker[v]
        /\ worker'[w].batch \subseteq Queued
    BY <1>1, FrozenTake
  <1>3. /\ Queued' = Queued
        /\ \A i \in Ids : column'[i] = "acked" <=> column[i] = "acked"
    BY <1>1, TakeKeepsQueued DEF Types
  <1>4. \A v \in Workers : ~Busy(v)
    BY <1>1, KnowledgeCompileAssumption DEF HoldersBeat, LiveLease
  <1>5. UNCHANGED <<log, engine, removed>>
    BY <1>1 DEF TakeBatch
  <1> QED
    BY <1>1, <1>2, <1>3, <1>4, <1>5

\* A search, a write and a projection are not interleaved with another worker's.
LEMMA ProjectedStep ==
    ASSUME Types, HoldersBeat, Requested, Ordered, Held, Projected, [Next]_vars
    PROVE  Projected'
  <1> SUFFICES ASSUME faults' = 0 PROVE InStep'
    BY DEF Projected
  <1> USE DEF history, log, engine
  <1>0. /\ TypeOK /\ faults = 0
        /\ \A w \in Workers :
             /\ worker[w].pc = "write" /\ worker[w].loaded # {} => worker[w].seen = merged
             /\ worker[w].pc = "insert" => worker[w].seen = merged
             /\ worker[w].pc = "ack" => graph = merged
        /\ Drained => graph = merged
    BY HealthySteps DEF Types, Projected, InStep
  <1>00. \A w \in Workers : Busy(w) => Queued # {}
    BY <1>0 DEF Held, Queued
  <1>1. ASSUME Idles PROVE InStep'
    <2>1. /\ UNCHANGED <<merged, graph>>
          /\ \A w \in Workers : worker'[w].pc \in {"write", "insert", "ack"} =>
                /\ worker'[w].pc = worker[w].pc /\ worker'[w].loaded = worker[w].loaded
                /\ worker'[w].seen = worker[w].seen
      BY <1>1 DEF Idles, Alike, NoClaim
    <2>2. Drained' => Drained
      <3>1. Queued' = Queued
        BY <1>1 DEF Idles, Queued, In
      <3> QED
        BY <1>00, <3>1 DEF Drained
    <2> QED
      BY <1>0, <2>1, <2>2 DEF InStep
  <1>2. ASSUME NEW w \in Workers, Claim(w) \/ (Reclaim(w) /\ worker'[w] # NoClaim) PROVE InStep'
    <2>1. /\ \A v \in Workers : ~Busy(v)
          /\ \A v \in Workers \ {w} : worker'[v] = worker[v]
          /\ worker'[w].pc \in {"drop", "load"}
          /\ UNCHANGED <<merged, graph>>
      BY <1>0, <1>2, HealthyTake
    <2>2. ~Drained'
      BY <2>1 DEF Drained, Busy
    <2> QED
      BY <2>1, <2>2 DEF Busy, InStep
  <1>3. ASSUME NEW w \in Workers, Stage(w), Busy(w),
               \/ DropStage(w) \/ StripStage(w) \/ LoadStage(w)
               \/ WriteStage(w) \/ ProjectStage(w) \/ InsertStage(w)
        PROVE  InStep'
    <2>1. \A v \in Workers \ {w} : worker'[v] = worker[v] /\ worker[v].pc \in {"idle", "reclaim"}
      BY <1>0, <1>3, Alone DEF Stage
    <2>2. ~Drained'
      BY <1>3 DEF Drained, Busy, DropStage, StripStage, LoadStage, WriteStage, ProjectStage, InsertStage
    <2>3. /\ worker'[w].pc = "write" /\ worker'[w].loaded # {} => worker'[w].seen = merged'
          /\ worker'[w].pc = "insert" => worker'[w].seen = merged'
          /\ worker'[w].pc = "ack" => graph' = merged'
      BY <1>0, <1>3 DEF DropStage, StripStage, LoadStage, WriteStage, ProjectStage, InsertStage
    <2> QED
      BY <2>1, <2>2, <2>3 DEF InStep
  <1>4. ASSUME NEW w \in Workers, Ack(w), TokenMatches(w), Busy(w) PROVE InStep'
    <2>1. /\ worker' = [worker EXCEPT ![w] = NoClaim] /\ worker[w].pc = "ack"
          /\ UNCHANGED <<merged, graph>>
      BY <1>0, <1>4, Acked
    <2>2. graph = merged
      BY <1>0, <2>1
    <2>3. \A v \in Workers : worker'[v].pc \in {"idle", "reclaim"}
      BY <1>0, <1>4, <2>1, Alone DEF TypeOK, NoClaim
    <2> QED
      BY <2>1, <2>2, <2>3 DEF InStep
  <1>5. ASSUME NEW e \in Events, Publish(e) PROVE InStep'
    <2>1. UNCHANGED <<worker, merged, graph>> /\ Queued' # {}
      BY <1>5, Published
    <2> QED
      BY <1>0, <2>1 DEF Drained, InStep
  <1>6. ASSUME \/ \E d \in Docs : IndexDocument(d) \/ DeleteDocument(d)
               \/ \E e \in Events : PublishFails(e)
        PROVE  InStep'
    <2>1. UNCHANGED <<worker, column, merged, graph>>
      BY <1>6 DEF IndexDocument, DeleteDocument, Announce, PublishFails, row
    <2>2. Drained' <=> Drained
      BY <2>1 DEF Drained, Queued, In, Busy
    <2> QED
      BY <1>0, <2>1, <2>2 DEF InStep
  <1> QED
    BY <1>1, <1>2, <1>3, <1>4, <1>5, <1>6, HealthySteps

\* A later merge, a deletion of other documents or an ack loses no document.
LEMMA KeptStep ==
    ASSUME Types, MergedFirst, HoldersBeat, Requested, Ordered, Frozen, Indexed, Held, Projected,
           Kept, [Next]_vars
    PROVE  Kept'
  <1> SUFFICES ASSUME faults' = 0, NEW i \in 1..published', NEW d \in Docs \ removed',
                      event'[i] = <<d, "completed">>
               PROVE  /\ d \in merged' \/ i \in Queued'
                      /\ \A w \in Workers : i \in worker'[w].batch =>
                            /\ worker'[w].pc = "write" => d \in worker'[w].loaded
                            /\ worker'[w].pc \in {"project", "insert", "ack"} => d \in merged'
    BY DEF Kept
  <1> DEFINE Good == /\ d \in merged' \/ i \in Queued'
                     /\ \A w \in Workers : i \in worker'[w].batch =>
                            /\ worker'[w].pc = "write" => d \in worker'[w].loaded
                            /\ worker'[w].pc \in {"project", "insert", "ack"} => d \in merged'
  <1> USE DEF history, log, engine
  <1>0. /\ TypeOK /\ faults = 0 /\ \A j \in 1..published : j \in Ids
        /\ \A w \in Workers : worker[w].batch \subseteq 1..published
    BY HealthySteps, QueuedPublished DEF Types, MergedFirst
  <1>00. ASSUME UNCHANGED <<published, event>>, removed \subseteq removed'
         PROVE  /\ i \in 1..published /\ d \notin removed /\ event[i] = <<d, "completed">>
                /\ d \in merged \/ i \in Queued
                /\ \A w \in Workers : i \in worker[w].batch =>
                      /\ worker[w].pc = "write" => d \in worker[w].loaded
                      /\ worker[w].pc \in {"project", "insert", "ack"} => d \in merged
    BY <1>0, <1>00 DEF Kept
  <1>1. CASE Idles
    <2>1. /\ UNCHANGED <<published, event, merged, removed>>
          /\ \A w \in Workers : worker'[w].pc \notin {"idle", "reclaim"} =>
                /\ worker'[w].pc = worker[w].pc /\ worker'[w].loaded = worker[w].loaded
                /\ worker'[w].batch = worker[w].batch
          /\ Queued' = Queued
      BY <1>1 DEF Idles, Alike, NoClaim, Queued, In
    <2> QED
      BY <1>00, <2>1
  <1>2. ASSUME NEW w \in Workers, Claim(w) \/ (Reclaim(w) /\ worker'[w] # NoClaim) PROVE Good
    <2>1. /\ \A v \in Workers : ~Busy(v)
          /\ \A v \in Workers \ {w} : worker'[v] = worker[v]
          /\ worker'[w].pc \in {"drop", "load"}
          /\ UNCHANGED <<published, event, removed, merged>> /\ Queued' = Queued
      BY <1>0, <1>2, HealthyTake
    <2> QED
      BY <1>00, <2>1 DEF Busy
  <1>3. ASSUME NEW w \in Workers, Stage(w), Busy(w),
               \/ DropStage(w) \/ StripStage(w) \/ LoadStage(w)
               \/ WriteStage(w) \/ ProjectStage(w) \/ InsertStage(w)
        PROVE  Good
    <2>1. /\ \A v \in Workers \ {w} : worker'[v] = worker[v] /\ worker[v].pc \in {"idle", "reclaim"}
          /\ worker'[w].batch = worker[w].batch
          /\ UNCHANGED <<published, event, removed>> /\ Queued' = Queued
      BY <1>0, <1>3, Alone DEF Stage, Queued, In
    <2>2. /\ i \in 1..published /\ d \notin removed /\ event[i] = <<d, "completed">>
          /\ d \in merged \/ i \in Queued
          /\ i \in worker[w].batch =>
               /\ worker[w].pc = "write" => d \in worker[w].loaded
               /\ worker[w].pc \in {"project", "insert", "ack"} => d \in merged
      BY <1>00, <2>1
    <2>3. CASE DropStage(w) \/ ProjectStage(w) \/ InsertStage(w)
      BY <2>1, <2>2, <2>3 DEF DropStage, ProjectStage, InsertStage
    <2>4. CASE StripStage(w)
      <3>1. d \notin worker[w].drop
        BY <1>0, <2>2 DEF Frozen, Requested
      <3> QED
        BY <2>1, <2>2, <2>4, <3>1 DEF StripStage
    <2>5. CASE LoadStage(w)
      <3>1. i \in worker[w].batch => d \in worker[w].merge /\ d \in products
        BY <2>2 DEF Frozen, Indexed
      <3> QED
        BY <2>1, <2>2, <2>5, <3>1 DEF LoadStage
    <2>6. CASE WriteStage(w)
      <3>1. worker[w].loaded # {} => worker[w].seen = merged
        BY <1>0, <2>6 DEF Projected, InStep, WriteStage
      <3>2. merged \subseteq merged' /\ worker[w].loaded \subseteq merged'
        BY <2>6, <3>1 DEF WriteStage
      <3> QED
        BY <2>1, <2>2, <2>6, <3>2 DEF WriteStage
    <2> QED
      BY <1>3, <2>3, <2>4, <2>5, <2>6
  <1>4. ASSUME NEW w \in Workers, Ack(w), TokenMatches(w), Busy(w) PROVE Good
    <2>1. /\ worker' = [worker EXCEPT ![w] = NoClaim] /\ worker[w].pc = "ack"
          /\ UNCHANGED <<published, event, removed, merged>>
          /\ \A j \in Ids : column'[j] # "acked" => column'[j] = column[j]
          /\ \A j \in Ids : column'[j] = "acked" =>
                 column[j] = "acked" \/ \E k \in worker[w].batch : event[j] = event[k]
      BY <1>0, <1>4, Acked
    <2>2. \A v \in Workers : worker'[v].pc \in {"idle", "reclaim"}
      BY <1>0, <1>4, <2>1, Alone DEF TypeOK, NoClaim
    <2>3. /\ i \in 1..published /\ i \in Ids /\ d \in Docs \ removed /\ event[i] = <<d, "completed">>
          /\ d \in merged \/ i \in Queued
      BY <1>0, <1>00, <2>1
    <2>4. ASSUME i \in Queued, i \notin Queued' PROVE d \in merged
      <3>1. column'[i] = "acked" /\ column[i] # "acked"
        BY <2>1, <2>3, <2>4 DEF Queued, In
      <3>2. PICK k \in worker[w].batch : event[i] = event[k]
        BY <2>1, <2>3, <3>1
      <3>3. k \in 1..published /\ event[k] = <<d, "completed">>
        BY <1>0, <2>3, <3>2
      <3> QED
        BY <1>0, <2>1, <2>3, <3>2, <3>3 DEF Kept
    <2> QED
      BY <2>1, <2>2, <2>3, <2>4
  <1>5. ASSUME NEW e \in Events, Publish(e) PROVE Good
    <2>1. /\ 1..published' = 1..published \cup {published + 1}
          /\ published + 1 \notin 1..published
          /\ \A j \in 1..published : event'[j] = event[j]
          /\ Queued' = Queued \cup {published + 1}
          /\ UNCHANGED <<worker, merged, removed>>
      BY <1>5, Published
    <2>2. CASE i = published + 1
      <3>1. \A w \in Workers : i \notin worker'[w].batch
        BY <1>0, <2>1, <2>2
      <3> QED
        BY <2>1, <2>2, <3>1
    <2>3. CASE i \in 1..published
      BY <1>0, <2>1, <2>3 DEF Kept
    <2> QED
      BY <2>1, <2>2, <2>3
  <1>6. ASSUME \/ \E x \in Docs : IndexDocument(x) \/ DeleteDocument(x)
               \/ \E e \in Events : PublishFails(e)
        PROVE  Good
    <2>1. UNCHANGED <<worker, column, published, event, merged>> /\ removed \subseteq removed'
      BY <1>6 DEF IndexDocument, DeleteDocument, Announce, PublishFails, row
    <2> QED
      BY <1>00, <2>1 DEF Queued, In
  <1> QED
    BY <1>1, <1>2, <1>3, <1>4, <1>5, <1>6, HealthySteps

\* No later merge brings a deleted document back.
LEMMA ForgottenStep ==
    ASSUME Types, MergedFirst, HoldersBeat, Requested, Requested', Ordered, Frozen, Held, Projected,
           Forgotten, [Next]_vars
    PROVE  Forgotten'
  <1> SUFFICES ASSUME faults' = 0, ~reordered', NEW i \in 1..published', NEW d \in Docs \ products',
                      event'[i] = <<d, "deleted">>, Last(i)', Stripped(i)'
               PROVE  /\ d \notin merged'
                      /\ \A w \in Workers : worker'[w].pc = "write" => d \notin worker'[w].loaded
    BY DEF Forgotten
  <1> DEFINE Good == /\ d \notin merged'
                     /\ \A w \in Workers : worker'[w].pc = "write" => d \notin worker'[w].loaded
  <1> USE DEF history, log, engine
  <1>0. /\ TypeOK /\ faults = 0 /\ \A j \in 1..published : j \in Ids
        /\ \A w \in Workers : worker[w].batch \subseteq 1..published
    BY HealthySteps, QueuedPublished DEF Types, MergedFirst
  <1>00. ASSUME UNCHANGED <<published, event>> PROVE i \in 1..published /\ event[i] = <<d, "deleted">> /\ Last(i)
    BY <1>00 DEF Last
  <1>000. ASSUME UNCHANGED <<published, event>>, ~reordered, d \notin products, Stripped(i)
          PROVE  /\ d \notin merged
                 /\ \A w \in Workers : worker[w].pc = "write" => d \notin worker[w].loaded
    BY <1>0, <1>00, <1>000 DEF Forgotten
  <1>1. CASE Idles
    <2>1. /\ UNCHANGED <<published, event, merged, products, reordered>>
          /\ \A j : column'[j] = column[j]
          /\ \A w \in Workers : worker'[w].pc \notin {"idle", "reclaim"} =>
                /\ worker'[w].pc = worker[w].pc /\ worker'[w].loaded = worker[w].loaded
                /\ worker'[w].batch = worker[w].batch
          /\ \A w \in Workers : i \in worker'[w].batch =>
                /\ i \in worker[w].batch
                /\ worker'[w].pc \in {"drop", "strip"} <=> worker[w].pc \in {"drop", "strip"}
      BY <1>1 DEF Idles, Alike, NoClaim
    <2>2. Stripped(i)
      BY <2>1 DEF Stripped
    <2> QED
      BY <1>000, <2>1, <2>2
  <1>2. ASSUME NEW w \in Workers, Claim(w) \/ (Reclaim(w) /\ worker'[w] # NoClaim) PROVE Good
    <2>1. /\ \A v \in Workers : ~Busy(v)
          /\ \A v \in Workers \ {w} : worker'[v] = worker[v]
          /\ worker'[w].pc = IF worker'[w].drop # {} THEN "drop" ELSE "load"
          /\ \A j \in worker'[w].batch, x \in Docs :
                 event[j] = <<x, "deleted">> /\ Last(j) /\ ~reordered' => x \in worker'[w].drop
          /\ \A j \in Ids : column'[j] = "acked" <=> column[j] = "acked"
          /\ UNCHANGED <<published, event, products, merged>>
          /\ ~reordered
      BY <1>0, <1>2, HealthyTake
    <2>2. i \in worker'[w].batch => worker'[w].pc = "drop"
      BY <1>00, <2>1
    <2>3. \A v \in Workers \ {w} : i \notin worker'[v].batch /\ worker'[v].pc \in {"idle", "reclaim"}
      BY <1>0, <2>1 DEF TypeOK, Busy
    <2>4. Stripped(i)
      BY <1>0, <1>00, <2>1, <2>2, <2>3 DEF Stripped
    <2> QED
      BY <1>000, <2>1, <2>3, <2>4
  <1>3. ASSUME NEW w \in Workers, Stage(w), Busy(w),
               \/ DropStage(w) \/ StripStage(w) \/ LoadStage(w)
               \/ WriteStage(w) \/ ProjectStage(w) \/ InsertStage(w)
        PROVE  Good
    <2>1. /\ \A v \in Workers \ {w} : worker'[v] = worker[v] /\ worker[v].pc \in {"idle", "reclaim"}
          /\ \A v \in Workers \ {w} : worker[v].batch = {}
          /\ worker'[w].batch = worker[w].batch
          /\ UNCHANGED <<published, event, reordered, column>>
      BY <1>0, <1>3, Alone DEF Stage
    <2>2. i \in 1..published /\ event[i] = <<d, "deleted">> /\ Last(i) /\ i \in Ids
      BY <1>0, <1>00, <2>1
    <2>3. i \in worker[w].batch => d \in worker[w].drop /\ d \notin worker[w].merge
      BY <2>1, <2>2 DEF Frozen
    <2>4. d \in worker[w].drop => i \in worker[w].batch
      BY <1>0, <2>2 DEF Frozen, Requested
    <2>5. i \in worker[w].batch => column[i] = "inflight"
      BY <1>0, <1>3 DEF Held, In
    <2>6. i \in worker[w].batch => worker'[w].pc \notin {"drop", "strip"}
      BY <2>1, <2>5 DEF Stripped
    <2>7. i \notin worker[w].batch => Stripped(i)
      BY <2>1 DEF Stripped
    <2>8. worker[w].loaded \subseteq worker[w].merge
      BY DEF Frozen
    <2>9. CASE DropStage(w)
      <3>1. i \notin worker[w].batch /\ d \notin worker[w].drop
        BY <2>4, <2>6, <2>9 DEF DropStage
      <3> QED
        BY <1>000, <2>1, <2>7, <2>9, <3>1 DEF DropStage
    <2>10. CASE StripStage(w)
      <3>1. CASE d \in worker[w].drop
        BY <2>1, <2>10, <3>1 DEF StripStage
      <3>2. CASE d \notin worker[w].drop
        BY <1>000, <2>1, <2>3, <2>7, <2>10, <3>2 DEF StripStage
      <3> QED
        BY <3>1, <3>2
    <2>11. CASE LoadStage(w) \/ WriteStage(w) \/ ProjectStage(w) \/ InsertStage(w)
      <3>1. Stripped(i) /\ products' = products
        BY <2>7, <2>11 DEF Stripped, LoadStage, WriteStage, ProjectStage, InsertStage
      <3>2. /\ d \notin merged /\ d \notin products
            /\ \A v \in Workers : worker[v].pc = "write" => d \notin worker[v].loaded
        BY <1>000, <2>1, <3>1
      <3>3. CASE LoadStage(w)
        BY <2>1, <3>2, <3>3 DEF LoadStage
      <3>4. CASE WriteStage(w)
        <4>1. worker[w].loaded # {} => worker[w].seen = merged
          BY <1>0, <3>4 DEF Projected, InStep, WriteStage
        <4> QED
          BY <2>1, <3>2, <3>4, <4>1 DEF WriteStage
      <3>5. CASE ProjectStage(w) \/ InsertStage(w)
        BY <2>1, <3>2, <3>5 DEF ProjectStage, InsertStage
      <3> QED
        BY <2>11, <3>3, <3>4, <3>5
    <2> QED
      BY <1>3, <2>9, <2>10, <2>11
  <1>4. ASSUME NEW w \in Workers, Ack(w), TokenMatches(w), Busy(w) PROVE Good
    <2>1. /\ worker' = [worker EXCEPT ![w] = NoClaim] /\ worker[w].pc = "ack"
          /\ UNCHANGED <<published, event, products, merged, reordered>>
          /\ \A j \in Ids : column'[j] = "acked" =>
                 column[j] = "acked" \/ \E k \in worker[w].batch : event[j] = event[k]
      BY <1>0, <1>4, Acked
    <2>2. \A v \in Workers : worker'[v].pc \in {"idle", "reclaim"} /\ i \notin worker'[v].batch
      BY <1>0, <1>4, <2>1, Alone DEF TypeOK, NoClaim
    <2>3. i \in 1..published /\ i \in Ids /\ event[i] = <<d, "deleted">>
      BY <1>0, <1>00, <2>1
    <2>4. Stripped(i)
      <3>1. column'[i] = "acked"
        BY <2>2 DEF Stripped
      <3>2. CASE column[i] = "acked"
        BY <3>2 DEF Stripped
      <3>3. CASE \E k \in worker[w].batch : event[i] = event[k]
        <4>1. PICK k \in worker[w].batch : event[i] = event[k]
          BY <3>3
        <4>2. k = i
          BY <1>0, <2>3, <4>1 DEF Requested
        <4> QED
          BY <2>1, <4>1, <4>2 DEF Stripped
      <3> QED
        BY <2>1, <2>3, <3>1, <3>2, <3>3
    <2> QED
      BY <1>000, <2>1, <2>2, <2>4
  <1>5. ASSUME NEW e \in Events, Publish(e) PROVE Good
    <2>1. /\ 1..published' = 1..published \cup {published + 1}
          /\ published + 1 \notin 1..published
          /\ event'[published + 1] = e
          /\ \A j \in 1..published : event'[j] = event[j] /\ column'[j] = column[j]
          /\ column'[published + 1] = "backlog"
          /\ UNCHANGED <<worker, merged, products, reordered>>
      BY <1>5, Published
    <2>2. i # published + 1
      BY <1>0, <2>1 DEF Stripped
    <2>3. i \in 1..published /\ event[i] = <<d, "deleted">>
      BY <2>1, <2>2
    <2>4. Last(i)
      BY <2>1, <2>3 DEF Last
    <2>5. Stripped(i)
      BY <2>1, <2>3 DEF Stripped
    <2> QED
      BY <1>0, <2>1, <2>3, <2>4, <2>5 DEF Forgotten
  <1>6. ASSUME \/ \E x \in Docs : IndexDocument(x) \/ DeleteDocument(x)
               \/ \E e \in Events : PublishFails(e)
        PROVE  Good
    <2>1. UNCHANGED <<worker, column, published, event, merged, reordered>>
      BY <1>6 DEF IndexDocument, DeleteDocument, Announce, PublishFails, row
    <2>2. d \in removed
      BY <1>00, <2>1 DEF Requested
    <2>3. d \notin products
      BY <1>6, <2>2 DEF IndexDocument, DeleteDocument, PublishFails
    <2>4. Stripped(i)
      BY <2>1 DEF Stripped
    <2> QED
      BY <1>000, <2>1, <2>3, <2>4
  <1> QED
    BY <1>1, <1>2, <1>3, <1>4, <1>5, <1>6, HealthySteps

\* The invariant that shows it.
ContentInv ==
    /\ Types /\ MergedFirst /\ HoldersBeat
    /\ Requested /\ Ordered /\ Frozen /\ Indexed
    /\ Held /\ Projected /\ Kept /\ Forgotten

\* A dataset begins with nothing queued and nothing stored.
LEMMA ContentInit == Init => ContentInv
  <1> SUFFICES ASSUME Init PROVE ContentInv
    OBVIOUS
  <1>1. Types
    BY InitTypes, RoomInit DEF Types
  <1>2. /\ published = 0 /\ 1..published = {} /\ pending = {} /\ before = {} /\ faults = 0
        /\ \A w \in Workers : worker[w] = NoClaim
        /\ merged = {} /\ graph = {}
        /\ Queued = {}
    BY DEF Init, Queued, In
  <1>3. MergedFirst /\ HoldersBeat
    BY <1>2 DEF Init, MergedFirst, HoldersBeat, Busy, NoClaim
  <1>4. Requested /\ Indexed
    BY <1>2 DEF Requested, Indexed
  <1>5. Ordered
    BY <1>2 DEF Ordered, StrictOn
  <1>6. Frozen /\ Held /\ Projected
    BY <1>2 DEF Frozen, Held, Projected, InStep, NoClaim, Busy
  <1>7. Kept /\ Forgotten
    BY <1>2 DEF Kept, Forgotten
  <1> QED
    BY <1>1, <1>3, <1>4, <1>5, <1>6, <1>7 DEF ContentInv

\* Every step keeps the invariant.
LEMMA ContentStep == ContentInv /\ [Next]_vars => ContentInv'
  <1> SUFFICES ASSUME ContentInv, [Next]_vars PROVE ContentInv'
    OBVIOUS
  <1>1. Types /\ MergedFirst /\ HoldersBeat /\ Requested /\ Ordered /\ Frozen /\ Indexed
        /\ Held /\ Projected /\ Kept /\ Forgotten
    BY DEF ContentInv
  <1>2. Types'
    BY <1>1, NextTypes, RoomStep, UnusedStep DEF Types
  <1>3. MergedFirst' /\ HoldersBeat'
    BY <1>1, MergedFirstStep, HoldersBeatStep
  <1>4. Requested' /\ Ordered' /\ Indexed'
    BY <1>1, RequestedStep, OrderedStep, IndexedStep
  <1>5. Frozen' /\ Held' /\ Projected'
    BY <1>1, <1>4, FrozenStep, HeldStep, ProjectedStep
  <1>6. Kept' /\ Forgotten'
    BY <1>1, <1>4, KeptStep, ForgottenStep
  <1> QED
    BY <1>2, <1>3, <1>4, <1>5, <1>6 DEF ContentInv

\* With nothing queued and nobody working, nothing is owed.
LEMMA ContentMeansConsistent == ContentInv => DrainedIsConsistent
  <1> SUFFICES ASSUME ContentInv, faults = 0, Drained
               PROVE  /\ ~reordered =>
                           \A d \in Docs \ products : LastEvent(d, "deleted") => d \notin merged
                      /\ \A d \in products \ removed : LastEvent(d, "completed") => d \in merged
                      /\ graph = merged
    BY DEF DrainedIsConsistent
  <1>0. Types
    BY DEF ContentInv
  <1>1. graph = merged
    BY DEF ContentInv, Projected, InStep
  <1>2. ASSUME NEW d \in products \ removed, LastEvent(d, "completed") PROVE d \in merged
    <2>1. PICK i \in 1..published : event[i] = <<d, "completed">>
      BY <1>2 DEF LastEvent, EventsOf
    <2>2. d \in Docs \ removed
      BY <1>0, <1>2 DEF Types, TypeOK
    <2>3. i \notin Queued
      BY DEF Drained
    <2> QED
      BY <2>1, <2>2, <2>3 DEF ContentInv, Kept
  <1>3. ASSUME ~reordered, NEW d \in Docs \ products, LastEvent(d, "deleted") PROVE d \notin merged
    <2>1. PICK i \in 1..published : /\ event[i] = <<d, "deleted">>
                                    /\ \A j \in EventsOf(d) : j <= i
      BY <1>3 DEF LastEvent, EventsOf
    <2>2. Last(i)
      BY <2>1 DEF Last, EventsOf
    <2>3. Stripped(i)
      BY <1>0, QueuedPublished DEF Drained, Stripped
    <2> QED
      BY <1>3, <2>1, <2>2, <2>3 DEF ContentInv, Forgotten
  <1> QED
    BY <1>1, <1>2, <1>3

\* When a dataset's row is drained after any number of crashes, failed batches
\* and reclaims, but no lease lost under its holder, the engine holds what the
\* last events say (scheduler.go:57), for every number of documents, workers and
\* events and every batch size.
THEOREM DrainedContent == Spec => []DrainedIsConsistent
  <1>1. Spec => []ContentInv
    BY ContentInit, ContentStep, PTL DEF Spec
  <1> QED
    BY <1>1, ContentMeansConsistent, PTL

===============================================================================
