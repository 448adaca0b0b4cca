-------------------------- MODULE KnowledgeCompile --------------------------
(***************************************************************************)
(* Dataset-level knowledge compile (ragflow/internal/ingestion/            *)
(* knowledge_compile): publishers append document events to one dataset's  *)
(* scheduling row, competing workers move a closed batch from the backlog  *)
(* to inflight under a lease, fold it into the merged products of the      *)
(* search engine, and acknowledge it.                                      *)
(*                                                                         *)
(* One dataset: rows of different datasets share nothing but a worker's    *)
(* choice of the next one.  The two JSON columns are kept as the column    *)
(* each entry is in and the append order of the entries, `before`.  A      *)
(* claim token is the worker that drew it: a worker has one claim at a     *)
(* time and a later claim replaces the token.  The products abstract one   *)
(* concept that every document mentions: `merged` are the source_doc_ids   *)
(* of its dataset-level row, {} when there is no row.                      *)
(***************************************************************************)
EXTENDS Integers, FiniteSets

CONSTANTS
    Docs, Workers,
    BatchMax,      \* claimBatchSize (32 in the code)
    MaxEvents,     \* bound: events ever published
    MaxTroubles,   \* bound: batches that fail, shutdowns and crashes (abandons),
                   \* heartbeats that fail and leases outlived (faults)
    Nobody

ASSUME KnowledgeCompileAssumption ==
    /\ BatchMax \in Nat \ {0}
    /\ MaxEvents \in Nat /\ MaxTroubles \in Nat
    /\ Nobody \notin Workers
    /\ Docs # {}

VARIABLES
    published,  \* how many events were published; entries are 1..published
    event,      \* entry -> <<document, event type>>
    column,     \* entry -> "backlog", "inflight" or "acked" ("none": unused)
    before,     \* pairs of queued entries, the first ahead of the second
    owner,      \* claim_token: the worker whose claim is recorded, or Nobody
    expired,    \* claim_expires_at has passed
    state,      \* idle, pending, running or completed
    errorMsg,   \* the row shows an error
    worker,     \* what each worker is doing
    products,   \* documents whose doc-level products are in the engine
    merged,     \* source documents of the merged row
    graph,      \* source documents of the projected wiki graph
    pending,    \* events a publisher is about to publish
    applied,    \* history: entries whose batch was merged without an error
    removed,    \* history: documents whose deletion was requested
    reordered,  \* history: a reclaim put entries behind newer ones
    faults, abandons

row     == <<column, before, owner, expired, state, errorMsg>>
engine  == <<products, merged, graph>>
log     == <<published, event, pending>>
history == <<applied, removed, reordered, faults, abandons>>
vars    == <<log, row, worker, engine, history>>

Ids    == 1..MaxEvents
Events == Docs \X {"completed", "deleted"}

(* What a worker holds: the frozen batch, the documents whose last event in *)
(* it is a deletion or a completion, the products it loaded, the rows its   *)
(* last search returned, and its heartbeat goroutine.                       *)
NoClaim == [pc |-> "idle", batch |-> {}, drop |-> {}, merge |-> {},
            loaded |-> {}, seen |-> {}, beat |-> "off"]
Busy(w)  == worker[w].pc \notin {"idle", "reclaim"}
In(c)    == {i \in Ids : column[i] = c}

(* Mutant: a live lease is not refused.                                     *)
LeaseIgnored == FALSE

LiveLease == owner # Nobody /\ ~expired

Init ==
    /\ published = 0 /\ event = [i \in Ids |-> CHOOSE e \in Events : TRUE]
    /\ column = [i \in Ids |-> "none"] /\ before = {}
    /\ owner = Nobody /\ expired = FALSE /\ state = "idle" /\ errorMsg = FALSE
    /\ worker = [w \in Workers |-> NoClaim]
    /\ products = {} /\ merged = {} /\ graph = {} /\ pending = {}
    /\ applied = {} /\ removed = {} /\ reordered = FALSE
    /\ faults = 0 /\ abandons = 0
-----------------------------------------------------------------------------
(* Publishers.  The pipeline writes a document's products and then          *)
(* publishes; a document's deletion, which happens once, removes them (a    *)
(* failure is only logged) and then publishes.  Either publication may      *)
(* fail, and a pipeline that still runs may finish after the deletion.      *)
Announce(e) ==
    /\ published + Cardinality(pending) < MaxEvents
    /\ e \notin pending
    /\ pending' = pending \cup {e}
    /\ UNCHANGED <<published, event, row, worker, merged, graph, applied,
                   reordered, faults, abandons>>

IndexDocument(d) ==
    /\ products' = products \cup {d} /\ UNCHANGED removed
    /\ Announce(<<d, "completed">>)

DeleteDocument(d) ==
    /\ d \notin removed
    /\ \/ products' = products \ {d}
       \/ UNCHANGED products
    /\ removed' = removed \cup {d}
    /\ Announce(<<d, "deleted">>)

Publish(e) ==
    /\ e \in pending
    /\ LET new == published + 1 IN
       /\ published' = new
       /\ event' = [event EXCEPT ![new] = e]
       /\ column' = [column EXCEPT ![new] = "backlog"]
       /\ before' = before \cup ((In("backlog") \cup In("inflight")) \X {new})
    /\ pending' = pending \ {e}
    /\ state' = IF state = "running" THEN state ELSE "pending"
    /\ UNCHANGED <<owner, expired, errorMsg, worker, engine, history>>

PublishFails(e) ==
    /\ e \in pending
    /\ pending' = pending \ {e}
    /\ UNCHANGED <<published, event, row, worker, engine, history>>
-----------------------------------------------------------------------------
(* Claiming.                                                                *)

FirstOf(backlog, order) ==
    {i \in backlog :
        Cardinality({j \in backlog : <<j, i>> \in order}) < BatchMax}

(* The documents of a batch whose last event, by append order, is of type t. *)
LastIs(t, batch, order) ==
    {d \in Docs : \E i \in batch :
        /\ event[i] = <<d, t>>
        /\ \A j \in batch : event[j][1] = d => <<i, j>> \notin order}

(* claimRow on a row whose backlog and order are the ones given: the batch  *)
(* moves to inflight, whose other entries stay.                             *)
TakeBatch(w, backlog, order) ==
    LET batch == FirstOf(backlog, order)
        drop  == LastIs("deleted", batch, order) IN
    /\ batch # {}
    /\ column' = [i \in Ids |->
                    CASE i \in batch   -> "inflight"
                      [] i \in backlog \ batch -> "backlog"
                      [] OTHER -> column[i]]
    /\ before' = order
    /\ owner' = w /\ expired' = FALSE
    /\ state' = "running" /\ errorMsg' = FALSE
    /\ worker' = [worker EXCEPT ![w] =
                    [pc     |-> IF drop # {} THEN "drop" ELSE "load",
                     batch  |-> batch, drop |-> drop,
                     merge  |-> LastIs("completed", batch, order),
                     loaded |-> {}, seen |-> {}, beat |-> "on"]]
    /\ UNCHANGED <<log, engine, applied, removed, faults, abandons>>

(* Claim after a notification, or the first branch of TryClaim at a poll.   *)
Claim(w) ==
    /\ worker[w].pc = "idle"
    /\ ~LiveLease
    /\ TakeBatch(w, In("backlog"), before)
    /\ UNCHANGED reordered

(* Mutant: rows that are RUNNING are left to their worker.                  *)
FindExpiredPending(w) ==
    /\ worker[w].pc = "idle"
    /\ ~LiveLease /\ In("backlog") = {} /\ In("inflight") # {}
    /\ state # "running"
    /\ worker' = [worker EXCEPT ![w].pc = "reclaim"]
    /\ UNCHANGED <<log, row, engine, history>>

(* The second branch of TryClaim: no row is ready, one has expired inflight *)
(* entries.  It is locked, and looked at again, in a later statement.       *)
FindExpired(w) ==
    /\ worker[w].pc = "idle"
    /\ ~LiveLease /\ In("backlog") = {} /\ In("inflight") # {}
    /\ worker' = [worker EXCEPT ![w].pc = "reclaim"]
    /\ UNCHANGED <<log, row, engine, history>>

Reclaim(w) ==
    /\ worker[w].pc = "reclaim"
    /\ LET inflight == In("inflight")
           backlog  == In("backlog") IN
       IF ~LiveLease /\ inflight # {}
       THEN /\ TakeBatch(w, backlog \cup inflight,
                         (before \ (inflight \X backlog)) \cup (backlog \X inflight))
            /\ reordered' = (reordered \/ backlog # {})
       ELSE /\ worker' = [worker EXCEPT ![w] = NoClaim]
            /\ UNCHANGED <<log, row, engine, history>>
-----------------------------------------------------------------------------
(* processBatch: deletions, then the merge, then the graph.                 *)
Step(w, from, to) ==
    /\ worker[w].pc = from
    /\ worker' = [worker EXCEPT ![w].pc = to]
    /\ UNCHANGED <<log, row, history>>

DeleteDocLevel(w) ==
    /\ Step(w, "drop", "strip")
    /\ products' = products \ worker[w].drop
    /\ UNCHANGED <<merged, graph>>

(* Mutant: a row that would lose its last source is left alone.             *)
StripSurvivors(w) ==
    /\ Step(w, "strip", "load")
    /\ merged' = IF merged \subseteq worker[w].drop THEN merged
                 ELSE merged \ worker[w].drop
    /\ UNCHANGED <<products, graph>>

(* The row is rewritten without the deleted sources, and deleted when none  *)
(* is left.                                                                 *)
StripMergedSources(w) ==
    /\ Step(w, "strip", "load")
    /\ merged' = merged \ worker[w].drop
    /\ UNCHANGED <<products, graph>>

(* LoadDocProducts of every completed document, then SearchSimilar for the  *)
(* row they match.                                                          *)
LoadAndSearch(w) ==
    /\ worker[w].pc = "load"
    /\ LET loaded == worker[w].merge \cap products IN
       worker' = [worker EXCEPT ![w].pc = "write", ![w].loaded = loaded,
                    ![w].seen = IF loaded = {} THEN {} ELSE merged]
    /\ UNCHANGED <<log, row, engine, history>>

(* The candidates are folded into the row found, whose sources are united   *)
(* with theirs; the upsert replaces the row by that result.                 *)
WriteMerged(w) ==
    /\ Step(w, "write", "project")
    /\ merged' = IF worker[w].loaded = {} THEN merged
                 ELSE worker[w].seen \cup worker[w].loaded
    /\ UNCHANGED <<products, graph>>

(* ProjectWikiGraph: read the merged pages and drop the old graph ...       *)
DropWikiGraph(w) ==
    /\ worker[w].pc = "project"
    /\ worker' = [worker EXCEPT ![w].pc = "insert", ![w].seen = merged]
    /\ graph' = {}
    /\ UNCHANGED <<log, row, products, merged, history>>

(* ... then insert the new one.  A worker whose heartbeat failed on the way *)
(* returns without an ack; the others go on to Ack.                         *)
InsertWikiGraph(w) ==
    /\ worker[w].pc = "insert"
    /\ graph' = worker[w].seen
    /\ applied' = applied \cup worker[w].batch
    /\ worker' = [worker EXCEPT ![w] =
                    IF @.beat = "failed" THEN NoClaim ELSE [@ EXCEPT !.pc = "ack"]]
    /\ UNCHANGED <<log, row, products, merged, removed, reordered, faults, abandons>>

(* Mutants: a stale token is accepted; the whole inflight column is         *)
(* cleared; the backlog is not looked at.                                   *)
AnyToken(w)          == TRUE
RemoveAll(batch)     == In("inflight")
AlwaysCompleted      == "completed"

TokenMatches(w) == owner = w

(* removeEntries drops by value: an equal older entry goes with the batch.  *)
RemoveEntries(batch) ==
    {i \in In("inflight") : \E j \in batch : event[i] = event[j]}

LeaseAfterAck(gone) == IF In("inflight") = gone THEN Nobody ELSE owner

StateAfterAck == IF In("backlog") # {} THEN "pending" ELSE "completed"

(* Nothing happens unless the token is still the row's.                     *)
Ack(w) ==
    /\ worker[w].pc = "ack"
    /\ IF ~TokenMatches(w) THEN UNCHANGED row
       ELSE LET gone == RemoveEntries(worker[w].batch) IN
            /\ column' = [i \in Ids |-> IF i \in gone THEN "acked" ELSE column[i]]
            /\ before' = {p \in before : p[1] \notin gone /\ p[2] \notin gone}
            /\ owner' = LeaseAfterAck(gone)
            /\ expired' = (expired /\ owner' # Nobody)
            /\ state' = StateAfterAck
            /\ UNCHANGED errorMsg
    /\ worker' = [worker EXCEPT ![w] = NoClaim]
    /\ UNCHANGED <<log, engine, history>>

(* A read or write of the batch fails, the process shuts down or crashes:   *)
(* no ack, the lease is left to expire.  A failed batch is recorded on the  *)
(* row if the token is still the row's; a failed ack is only logged.        *)
Abandon(w) ==
    /\ Busy(w)
    /\ faults + abandons < MaxTroubles
    /\ abandons' = abandons + 1
    /\ \/ UNCHANGED errorMsg
       \/ worker[w].pc # "ack" /\ worker[w].beat = "on" /\ owner = w /\ errorMsg' = TRUE
    /\ worker' = [worker EXCEPT ![w] = NoClaim]
    /\ UNCHANGED <<log, column, before, owner, expired, state, engine,
                   applied, removed, reordered, faults>>

-----------------------------------------------------------------------------
(* The lease.  TouchClaim renews it by token alone, expired or not; the     *)
(* first touch that fails, or finds another token, ends the heartbeat while *)
(* the batch goes on.                                                       *)
Touch(w) ==
    /\ Busy(w) /\ worker[w].beat = "on"
    /\ IF owner = w THEN expired /\ expired' = FALSE /\ UNCHANGED worker
       ELSE UNCHANGED expired /\ worker' = [worker EXCEPT ![w].beat = "failed"]
    /\ UNCHANGED <<log, column, before, owner, state, errorMsg, engine, history>>

TouchFails(w) ==
    /\ Busy(w) /\ worker[w].pc # "ack" /\ worker[w].beat = "on"
    /\ faults + abandons < MaxTroubles
    /\ faults' = faults + 1
    /\ worker' = [worker EXCEPT ![w].beat = "failed"]
    /\ UNCHANGED <<log, row, engine, applied, removed, reordered, abandons>>

Beating == \E w \in Workers : owner = w /\ Busy(w) /\ worker[w].beat = "on"

(* Nobody renews the lease any more.                                        *)
LeaseExpires ==
    /\ LiveLease /\ ~Beating
    /\ expired' = TRUE
    /\ UNCHANGED <<log, column, before, owner, state, errorMsg, worker, engine,
                   history>>

(* The holder beats, but is suspended for longer than the lease lasts.      *)
LeaseOutlived ==
    /\ LiveLease /\ Beating
    /\ faults + abandons < MaxTroubles
    /\ faults' = faults + 1
    /\ expired' = TRUE
    /\ UNCHANGED <<log, column, before, owner, state, errorMsg, worker, engine,
                   applied, removed, reordered, abandons>>

Process(w) ==
    \/ DeleteDocLevel(w) \/ StripMergedSources(w) \/ LoadAndSearch(w)
    \/ WriteMerged(w) \/ DropWikiGraph(w) \/ InsertWikiGraph(w) \/ Ack(w)

Poll(w) == Claim(w) \/ FindExpired(w) \/ Reclaim(w)

Run(w) == Poll(w) \/ Process(w)

Next ==
    \/ \E d \in Docs : IndexDocument(d) \/ DeleteDocument(d)
    \/ \E e \in Events : Publish(e) \/ PublishFails(e)
    \/ \E w \in Workers :
          \/ Run(w) \/ Abandon(w)
          \/ Touch(w) \/ TouchFails(w)
    \/ LeaseExpires \/ LeaseOutlived

Spec == Init /\ [][Next]_vars

(* Workers poll and work their batch to the end; time passes.  Publishers,  *)
(* failures and heartbeats owe nothing.                                     *)
FairSpec ==
    /\ Spec
    /\ \A w \in Workers : WF_vars(Run(w))
    /\ WF_vars(LeaseExpires)
-----------------------------------------------------------------------------
(* Properties.                                                              *)

WorkerStates ==
    [pc : {"idle", "reclaim", "drop", "strip", "load", "write", "project",
           "insert", "ack"},
     batch : SUBSET Ids, drop : SUBSET Docs, merge : SUBSET Docs,
     loaded : SUBSET Docs, seen : SUBSET Docs, beat : {"off", "on", "failed"}]

(* Types of the row, the workers and the engine's content; a row has a      *)
(* lease exactly while entries are inflight, and an idle worker holds no    *)
(* batch and no heartbeat.                                                  *)
TypeOK ==
    /\ published \in 0..MaxEvents /\ event \in [Ids -> Events]
    /\ column \in [Ids -> {"none", "backlog", "inflight", "acked"}]
    /\ before \subseteq Ids \X Ids
    /\ owner \in Workers \cup {Nobody} /\ expired \in BOOLEAN
    /\ state \in {"idle", "pending", "running", "completed"}
    /\ errorMsg \in BOOLEAN
    /\ worker \in [Workers -> WorkerStates]
    /\ products \subseteq Docs /\ merged \subseteq Docs /\ graph \subseteq Docs
    /\ pending \subseteq Events /\ applied \subseteq Ids /\ removed \subseteq Docs
    /\ reordered \in BOOLEAN
    /\ faults \in 0..MaxTroubles /\ abandons \in 0..MaxTroubles
    /\ owner = Nobody <=> In("inflight") = {}
    /\ \A w \in Workers : ~Busy(w) => worker[w].batch = {} /\ worker[w].beat = "off"

(* "Never ack what we failed to merge": every published entry is in the     *)
(* backlog or inflight, or an entry equal to it was merged without an       *)
(* error, whatever fails, crashes or outlives its lease.                    *)
NothingDropped ==
    \A i \in 1..published :
        \/ column[i] \in {"backlog", "inflight"}
        \/ column[i] = "acked" /\ \E j \in applied : event[j] = event[i]

(* Same-dataset serialization: while heartbeats succeed and no lease is     *)
(* outlived by its holder, one worker at most is inside a batch.            *)
Serialized ==
    faults = 0 => \A v, w \in Workers : Busy(v) /\ Busy(w) => v = w

(* A live lease is ended by its holder's ack and by nothing else: no claim, *)
(* reclaim, ack or error report of another worker takes it.                 *)
LiveLeaseRespected ==
    [][\A w \in Workers : owner = w /\ ~expired /\ owner' # w
                              => worker[w].pc = "ack" /\ worker'[w].pc = "idle"]_vars

Queued  == In("backlog") \cup In("inflight")
Drained == Queued = {} /\ \A w \in Workers : ~Busy(w)
EventsOf(d) == {i \in 1..published : event[i][1] = d}
LastEvent(d, t) ==
    \E i \in EventsOf(d) : event[i] = <<d, t>> /\ \A j \in EventsOf(d) : j <= i

(* When a row is drained, with crashes, failed batches and reclaims on the  *)
(* way but no lease outlived, what is stored is what the last events say: a *)
(* document deleted for good is no source of a merged product ("by append   *)
(* order", scheduler.go:57, unless a reclaim put inflight entries behind    *)
(* newer ones); a document with products that was never deleted is one,     *)
(* since later merges and deletions of others spare it; and the wiki graph, *)
(* dropped and inserted in two calls, is the projection of the merged       *)
(* products.                                                                *)
DrainedIsConsistent ==
    faults = 0 /\ Drained =>
        /\ ~reordered =>
              \A d \in Docs \ products : LastEvent(d, "deleted") => d \notin merged
        /\ \A d \in products \ removed : LastEvent(d, "completed") => d \in merged
        /\ graph = merged

(* The status a user reads: pending has a backlog, running has a batch      *)
(* inflight, completed has no backlog, and an error belongs to entries that *)
(* are still queued.                                                        *)
StatusTruthful ==
    /\ state = "idle"      => published = 0
    /\ state = "pending"   => In("backlog") # {}
    /\ state = "running"   => In("inflight") # {}
    /\ state = "completed" => In("backlog") = {}
    /\ errorMsg            => Queued # {}

(* The row is always drained in the end (events are bounded): no entry      *)
(* stays with a worker that failed, crashed or lost its heartbeat, or       *)
(* behind a lease that is never given up.                                   *)
EventuallyDrained == (Queued # {}) ~> (Queued = {})
=============================================================================
