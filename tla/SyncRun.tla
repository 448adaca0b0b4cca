------------------------------ MODULE SyncRun ------------------------------
(***************************************************************************)
(* What one run of the data source syncer reads and writes                 *)
(* (ragflow/internal/syncer/sync_runner.go and prune_runner.go,            *)
(* service/document/sync_document.go, service/sync_prune_service.go and,   *)
(* for the source, syncer/connector/github.go).                            *)
(*                                                                         *)
(* A run lists the documents its source changed in a window of time, page  *)
(* by page in the order of their last change, upserts those of a page      *)
(* concurrently, and when all pages are done moves the waterline to the    *)
(* last change it has seen.  A prune run lists everything and deletes the  *)
(* documents it did not see.  Users change the source all the while, and   *)
(* the parser works on the documents.  Runs of one connector exclude each  *)
(* other (module SyncScheduler).  Every document is parsed automatically;  *)
(* content is its version.                                                 *)
(***************************************************************************)
EXTENDS Naturals, FiniteSets, FiniteSetsExt

CONSTANTS
    Docs,           \* documents of the source: natural numbers
    Coarse,         \* two changes may carry the same time stamp
    MaxCrashes,     \* bound on crashes
    Connectors      \* connectors, with what happens to each: see connector

Steps      == {"put", "insert", "update", "publish", "file", "meta", "parse"}
EarlySteps == {"put", "insert", "update", "publish"}

ASSUME RunAssumption ==
    /\ Docs \subseteq Nat /\ IsFiniteSet(Docs)
    /\ Coarse \in BOOLEAN /\ MaxCrashes \in Nat
    /\ Connectors \subseteq
         [maxVer : Nat, maxObjs : Nat, pageSize : Nat \ {0},
          kinds : SUBSET {"sync", "prune"}, sourceOps : SUBSET {"edit", "remove"},
          fingerprinted : BOOLEAN, slowParse : BOOLEAN,
          failAt : SUBSET Steps, maxFaults : Nat]

VARIABLES
    connector,  \* the connector whose runs these are; it does not change
    clock,      \* time, as the source and the syncer see it
    src,        \* last change of every source document: version and time
    here,       \* source documents that exist
    water,      \* poll_range_start of the next run; 0 is NULL
    docRow,     \* document rows: content_hash as a version, location
    file,       \* location in the file-manager row of a document; 0 without one
    pending,    \* of {"meta", "parse"}: writes the published content still lacks
    task,       \* ingestion_task of a document
    store,      \* object storage: every key is "none", "staged", "published", or
                \* "leaked": stored by an upsert that failed, and nobody removes it
    run,        \* the run in progress
    item,       \* the goroutine of every document of the batch
    failures,   \* calls that failed and crashes so far
    crashes     \* crashes so far

runVars == <<connector, clock, src, here, water, docRow, file, pending, task, store, run, item,
             failures, crashes>>
sourceVars == <<connector, clock, src, here>>
docVars    == <<docRow, file, pending, task, store>>

MaxVer    == connector.maxVer      \* changes per document (a bound)
PageSize  == connector.pageSize    \* documents on a page of the source (batch_size)
Kinds     == connector.kinds       \* subset of {"sync", "prune"}: the runs there are
SourceOps == connector.sourceOps   \* subset of {"edit", "remove"}: what users do
Fingerprinted == connector.fingerprinted  \* the source sends fingerprints (RSS does)
SlowParse == connector.slowParse   \* a document may be in the parser when a run starts
FailAt    == connector.failAt      \* steps of an upsert that may fail
MaxFailures == connector.maxFaults   \* bound on failing calls and crashes together

Keys     == 1..connector.maxObjs   \* storage keys per document (a bound)
Absent   == [exists |-> FALSE, hash |-> 0, loc |-> 0]
NoItem   == [pc |-> "idle", ver |-> 0, key |-> 0, mode |-> "none"]
NoRun    == [kind |-> "none", pc |-> "idle", start |-> 0, end |-> 0, cand |-> 0,
             page |-> 0, eof |-> FALSE, seen |-> {}, stale |-> {}]

Busy(d)    == item[d].pc \notin {"idle", "failed"}
SetRow(d, r)   == docRow' = [docRow EXCEPT ![d] = r]
SetKey(d, k, s) == store' = [store EXCEPT ![d][k] = s]
ItemTo(d, pc)  == item' = [item EXCEPT ![d].pc = pc]
RunTo(pc)      == run' = [run EXCEPT !.pc = pc]

-----------------------------------------------------------------------------
(***************************************************************************)
(* The source and the parser.                                              *)
(***************************************************************************)
\* A document is created or changed.
Edit(d) ==
    /\ "edit" \in SourceOps \/ src[d].ver = 0
    /\ d \in here \/ src[d].ver = 0
    /\ src[d].ver < MaxVer
    /\ clock' \in IF Coarse THEN {clock, clock + 1} ELSE {clock + 1}
    /\ src' = [src EXCEPT ![d] = [ver |-> @.ver + 1, at |-> clock']]
    /\ here' = here \cup {d}
    /\ UNCHANGED <<connector, water, docVars, run, item, failures, crashes>>

SourceRemove(d) ==
    /\ "remove" \in SourceOps
    /\ d \in here
    /\ here' = here \ {d}
    /\ UNCHANGED <<connector, clock, src, water, docVars, run, item, failures, crashes>>

\* A worker of the ingestor starts and ends the task of a document.
ParserStep(d) ==
    /\ \/ task[d] = "created" /\ task' = [task EXCEPT ![d] = "running"]
       \/ task[d] = "running" /\ task' = [task EXCEPT ![d] = "done"]
    /\ UNCHANGED <<sourceVars, water, docRow, file, pending, store, run, item,
                   failures, crashes>>

\* A page of the source, sorted by descending time of change.
Before(d, e) == \/ src[d].at > src[e].at
                \/ src[d].at = src[e].at /\ d < e
Rank(d)      == Cardinality({e \in here : Before(e, d)})
PageOf(n)    == {d \in here : Rank(d) \div PageSize = n}
HasNextPage(n) == \E d \in here : Rank(d) \div PageSize > n

BeforeOrAtWindowStart(d) == run.start # 0 /\ src[d].at <= run.start
AfterWindowEnd(d)        == src[d].at > run.end

-----------------------------------------------------------------------------
(***************************************************************************)
(* SyncRunner.Run.                                                         *)
(***************************************************************************)
\* OpenSync: the window starts at the waterline, or nowhere for a rebuild.
OpenSync ==
    /\ "sync" \in Kinds
    /\ run = NoRun
    /\ SlowParse \/ \A d \in Docs : task[d] \notin {"created", "running"}
    /\ \E start \in {water, 0} :
        run' = [NoRun EXCEPT !.kind = "sync", !.pc = "list", !.start = start,
                             !.end = clock, !.cand = start]
    /\ UNCHANGED <<sourceVars, water, docVars, item, failures, crashes>>

\* NextBatch; the documents of the page inside the window are started, and
\* the candidate waterline moves to the last change among them.
NextBatch ==
    LET page == PageOf(run.page)
        docs == {d \in page : ~BeforeOrAtWindowStart(d) /\ ~AfterWindowEnd(d)}
    IN  /\ run.kind = "sync" /\ run.pc = "list" /\ ~run.eof
        /\ run' = [run EXCEPT
                     !.pc = "items",
                     !.cand = Max({@} \cup {src[d].at : d \in docs}),
                     !.page = @ + 1,
                     !.eof = \/ \E d \in page : BeforeOrAtWindowStart(d)
                             \/ ~HasNextPage(run.page)]
        /\ item' = [d \in Docs |->
                      IF d \in docs
                      THEN [NoItem EXCEPT !.pc = "begin", !.ver = src[d].ver]
                      ELSE NoItem]
        /\ UNCHANGED <<sourceVars, water, docVars, failures, crashes>>

\* All goroutines have returned: the run fails with the first error or goes on.
EndBatch ==
    /\ run.kind = "sync" /\ run.pc = "items"
    /\ \A d \in Docs : ~Busy(d)
    /\ IF \E d \in Docs : item[d].pc = "failed"
       THEN run' = NoRun
       ELSE RunTo("list")
    /\ item' = [d \in Docs |-> NoItem]
    /\ UNCHANGED <<sourceVars, water, docVars, failures, crashes>>

\* Mutant: the waterline moves to the end of the window in any case.
CompleteAtEnd ==
    /\ run.kind = "sync" /\ run.pc = "list" /\ run.eof
    /\ water' = clock
    /\ run' = NoRun
    /\ UNCHANGED <<sourceVars, docVars, item, failures, crashes>>

\* Mutant: the next window starts right after the last change seen.
CompletePast ==
    /\ run.kind = "sync" /\ run.pc = "list" /\ run.eof
    /\ water' = IF run.cand = 0 THEN run.end ELSE run.cand + 1
    /\ run' = NoRun
    /\ UNCHANGED <<sourceVars, docVars, item, failures, crashes>>

\* CompleteSync with the last change seen, or else the end of the window.
CompleteSync ==
    /\ run.kind = "sync" /\ run.pc = "list" /\ run.eof
    /\ water' = IF run.cand = 0 THEN run.end ELSE run.cand
    /\ run' = NoRun
    /\ UNCHANGED <<sourceVars, docVars, item, failures, crashes>>

\* Mutant: an error of the source ends a listing like its last page.
SourceErrorEndsListing ==
    /\ run.pc = "list"
    /\ failures < MaxFailures
    /\ failures' = failures + 1
    /\ run' = [run EXCEPT !.eof = TRUE]
    /\ UNCHANGED <<sourceVars, water, docVars, item, crashes>>

\* The source cannot be read, or the completion is not committed: the task
\* fails without advancing the waterline.
SourceFails ==
    /\ run.pc = "list"
    /\ failures < MaxFailures
    /\ failures' = failures + 1
    /\ run' = NoRun
    /\ UNCHANGED <<sourceVars, water, docVars, item, crashes>>

-----------------------------------------------------------------------------
(***************************************************************************)
(* processDocument and Upsert, one goroutine per document.                 *)
(***************************************************************************)
ItemAt(d, pc) == run.pc = "items" /\ item[d].pc = pc
itemRest      == <<sourceVars, water, run, failures, crashes>>
Unchanged(d)  == docRow[d].exists /\ docRow[d].hash = item[d].ver

\* A document whose fingerprint is stored is skipped by the runner; one
\* whose content hash is stored, by Upsert after its dependent writes.
Begin(d) ==
    /\ ItemAt(d, "begin")
    /\ item' = [item EXCEPT ![d] =
         IF ~Unchanged(d) THEN [@ EXCEPT !.pc = "put"]
         ELSE IF Fingerprinted THEN NoItem
         ELSE [@ EXCEPT !.pc = "file", !.mode = "ensure"]]
    /\ UNCHANGED <<docVars, itemRest>>

\* Mutant: a document has one key for all its versions.
PutInPlace(d) ==
    /\ ItemAt(d, "put")
    /\ SetKey(d, 1, "staged")
    /\ LET mode == IF docRow[d].exists THEN "update" ELSE "insert"
       IN  item' = [item EXCEPT ![d] = [@ EXCEPT !.key = 1, !.pc = mode, !.mode = mode]]
    /\ UNCHANGED <<docRow, file, pending, task, itemRest>>

\* The blob is stored under a key of its own (bound: one is left).
Fresh(d) == {k \in Keys : store[d][k] = "none" /\ k \notin {docRow[d].loc, file[d]}}

Put(d) ==
    /\ ItemAt(d, "put")
    /\ Fresh(d) # {}
    /\ LET k == Min(Fresh(d))
           mode == IF docRow[d].exists THEN "update" ELSE "insert"
       IN  /\ SetKey(d, k, "staged")
           /\ item' = [item EXCEPT ![d] = [@ EXCEPT !.key = k, !.pc = mode, !.mode = mode]]
    /\ UNCHANGED <<docRow, file, pending, task, itemRest>>

\* InsertDocument: newDatasetDocument has set content_hash to the hash of
\* the blob already, which a fingerprint never equals.
Insert(d) ==
    /\ ItemAt(d, "insert")
    /\ SetRow(d, [exists |-> TRUE, loc |-> 0,
                  hash |-> IF Fingerprinted THEN 0 ELSE item[d].ver])
    /\ pending' = [pending EXCEPT ![d] = {"meta", "parse"}]
    /\ ItemTo(d, "publish")
    /\ UNCHANGED <<file, task, store, itemRest>>

\* Name, size and type; none of them is modelled.
Update(d) ==
    /\ ItemAt(d, "update")
    /\ ItemTo(d, "publish")
    /\ UNCHANGED <<docVars, itemRest>>

\* publishSyncDocument writes location and content_hash.
Publish(d) ==
    LET k == item[d].key
    IN  /\ ItemAt(d, "publish")
        /\ SetRow(d, [exists |-> TRUE, loc |-> k, hash |-> item[d].ver])
        /\ SetKey(d, k, "published")
        /\ pending' = [pending EXCEPT ![d] = {"meta", "parse"}]
        /\ ItemTo(d, "file")
        /\ UNCHANGED <<file, task, itemRest>>

\* addFileFromKB and updateSyncDocumentFile.
WriteFile(d) ==
    /\ ItemAt(d, "file")
    /\ file' = [file EXCEPT ![d] = docRow[d].loc]
    /\ ItemTo(d, "meta")
    /\ UNCHANGED <<docRow, pending, task, store, itemRest>>

WriteMeta(d) ==
    /\ ItemAt(d, "meta")
    /\ pending' = [pending EXCEPT ![d] = @ \ {"meta"}]
    /\ ItemTo(d, "parse")
    /\ UNCHANGED <<docRow, file, task, store, itemRest>>

\* StartParseDocuments accepts the document: it has a location, and when old
\* results are to be cleared no task of it is being run.
CanParse(d) ==
    /\ docRow[d].loc # 0
    /\ item[d].mode = "update" => task[d] # "running"

\* Mutant: an unchanged document is not parsed even if it has no task.
StartParseNeverRetried(d) ==
    /\ ItemAt(d, "parse")
    /\ IF item[d].mode = "ensure"
       THEN UNCHANGED <<pending, task>>
       ELSE /\ CanParse(d)
            /\ pending' = [pending EXCEPT ![d] = @ \ {"parse"}]
            /\ task' = [task EXCEPT ![d] = "created"]
    /\ item' = [item EXCEPT ![d] = NoItem]
    /\ UNCHANGED <<docRow, file, store, itemRest>>

\* afterSyncDocumentUpsert; ensureSyncDocumentPostWrite starts the parser
\* only for a document that has no task at all.
StartParse(d) ==
    /\ ItemAt(d, "parse")
    /\ IF item[d].mode = "ensure" /\ task[d] # "none"
       THEN UNCHANGED <<pending, task>>
       ELSE /\ CanParse(d)
            /\ pending' = [pending EXCEPT ![d] = @ \ {"parse"}]
            /\ task' = [task EXCEPT ![d] = "created"]
    /\ item' = [item EXCEPT ![d] = NoItem]
    /\ UNCHANGED <<docRow, file, store, itemRest>>

\* Mutant: Upsert defers no cleanup.
CleanupNotDeferred(d, leaks) == ~leaks /\ UNCHANGED store

\* The deferred cleanup of Upsert removes its object on every error but that
\* of the Put; when the removal fails as well the object stays.
Cleanup(d, leaks) ==
    IF item[d].key = 0 THEN ~leaks /\ UNCHANGED store
    ELSE LET k == item[d].key
         IN  SetKey(d, k, IF ~leaks THEN "none"
                          ELSE IF store[d][k] = "staged" THEN "leaked" ELSE store[d][k])

\* A Put that fails may have stored the object.
PutFails(d) ==
    \/ UNCHANGED store
    \/ Fresh(d) # {} /\ SetKey(d, Min(Fresh(d)), "leaked")

Count(failed) == IF failed THEN 1 ELSE 0

\* A step of an upsert fails.  An insert that was not published or linked to
\* the file manager takes its row back, unless that fails as well.  The parser
\* is started by clearing the old results, with the task, first.
StepFails(d) ==
    LET pc == item[d].pc
        rollback == item[d].mode = "insert" /\ pc \in {"publish", "file"}
    IN  /\ run.pc = "items"
        /\ pc \in FailAt
        /\ \E kept, leaks \in BOOLEAN :
              /\ kept => rollback
              /\ failures' = failures + 1 + Count(kept) + Count(leaks)
              /\ IF rollback /\ ~kept THEN SetRow(d, Absent) ELSE UNCHANGED docRow
              /\ IF pc = "put" THEN ~leaks /\ PutFails(d) ELSE Cleanup(d, leaks)
        /\ failures' <= MaxFailures
        /\ \/ UNCHANGED task
           \/ /\ pc = "parse" /\ item[d].mode = "update" /\ CanParse(d)
              /\ task' = [task EXCEPT ![d] = "none"]
        /\ ItemTo(d, "failed")
        /\ UNCHANGED <<sourceVars, water, file, pending, run, crashes>>

\* StartParseDocuments refuses the document.
ParseRefused(d) ==
    /\ ItemAt(d, "parse")
    /\ ~(item[d].mode = "ensure" /\ task[d] # "none")
    /\ ~CanParse(d)
    /\ \E leaks \in BOOLEAN :
          failures' = failures + Count(leaks) /\ Cleanup(d, leaks)
    /\ failures' <= MaxFailures
    /\ ItemTo(d, "failed")
    /\ UNCHANGED <<sourceVars, water, docRow, file, pending, task, run, crashes>>

-----------------------------------------------------------------------------
(***************************************************************************)
(* PruneRunner.Run and DeleteStale.                                        *)
(***************************************************************************)
OpenPrune ==
    /\ "prune" \in Kinds
    /\ run = NoRun
    /\ run' = [NoRun EXCEPT !.kind = "prune", !.pc = "list"]
    /\ UNCHANGED <<sourceVars, water, docVars, item, failures, crashes>>

NextSlimBatch ==
    /\ run.kind = "prune" /\ run.pc = "list" /\ ~run.eof
    /\ run' = [run EXCEPT !.seen = @ \cup PageOf(run.page), !.page = @ + 1,
                          !.eof = ~HasNextPage(run.page)]
    /\ UNCHANGED <<sourceVars, water, docVars, item, failures, crashes>>

\* Documents of the knowledge base that the listing did not contain ...
ListStale ==
    /\ run.kind = "prune" /\ run.pc = "list" /\ run.eof
    /\ run' = [run EXCEPT !.pc = "delete",
                          !.stale = {d \in Docs : docRow[d].exists} \ run.seen]
    /\ UNCHANGED <<sourceVars, water, docVars, item, failures, crashes>>

\* ... are deleted: the task, the row, the link to the file manager, and the
\* object behind that, each by a call of its own.  A task that is being run, or
\* a failure before the link is gone, ends the prune with an error; after that
\* what is left stays and the prune goes on.
DeleteDocument ==
    /\ run.pc = "delete"
    /\ \E d \in run.stale :
        IF task[d] = "running"
        THEN run' = NoRun /\ UNCHANGED <<docVars, failures>>
        ELSE \E calls \in 0..4 :
             /\ failures' = failures + Count(calls < 4)
             /\ task' = IF calls >= 1 THEN [task EXCEPT ![d] = "none"] ELSE task
             /\ IF calls >= 2
                THEN SetRow(d, Absent) /\ pending' = [pending EXCEPT ![d] = {}]
                ELSE UNCHANGED <<docRow, pending>>
             /\ file' = IF calls >= 3 THEN [file EXCEPT ![d] = 0] ELSE file
             /\ IF calls = 4 /\ file[d] # 0
                THEN SetKey(d, file[d], "none") ELSE UNCHANGED store
             /\ run' = IF calls >= 3 THEN [run EXCEPT !.stale = @ \ {d}] ELSE NoRun
    /\ failures' <= MaxFailures
    /\ UNCHANGED <<sourceVars, water, item, crashes>>

CompletePrune ==
    /\ run.pc = "delete" /\ run.stale = {}
    /\ run' = NoRun
    /\ UNCHANGED <<sourceVars, water, docVars, item, failures, crashes>>

\* The process dies; the task is recovered as stale and starts over.
RunCrash ==
    /\ run # NoRun
    /\ crashes < MaxCrashes /\ crashes' = crashes + 1
    /\ failures < MaxFailures /\ failures' = failures + 1
    /\ run' = NoRun
    /\ item' = [d \in Docs |-> NoItem]
    /\ UNCHANGED <<sourceVars, water, docVars>>

-----------------------------------------------------------------------------
RunInit ==
    /\ connector \in Connectors
    /\ clock = 1
    /\ src = [d \in Docs |-> [ver |-> 0, at |-> 0]]
    /\ here = {}
    /\ water = 0
    /\ docRow = [d \in Docs |-> Absent]
    /\ file = [d \in Docs |-> 0]
    /\ pending = [d \in Docs |-> {}]
    /\ task = [d \in Docs |-> "none"]
    /\ store = [d \in Docs |-> [k \in Keys |-> "none"]]
    /\ run = NoRun
    /\ item = [d \in Docs |-> NoItem]
    /\ failures = 0
    /\ crashes = 0

ItemStep(d) ==
    \/ Begin(d) \/ Put(d) \/ Insert(d) \/ Update(d) \/ Publish(d)
    \/ WriteFile(d) \/ WriteMeta(d) \/ StartParse(d)
    \/ StepFails(d) \/ ParseRefused(d)

RunStep ==
    \/ OpenSync \/ NextBatch \/ EndBatch \/ CompleteSync \/ SourceFails
    \/ OpenPrune \/ NextSlimBatch \/ ListStale \/ DeleteDocument \/ CompletePrune
    \/ RunCrash

RunNext ==
    \/ RunStep
    \/ \E d \in Docs : Edit(d) \/ SourceRemove(d) \/ ParserStep(d) \/ ItemStep(d)

RunSpec == RunInit /\ [][RunNext]_runVars

-----------------------------------------------------------------------------
RunTypeOK ==
    /\ connector \in Connectors
    /\ clock \in Nat
    /\ src \in [Docs -> [ver : 0..MaxVer, at : 0..clock]]
    /\ here \subseteq Docs
    /\ water \in 0..clock
    /\ docRow \in [Docs -> [exists : BOOLEAN, hash : 0..MaxVer, loc : {0} \cup Keys]]
    /\ file \in [Docs -> {0} \cup Keys]
    /\ pending \in [Docs -> SUBSET {"meta", "parse"}]
    /\ task \in [Docs -> {"none", "created", "running", "done"}]
    /\ store \in [Docs -> [Keys -> {"none", "staged", "published", "leaked"}]]
    /\ run \in [kind : {"none"} \cup Kinds, pc : {"idle", "list", "items", "delete"},
                start : 0..clock, end : 0..clock, cand : 0..clock, page : Nat,
                eof : BOOLEAN, seen : SUBSET Docs, stale : SUBSET Docs]
    /\ item \in [Docs -> [pc : {"idle", "begin", "failed"} \cup Steps, ver : 0..MaxVer,
                          key : {0} \cup Keys,
                          mode : {"none", "insert", "update", "ensure"}]]
    /\ failures \in 0..MaxFailures
    /\ crashes \in 0..MaxCrashes

\* The waterline never passes a change that has not arrived: the last
\* version of everything changed up to it is published in the knowledge base,
\* whatever failed or was changed meanwhile.
WaterlineCovers ==
    \A d \in here : src[d].at <= water =>
        docRow[d].exists /\ docRow[d].hash = src[d].ver /\ docRow[d].loc # 0

\* The objects and the rows agree: whatever happens to an upsert up to the
\* publication of its object, the object a document row points to exists; and
\* a run that is over has removed or published what its upserts staged, but
\* for an object whose removal failed or whose Put failed after storing it.
ObjectsFollowRows ==
    /\ FailAt \subseteq EarlySteps /\ ~SlowParse =>
         \A d \in Docs : docRow[d].loc # 0 => store[d][docRow[d].loc] # "none"
    /\ run = NoRun /\ crashes = 0 =>
         \A d \in Docs, k \in Keys : store[d][k] # "staged"

\* Dependent work is retried before an unchanged document is skipped: then
\* its file row and its metadata are those of its content, and it has been
\* given to the parser, unless its content is not the first: a document with a
\* task of older content is not parsed again.  It is so for a source without
\* fingerprints.
SkippedIsComplete ==
    [][~Fingerprinted => \A d \in Docs :
        item[d].pc \in {"begin", "parse"} /\ item'[d] = NoItem /\ crashes' = crashes
            => /\ file'[d] = docRow'[d].loc /\ "meta" \notin pending'[d]
               /\ docRow'[d].hash <= 1 => "parse" \notin pending'[d]]_runVars

\* Incomplete source listings never delete: a prune only takes documents that
\* are gone from the source.
PruneOnlyStale ==
    [][\A d \in Docs :
        run.kind = "prune" /\ docRow[d].exists /\ ~docRow'[d].exists => d \notin here]_runVars
=============================================================================
