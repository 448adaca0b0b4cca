----------------------------- MODULE MCSyncRun -----------------------------
(* Instances of SyncRun for TLC: a connector with fingerprints whose         *)
(* documents are edited and whose upserts may fail up to the publication of  *)
(* the object; one without, with prunes, whose documents are removed and     *)
(* whose upserts may fail anywhere; and one without whose documents are      *)
(* edited and whose upserts may fail anywhere.                               *)
EXTENDS SyncRun

Feed == [maxVer |-> 2, maxObjs |-> 4, pageSize |-> 1, kinds |-> {"sync"},
         sourceOps |-> {"edit"}, fingerprinted |-> TRUE, slowParse |-> FALSE,
         failAt |-> EarlySteps, maxFaults |-> 2]

Pruned == [maxVer |-> 1, maxObjs |-> 3, pageSize |-> 2, kinds |-> {"sync", "prune"},
           sourceOps |-> {"remove"}, fingerprinted |-> FALSE, slowParse |-> TRUE,
           failAt |-> Steps, maxFaults |-> 2]

Edited == [maxVer |-> 2, maxObjs |-> 3, pageSize |-> 2, kinds |-> {"sync"},
           sourceOps |-> {"edit"}, fingerprinted |-> FALSE, slowParse |-> FALSE,
           failAt |-> Steps, maxFaults |-> 1]

Sources == {Feed, Pruned, Edited}
=============================================================================
