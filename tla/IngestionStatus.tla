-------------------------- MODULE IngestionStatus ---------------------------
(***************************************************************************)
(* The vocabulary of the status column of ingestion_task and the           *)
(* transition table validateTransition                                     *)
(* (ragflow/internal/service/ingestion_task_service.go).                   *)
(***************************************************************************)

Terminal  == {"COMPLETED", "STOPPED", "FAILED"}
Executing == {"RUNNING", "STOPPING"}
RowStatus == {"CREATED"} \cup Executing \cup Terminal

\* "FRESH": the id has not been used yet; "GONE": its row was deleted.
Status    == RowStatus \cup {"FRESH", "GONE"}

\* Statuses from which CreateAndEnqueue re-enqueues an existing row.
Retryable == {"FAILED", "STOPPED"}

\* validateTransition: the legal changes of status.
CanMove(from, to) ==
    \/ from = "CREATED"   /\ to \in {"RUNNING", "STOPPED"}
    \/ from = "RUNNING"   /\ to \in {"STOPPING", "COMPLETED", "FAILED"}
    \/ from = "STOPPING"  /\ to = "STOPPED"
    \/ from \in Retryable /\ to = "CREATED"
=============================================================================
