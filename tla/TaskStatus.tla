----------------------------- MODULE TaskStatus -----------------------------
(***************************************************************************)
(* What the ingestion_task table promises to everybody who reads it: a row *)
(* is created once under a fresh id, its status only follows the table of  *)
(* legal transitions, a re-enqueued row may be put back where it was when  *)
(* the enqueue is rolled back, and an id that left the table never comes   *)
(* back.                                                                   *)
(*                                                                         *)
(* IngestionTaskService, where many concurrent actors read, validate and   *)
(* compare-and-swap in separate database calls, implements this module.    *)
(***************************************************************************)
EXTENDS IngestionStatus

CONSTANTS Tasks,          \* ids of ingestion tasks (fresh UUIDs)
          RemovableFrom   \* statuses in which a row may be deleted

VARIABLE status           \* the status column of ingestion_task

Init == status = [t \in Tasks |-> "FRESH"]

Create(t) ==
    /\ status[t] = "FRESH"
    /\ status' = [status EXCEPT ![t] = "CREATED"]

Move(t, to) ==
    /\ CanMove(status[t], to)
    /\ status' = [status EXCEPT ![t] = to]

\* A re-enqueue that could not be published restores the status it found.
Restore(t, to) ==
    /\ status[t] = "CREATED"
    /\ to \in Retryable
    /\ status' = [status EXCEPT ![t] = to]

Remove(t) ==
    /\ status[t] \in RemovableFrom
    /\ status' = [status EXCEPT ![t] = "GONE"]

Next ==
    \E t \in Tasks :
        \/ Create(t)
        \/ \E to \in RowStatus : Move(t, to) \/ Restore(t, to)
        \/ Remove(t)

Spec == Init /\ [][Next]_status
=============================================================================
