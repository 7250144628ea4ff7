----------------------------- MODULE Lifecycle -----------------------------
(***************************************************************************)
(* The two status machines every other module moves along: the status of   *)
(* one top-level entry of an instance's plan (domain/execution/status.go)  *)
(* and the status of the instance that contains it                         *)
(* (domain/execution/instance.go).  They are disjoint vocabularies in the  *)
(* code, although four of the names are spelled alike.                     *)
(***************************************************************************)
EntryStatuses ==
  {"PENDING", "RUNNING", "SUCCEEDED", "FAILED", "CANCELED", "ABORTED", "SKIPPED"}

\* IsTerminalEntryStatus.
TerminalEntryStatuses ==
  {"SUCCEEDED", "FAILED", "CANCELED", "ABORTED", "SKIPPED"}

\* EntryStatus.CanTransitionTo, as the set of edges it allows.  PENDING ->
\* FAILED and PENDING -> CANCELED are legal edges no core decision takes.
EntryEdges ==
  ({"PENDING"} \X {"RUNNING", "FAILED", "CANCELED", "SKIPPED"})
    \cup ({"RUNNING"} \X {"SUCCEEDED", "FAILED", "CANCELED", "ABORTED"})

InstanceStatuses ==
  {"QUEUED", "RUNNING", "SUCCEEDED", "FAILED", "CANCELED", "ABORTED"}

FinalInstanceStatuses == {"SUCCEEDED", "FAILED", "CANCELED", "ABORTED"}

\* ValidateInstanceStatusTransition, as the set of edges it allows.
InstanceEdges ==
  ({"QUEUED"} \X {"RUNNING", "CANCELED"})
    \cup ({"RUNNING"} \X FinalInstanceStatuses)
=============================================================================
