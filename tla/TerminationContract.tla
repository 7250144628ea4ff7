------------------------ MODULE TerminationContract ------------------------
(***************************************************************************)
(* What the two termination contracts promise about one entry, whatever    *)
(* calls, faults and retries are made: the entry is RUNNING until it ends  *)
(* once; while it runs the intent may escalate to ABORT and nothing else   *)
(* happens to it; it ends in the status its intent and its run call for,   *)
(* with a cause that says how much of the run was seen, and a cancellation *)
(* generation is spent exactly when the intent was carried out.            *)
(***************************************************************************)
EXTENDS TerminalDecision

VARIABLES status, intent, cause, generation

vars == <<status, intent, cause, generation>>

Init ==
  /\ status = "RUNNING"
  /\ intent \in TerminalIntents
  /\ cause = "UNSET"
  /\ generation \in Nat

\* D-17: a request records that someone asked, it ends nothing.
Escalate ==
  /\ status = "RUNNING"
  /\ intent # "ABORT"
  /\ intent' = "ABORT"
  /\ UNCHANGED <<status, cause, generation>>

\* D-12, D-18: the only way an entry leaves RUNNING.
Terminate(executed) ==
  /\ status = "RUNNING"
  /\ status' = TerminalStatusOf(intent, executed)
  /\ cause' = TerminalCauseOf(executed)
  /\ generation' = generation + (IF status' \in {"CANCELED", "ABORTED"} THEN 1 ELSE 0)
  /\ UNCHANGED intent

Next == Escalate \/ \E executed \in ExecutionOutcomes : Terminate(executed)

Spec == Init /\ [][Next]_vars
=============================================================================
