-------------------------- MODULE TerminalDecision --------------------------
(***************************************************************************)
(* The pure decisions about how a RUNNING entry ends, and about what a     *)
(* request to stop it records (application/execution/entry_completion.go   *)
(* and abort_request.go).                                                  *)
(*                                                                         *)
(* Both decide on an observation of the entry: its status and the          *)
(* instance's terminal-intent counters.  A decision repeats the observed   *)
(* counters (the host's compare-and-swap predicate) beside the ones to be  *)
(* written.  A refusal is a precondition that does not hold, so each       *)
(* decision is a "Refused" predicate and a value that stands only when the *)
(* predicate is false.                                                     *)
(***************************************************************************)
EXTENDS Integers, Lifecycle

CONSTANT MaxRevision   \* MaxExpectedEntryCompletionRevision: the largest value
                       \* core writes into either counter (2^63 - 2 in the code)

ASSUME MaxRevisionAssumption == MaxRevision \in Nat

TerminalIntents == {"NONE", "CANCEL", "ABORT"}

\* engine.ExecutionOutcome, as EngineOutcome.Validate admits it.
ExecutionOutcomes ==
  {"SUCCEEDED", "FAILED", "CANCELED", "NOT_STARTED", "INTERRUPTED"}

TerminalCauses == {"COMPLETED", "NOT_STARTED", "INTERRUPTED"}

\* EntryCompletionState: what the host observed just before it asks.
Observations ==
  [status: EntryStatuses, intent: TerminalIntents,
   revision: Nat, generation: Nat]

-----------------------------------------------------------------------------
\* decideTerminalEntryStatus: a finished run outweighs every intent; of an
\* unfinished one the intent names the status.
TerminalStatusOf(intent, executed) ==
  CASE executed = "SUCCEEDED" -> "SUCCEEDED"
    [] executed # "SUCCEEDED" /\ intent = "CANCEL" -> "CANCELED"
    [] executed # "SUCCEEDED" /\ intent = "ABORT"  -> "ABORTED"
    [] executed # "SUCCEEDED" /\ intent = "NONE"   -> "FAILED"

\* terminalCauseOf: the observation axis, which no intent changes.
TerminalCauseOf(executed) ==
  IF executed \in {"NOT_STARTED", "INTERRUPTED"} THEN executed ELSE "COMPLETED"

\* The terminal statuses that carry an intent out and spend a generation.
SpendsGeneration(status) == status \in {"CANCELED", "ABORTED"}

CompletionExhausted(obs, executed) ==
  \/ obs.revision >= MaxRevision
  \/ /\ SpendsGeneration(TerminalStatusOf(obs.intent, executed))
     /\ obs.generation >= MaxRevision

CompletionRefused(obs, executed) ==
  obs.status # "RUNNING" \/ CompletionExhausted(obs, executed)

\* Mutant: only a carried-out intent moves a counter.
DecisionKeepingRevision(obs, executed) ==
  LET status == TerminalStatusOf(obs.intent, executed) IN
    [status         |-> status,
     cause          |-> TerminalCauseOf(executed),
     nextIntent     |-> obs.intent,
     nextRevision   |-> obs.revision,
     nextGeneration |-> obs.generation
                          + (IF SpendsGeneration(status) THEN 1 ELSE 0)]

\* DecideEntryCompletion, when it is not refused.
CompletionDecision(obs, executed) ==
  LET status == TerminalStatusOf(obs.intent, executed) IN
    [status         |-> status,
     cause          |-> TerminalCauseOf(executed),
     nextIntent     |-> obs.intent,
     nextRevision   |-> obs.revision + 1,
     nextGeneration |-> obs.generation
                          + (IF SpendsGeneration(status) THEN 1 ELSE 0)]

-----------------------------------------------------------------------------
AbortRefused(obs) ==
  \/ obs.status # "RUNNING"
  \/ obs.intent = "ABORT"
  \/ obs.revision >= MaxRevision

\* DecideAbortRequest, when it is not refused: the intent escalates to ABORT
\* and no generation is spent.
AbortDecision(obs) ==
  [nextIntent     |-> "ABORT",
   nextRevision   |-> obs.revision + 1,
   nextGeneration |-> obs.generation]
=============================================================================
