-------------------------- MODULE AdvanceDecision --------------------------
(***************************************************************************)
(* DecideAdvance (application/scheduling/decision.go): what a coordinator  *)
(* does next with an instance, from the statuses of its entries in plan    *)
(* order and the plan's failure policy, and from nothing else.             *)
(*                                                                         *)
(* "states" is a function from plan positions 1..n to [status, cause];     *)
(* "cause" is the reason an entry was skipped, NoCause when it was not.    *)
(***************************************************************************)
EXTENDS Integers, Lifecycle

Policies == {"STOP_ON_FAILURE", "CONTINUE_ON_FAILURE"}

NoCause == "NO_CAUSE"
SkipCauses == {"PRIOR_FAILURE", "PRIOR_CANCELLATION", "PRIOR_ABORT"}
EntryStates == [status: EntryStatuses, cause: SkipCauses \cup {NoCause}]

-----------------------------------------------------------------------------
\* Mutant: a canceled entry does not stop the plan.
StopCauseUnlessCanceled(status, policy) ==
  CASE status = "FAILED" /\ policy = "STOP_ON_FAILURE" -> "PRIOR_FAILURE"
    [] status = "ABORTED"  -> "PRIOR_ABORT"
    [] OTHER -> "NO_CAUSE"

\* stopFor: the cause for which an entry's status skips every later one.
StopCause(status, policy) ==
  CASE status = "FAILED" /\ policy = "STOP_ON_FAILURE" -> "PRIOR_FAILURE"
    [] status = "CANCELED" -> "PRIOR_CANCELLATION"
    [] status = "ABORTED"  -> "PRIOR_ABORT"
    [] OTHER -> NoCause

\* stopFor's instance status is spelled like the entry status that stops.
Stops(status, policy) == StopCause(status, policy) # NoCause

StoppedBefore(states, policy, j) ==
  \E i \in DOMAIN states : i < j /\ Stops(states[i].status, policy)

\* validateSerialShape: the vectors a serial execution leaves behind.  The
\* entries before the frontier have ended without stopping the plan; the
\* frontier is RUNNING or PENDING and everything after it is PENDING; after an
\* entry that stops the plan, what is not PENDING yet was skipped for it.
SerialShape(states, policy) ==
  /\ \A i \in DOMAIN states :
       /\ states[i].status \in EntryStatuses
       /\ states[i].status = "SKIPPED" <=> states[i].cause # NoCause
       /\ states[i].status = "SKIPPED" => StoppedBefore(states, policy, i)
  /\ \A i, j \in DOMAIN states : i < j =>
       /\ (states[i].status \in {"PENDING", "RUNNING"} /\ ~StoppedBefore(states, policy, i))
            => states[j].status = "PENDING"
       /\ Stops(states[i].status, policy) =>
            \/ states[j].status = "PENDING"
            \/ /\ states[j].status = "SKIPPED"
               /\ states[j].cause = StopCause(states[i].status, policy)

-----------------------------------------------------------------------------
\* Decision: the entry to start (0 is none), the entries to skip and why, and
\* the instance's final status (NoStatus is none).
NoStatus == "NO_STATUS"
Decisions(n) ==
  [start: 0..n, skips: SUBSET (1..n), cause: SkipCauses \cup {NoCause},
   final: FinalInstanceStatuses \cup {NoStatus}]

Nothing == [start |-> 0, skips |-> {}, cause |-> NoCause, final |-> NoStatus]

\* Mutants: only the next entry is skipped; the instance is not ended.
StopOnlyNext(states, policy, i) ==
  [Nothing EXCEPT !.skips = {j \in DOMAIN states : j = i + 1 /\ states[j].status = "PENDING"},
                  !.cause = StopCause(states[i].status, policy),
                  !.final = states[i].status]
StopWithoutFinal(states, policy, i) ==
  [Nothing EXCEPT !.skips = {j \in DOMAIN states : j > i /\ states[j].status = "PENDING"},
                  !.cause = StopCause(states[i].status, policy)]

StopAfter(states, policy, i) ==
  [start |-> 0,
   skips |-> {j \in DOMAIN states : j > i /\ states[j].status = "PENDING"},
   cause |-> StopCause(states[i].status, policy),
   final |-> states[i].status]

Start(i) == [Nothing EXCEPT !.start = i]

Finish(states) ==
  [Nothing EXCEPT !.final =
     IF \E i \in DOMAIN states : states[i].status = "FAILED" THEN "FAILED" ELSE "SUCCEEDED"]

Candidates(states, policy) ==
  {StopAfter(states, policy, i) : i \in DOMAIN states}
    \cup {Start(i) : i \in DOMAIN states} \cup {Nothing, Finish(states)}

\* DecideAdvance yields decision d, a candidate, on a vector of serial shape.
Decides(states, policy, d) ==
  \/ \E i \in DOMAIN states :
       /\ Stops(states[i].status, policy)
       /\ d = StopAfter(states, policy, i)
  \/ /\ \A i \in DOMAIN states : ~Stops(states[i].status, policy)
     /\ \/ /\ \E i \in DOMAIN states : states[i].status = "RUNNING"
           /\ d = Nothing
        \/ /\ \A i \in DOMAIN states : states[i].status # "RUNNING"
           /\ \E i \in DOMAIN states :
                /\ states[i].status = "PENDING"
                /\ \A j \in DOMAIN states : j < i => states[j].status # "PENDING"
                /\ d = Start(i)
        \/ /\ \A i \in DOMAIN states : states[i].status \notin {"PENDING", "RUNNING"}
           /\ d = Finish(states)

\* The transitions of a decision, written to the entries.
Applied(states, d) ==
  [i \in DOMAIN states |->
     IF i = d.start THEN [status |-> "RUNNING", cause |-> NoCause]
     ELSE IF i \in d.skips THEN [status |-> "SKIPPED", cause |-> d.cause]
     ELSE states[i]]
=============================================================================
