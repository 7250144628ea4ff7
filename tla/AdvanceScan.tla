---------------------------- MODULE AdvanceScan ----------------------------
(***************************************************************************)
(* DecideAdvance as the code computes it: LoadEntryStates' answer, a list  *)
(* in any order that may repeat or miss entries, is matched with the plan  *)
(* and scanned once from left to right.  AdvanceDecision defines the same  *)
(* function by what it accepts; here the two are compared on every answer  *)
(* of a small plan, and the decision is applied again and again, with      *)
(* running entries ending in between, from every answer it accepts: also   *)
(* from those no execution produces, such as entries skipped in part.      *)
(***************************************************************************)
EXTENDS AdvanceDecision, SequencesExt

CONSTANTS N,        \* entries of the plan, in order 1..N
          Causes    \* the skip causes that answers carry

VARIABLES policy, loaded
vars == <<policy, loaded>>

-----------------------------------------------------------------------------
\* Entries of an answer: any status and cause, but of the causes that make no
\* sense on an entry that was not skipped, one stands for all.
Loadable ==
  {s \in [entry: 1..N, status: EntryStatuses, cause: Causes \cup {NoCause}] :
     s.status # "SKIPPED" => s.cause \in {NoCause, CHOOSE c \in Causes : TRUE}}

\* As many states as entries, no entry twice, every entry found.
MembersMatch(answer) ==
  /\ Len(answer) = N
  /\ \A i, j \in 1..N : i # j => answer[i].entry # answer[j].entry

\* An answer that repeats or misses entries is refused whatever their statuses: of
\* those only the ones with all entries as they were created.
Fresh(s) == s.status = "PENDING" /\ s.cause = NoCause
\* The entries come in order, reversed, or with the first one last.
Orders == {[k \in 1..N |-> k], [k \in 1..N |-> N + 1 - k], [k \in 1..N |-> (k % N) + 1]}
Answers ==
  {[k \in 1..N |-> [kept[k] EXCEPT !.entry = o[k]]] :
     kept \in [1..N -> {s \in Loadable : s.entry = 1}], o \in Orders}
    \union UNION {[1..n -> {s \in Loadable : Fresh(s)}] : n \in 0..N}

\* The states in plan order.
Ordered(answer) ==
  [i \in 1..N |->
     LET s == answer[CHOOSE k \in 1..N : answer[k].entry = i]
     IN [status |-> s.status, cause |-> s.cause]]

\* Mutant: any skip cause will do after an entry that stopped the plan.
ScanAnyCause(acc, s) ==
  LET known == /\ s.status \in EntryStatuses
               /\ s.status = "SKIPPED" <=> s.cause # NoCause
      fits == IF acc.stopped THEN s.status \in {"PENDING", "SKIPPED"}
              ELSE s.status # "SKIPPED" /\ (acc.frontier => s.status = "PENDING")
      stops == ~acc.stopped /\ Stops(s.status, policy)
  IN [ok       |-> acc.ok /\ known /\ fits,
      frontier |-> acc.frontier \/ (~acc.stopped /\ s.status \in {"PENDING", "RUNNING"}),
      stopped  |-> acc.stopped \/ stops,
      cause    |-> IF stops THEN StopCause(s.status, policy) ELSE acc.cause]

\* One iteration of validateSerialShape's loop.
Scan(acc, s) ==
  LET known == /\ s.status \in EntryStatuses
               /\ s.status = "SKIPPED" <=> s.cause # NoCause
      fits ==
        IF acc.stopped THEN s.status = "PENDING" \/ (s.status = "SKIPPED" /\ s.cause = acc.cause)
        ELSE s.status # "SKIPPED" /\ (acc.frontier => s.status = "PENDING")
      stops == ~acc.stopped /\ Stops(s.status, policy)
  IN [ok       |-> acc.ok /\ known /\ fits,
      frontier |-> acc.frontier \/ (~acc.stopped /\ s.status \in {"PENDING", "RUNNING"}),
      stopped  |-> acc.stopped \/ stops,
      cause    |-> IF stops THEN StopCause(s.status, policy) ELSE acc.cause]

ScanAccepts(states) ==
  FoldLeft(Scan, [ok |-> TRUE, frontier |-> FALSE, stopped |-> FALSE, cause |-> NoCause],
           states).ok

Accepted(answer) == MembersMatch(answer) /\ ScanAccepts(Ordered(answer))

Rewritten(answer, states) ==
  [k \in 1..N |-> [entry  |-> answer[k].entry,
                   status |-> states[answer[k].entry].status,
                   cause  |-> states[answer[k].entry].cause]]

-----------------------------------------------------------------------------
Init == policy \in Policies /\ loaded \in Answers

\* The decision is taken and applied; an empty one writes nothing.
Advance ==
  /\ Accepted(loaded)
  /\ \E d \in Candidates(Ordered(loaded), policy) :
       /\ Decides(Ordered(loaded), policy, d)
       /\ loaded' = Rewritten(loaded, Applied(Ordered(loaded), d))
  /\ UNCHANGED policy

\* The running entry ends, as DecideEntryCompletion may end it.
EndEntry ==
  /\ MembersMatch(loaded)
  /\ \E k \in 1..N, ending \in {"SUCCEEDED", "FAILED", "CANCELED", "ABORTED"} :
       /\ loaded[k].status = "RUNNING"
       /\ loaded' = [loaded EXCEPT ![k].status = ending]
  /\ UNCHANGED policy

Next == Advance \/ EndEntry
Spec == Init /\ [][Next]_vars

-----------------------------------------------------------------------------
(* Properties *)

\* The scan accepts exactly the vectors of serial shape, whatever is wrong with
\* the others and wherever the loop notices it, and on those it accepts there
\* is exactly one decision.
ScanMeansShape ==
  MembersMatch(loaded) =>
    /\ ScanAccepts(Ordered(loaded)) <=> SerialShape(Ordered(loaded), policy)
    /\ ScanAccepts(Ordered(loaded)) =>
         Cardinality({d \in Candidates(Ordered(loaded), policy) :
                        Decides(Ordered(loaded), policy, d)}) = 1

\* From every accepted vector, also one whose successors were skipped only in
\* part, the entries are all driven to a terminal status.
AcceptedIsDrivenToTheEnd ==
  Accepted(loaded) ~> \A k \in DOMAIN loaded : loaded[k].status \in TerminalEntryStatuses
=============================================================================
