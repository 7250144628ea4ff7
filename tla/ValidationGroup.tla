--------------------------- MODULE ValidationGroup ---------------------------
(***************************************************************************)
(* A validation group of the node runtime (domain/node/validation.go):     *)
(* rounds of reads under a poller, the stability clock of every branch,    *)
(* the observations it stages, the verdict, and the phase the step ends    *)
(* in.  The sink that receives the facts keeps the last final of a member  *)
(* and the last group fact (external); TopologyAccepted is what            *)
(* domain/evidence then demands of the commit made of them and the phase.  *)
(*                                                                         *)
(* Time is in ticks of the poll interval.  A reading is reduced to whether *)
(* the assertion held; an error to what the classification tells apart.    *)
(***************************************************************************)
EXTENDS Integers, SequencesExt

CONSTANTS
  Branches,   \* the ids of the branches, in order
  Reads,      \* the members in the order of one round: [branch, node]
  MaxWait,    \* ticks until the poller times out
  Stability,  \* ticks a branch must hold
  Horizon     \* bound of the clock; a tick may win against an expired timer

ASSUME TicksAssumption ==
  /\ MaxWait \in Nat \ {0} /\ Stability \in Nat \ {0} /\ Horizon \in Nat
  /\ MaxWait <= Horizon

BranchIds == ToSet(Branches)
Members == ToSet(Reads)
MembersOf(id) == {m \in Members : m.branch = id}
Place(id) == CHOOSE b \in DOMAIN Branches : Branches[b] = id

\* No two branches share an id and no member is listed twice; a round reads branch
\* after branch.  A branch may be empty; a plan has no group without any member.
ASSUME RoundAssumption ==
  /\ Branches \in Seq(BranchIds) /\ IsInjective(Branches) /\ "none" \notin BranchIds
  /\ Reads \in Seq([branch : BranchIds, node : {Reads[i].node : i \in DOMAIN Reads}])
  /\ IsInjective(Reads) /\ Reads # <<>>
  /\ \A i, j \in DOMAIN Reads : i < j => Place(Reads[i].branch) <= Place(Reads[j].branch)

VARIABLES
  now, parent,   \* the clock; "alive", "canceled" or "deadline"
  place,         \* "read", "wait", "judge", "emit", "done"
  since,         \* branch index -> tick it holds from, Never
  last,          \* member -> last evaluation, Unread
  recorded,      \* the recorder's last state of a member, Unread
  staged,        \* what the sink was given, in order
  terminal,      \* the group fact the sink holds, or NoTerminal
  cause,         \* the poll's error, "none"
  phase,         \* the phase on record
  history        \* the rounds read: [at, read], read a sequence of outcomes

vars == <<now, parent, place, since, last, recorded, staged, terminal, cause,
          phase, history>>

Never == -1
Unread == [passed |-> FALSE, reason |-> "unread"]
NoTerminal == [reason |-> "none", winner |-> "none", members |-> {}]
Raw == {"rawCanceled", "rawDeadline"}
SinkErrors == {"system", "rawDeadline"}
Causes == Raw \cup {"none", "system", "timeout", "parentCanceled", "parentDeadline"}
Dispositions == {"won", "satisfied_not_winner", "not_satisfied", "not_observed"}
Reasons == {"passed", "timeout", "canceled", "system_error"}

validationReason(passed) == IF passed THEN "satisfied" ELSE "normal_unsatisfied"
Evaluated(passed) == [passed |-> passed, reason |-> validationReason(passed)]
ReadError == [passed |-> FALSE, reason |-> "system_error"]

\* What a member may be known as: unread, read, or read in vain.
States == {Unread, Evaluated(TRUE), Evaluated(FALSE), ReadError}
FactReasons == Reasons \cup {"satisfied", "normal_unsatisfied"}
Fact(m, state, final, disposition) ==
  [member |-> m, passed |-> state.passed, reason |-> state.reason, final |-> final,
   disposition |-> disposition]

TypeOK ==
  /\ now \in 0..Horizon /\ parent \in {"alive", "canceled", "deadline"}
  /\ place \in {"read", "wait", "judge", "emit", "done"}
  /\ since \in [DOMAIN Branches -> {Never} \cup 0..Horizon]
  /\ last \in [Members -> States] /\ recorded \in [Members -> States]
  /\ staged \in Seq([member : Members, passed : BOOLEAN, reason : FactReasons,
                     final : BOOLEAN, disposition : Dispositions \cup {"none"}])
  /\ terminal \in [reason : Reasons \cup {"none"}, winner : BranchIds \cup {"none"},
                    members : {{}, Members}]
  /\ cause \in Causes /\ phase \in {"VALIDATING", "SUCCEEDED", "FAILED", "CANCELED"}
  /\ history \in Seq([at : 0..Horizon, read : Seq(BOOLEAN)]) /\ history # <<>>

\* A round begins at a tick and has read nothing.
Begun(tick) == [at |-> tick, read |-> <<>>]
round == history[Len(history)]

Init ==
  /\ now = 0 /\ parent = "alive" /\ place = "read"
  /\ since = [b \in DOMAIN Branches |-> Never]
  /\ last = [m \in Members |-> Unread] /\ recorded = last
  /\ staged = <<>> /\ terminal = NoTerminal
  /\ cause = "none" /\ phase = "VALIDATING" /\ history = <<Begun(0)>>

-----------------------------------------------------------------------------
(* One round of reads: each member is read and what was read is staged.    *)

\* record: a state equal to the last one recorded is not staged again; the sink may
\* refuse what is staged.
record(m, state, accepted) ==
  IF recorded[m] = state THEN accepted /\ UNCHANGED <<recorded, staged>>
  ELSE /\ recorded' = [recorded EXCEPT ![m] = state]
       /\ staged' = IF accepted THEN Append(staged, Fact(m, state, FALSE, "none")) ELSE staged

ExpiredBy == IF parent = "canceled" THEN "rawCanceled" ELSE "rawDeadline"
PollExpired == parent # "alive" \/ now >= MaxWait
ByParent == IF parent = "canceled" THEN "parentCanceled" ELSE "parentDeadline"

\* Poller.Run: what an error of the condition makes of the poll.
PollError(kind) ==
  IF kind \notin Raw \/ ~PollExpired \/ kind # ExpiredBy THEN kind
  ELSE IF parent # "alive" THEN ByParent ELSE "timeout"

\* A branch without members does not pass.
BranchPassed(b) ==
  /\ MembersOf(Branches[b]) # {}
  /\ \A k \in DOMAIN Reads : Reads[k].branch = Branches[b] => round.read[k]
\* Mutant: the clock of a branch that read false keeps running.
HeldWithoutReset == [b \in DOMAIN Branches |->
  IF since[b] # Never THEN since[b] ELSE IF BranchPassed(b) THEN now ELSE Never]
Held == [b \in DOMAIN Branches |->
  IF ~BranchPassed(b) THEN Never ELSE IF since[b] = Never THEN now ELSE since[b]]
Winners == {b \in DOMAIN Branches : Held[b] # Never /\ now - Held[b] >= Stability}
\* The loop stops at the winner: later branches keep the clock they had.
Clocks == [b \in DOMAIN Branches |->
  IF \E w \in Winners : w < b THEN since[b] ELSE Held[b]]

\* Mutant: a satisfied branch is named whatever the verdict.
DispositionBlind(id, seen, reason, winner) ==
  IF id = winner \/ \A m \in MembersOf(id) : seen[m].passed
  THEN "won" ELSE "not_satisfied"
branchDisposition(id, seen, reason, winner) ==
  LET observed == MembersOf(id) # {} /\ \A m \in MembersOf(id) : seen[m] # Unread
      satisfied == observed /\ \A m \in MembersOf(id) : seen[m].passed
  IN IF id = winner THEN "won"
     ELSE IF reason = "passed" /\ satisfied THEN "satisfied_not_winner"
     ELSE IF observed THEN "not_satisfied" ELSE "not_observed"

\* recordGroupFinal: one final fact for each member, then the group fact; the
\* sink may refuse the one at `refused` (0: none is).
GroupFinals(seen, reason, winner) ==
  [i \in DOMAIN Reads |->
     LET m == Reads[i]
         why == IF reason # "passed" THEN reason
                ELSE IF seen[m].passed THEN "passed"
                ELSE IF seen[m] = Unread THEN reason ELSE seen[m].reason
     IN Fact(m, [passed |-> seen[m].passed, reason |-> why], TRUE,
             branchDisposition(m.branch, seen, reason, winner))]
recordGroupFinal(reason, winner, refused) ==
  LET finals == GroupFinals(last, reason, winner)
      count == IF refused = 0 THEN Len(finals) ELSE refused - 1
  IN /\ staged' = staged \o SubSeq(finals, 1, count)
     /\ terminal' = IF refused = 0 THEN [reason |-> reason, winner |-> winner, members |-> Members]
                    ELSE terminal
Refusals == 0..(Len(Reads) + 1)

\* The poll goes on after an error that passes, and ends with any other.
Fails(kind) ==
  IF kind = "retry" THEN place' = "wait" /\ UNCHANGED cause
  ELSE place' = "judge" /\ cause' = PollError(kind)

Reading == place = "read" /\ Len(round.read) < Len(Reads)
NextMember == Reads[Len(round.read) + 1]
Remember(state) == last' = [last EXCEPT ![NextMember] = state]

\* The next member of the round is read and holds or not.
ReadNext(ok) ==
  /\ Reading
  /\ Remember(Evaluated(ok)) /\ record(NextMember, Evaluated(ok), TRUE)
  /\ history' = [history EXCEPT ![Len(history)].read = Append(@, ok)]
  /\ UNCHANGED <<now, parent, place, since, terminal, cause, phase>>

\* It cannot be read, or what was read cannot be compared: the round is over.
ReadFails(compared, kind) ==
  /\ Reading
  /\ kind \in IF compared THEN {"system"} ELSE Raw \cup {"retry", "system"}
  /\ IF compared THEN Remember(ReadError) ELSE UNCHANGED last
  /\ record(NextMember, ReadError, TRUE)
  /\ Fails(kind)
  /\ UNCHANGED <<now, parent, since, terminal, phase, history>>

\* What was read of it cannot be staged.
SinkFails(state, kind) ==
  /\ Reading
  /\ \/ Remember(state)
     \/ state = ReadError /\ UNCHANGED last
  /\ record(NextMember, state, FALSE)
  /\ Fails(kind)
  /\ UNCHANGED <<now, parent, since, terminal, phase, history>>

\* All were read: the clocks of the branches move, and the first that held long
\* enough wins.
Conclude ==
  /\ place = "read" /\ Len(round.read) = Len(Reads)
  /\ since' = Clocks
  /\ IF Winners = {} THEN place' = "wait" /\ UNCHANGED <<staged, terminal, cause>>
     ELSE \E refused \in Refusals :
            LET w == CHOOSE w \in Winners : \A v \in Winners : w <= v
            IN /\ recordGroupFinal("passed", Branches[w], refused)
               /\ IF refused = 0 THEN place' = "emit" /\ UNCHANGED cause
                  ELSE \E kind \in SinkErrors : Fails(kind)
  /\ UNCHANGED <<now, parent, last, recorded, phase, history>>

Round ==
  \/ \E ok \in BOOLEAN : ReadNext(ok)
  \/ \E compared \in BOOLEAN, kind \in Raw \cup {"retry", "system"} : ReadFails(compared, kind)
  \/ \E state \in States \ {Unread}, kind \in SinkErrors : SinkFails(state, kind)
  \/ Conclude

Tick ==
  /\ place = "wait" /\ now < Horizon
  /\ now' = now + 1 /\ place' = "read" /\ history' = Append(history, Begun(now + 1))
  /\ UNCHANGED <<parent, since, last, recorded, staged, terminal, cause, phase>>

\* Mutant: the poller watches its parent only.
ExpireWithParent ==
  /\ place = "wait" /\ parent # "alive"
  /\ cause' = ByParent /\ place' = "judge"
  /\ UNCHANGED <<now, parent, since, last, recorded, staged, terminal, phase, history>>
Expire ==
  /\ place = "wait" /\ PollExpired
  /\ cause' = IF parent # "alive" THEN ByParent ELSE "timeout"
  /\ place' = "judge"
  /\ UNCHANGED <<now, parent, since, last, recorded, staged, terminal, phase, history>>

ParentEnds ==
  /\ parent = "alive" /\ place # "done"
  /\ parent' \in {"canceled", "deadline"}
  /\ UNCHANGED <<now, place, since, last, recorded, staged, terminal, cause, phase, history>>

validationTerminalReason(c) ==
  IF c \in {"rawCanceled", "parentCanceled", "rawDeadline"} THEN "canceled"
  ELSE IF c \in {"timeout", "parentDeadline"} THEN "timeout" ELSE "system_error"

\* The poll failed: the finals are staged again, under the reason it failed for.
Judge(refused) ==
  /\ place = "judge"
  /\ recordGroupFinal(validationTerminalReason(cause), "none", refused)
  /\ place' = "emit"
  /\ UNCHANGED <<now, parent, since, last, recorded, cause, phase, history>>

failurePhase == IF parent = "alive" THEN "FAILED" ELSE "CANCELED"

\* SUCCEEDED is emitted under the parent context and may be refused.
Emit ==
  /\ place = "emit" /\ place' = "done"
  /\ phase' \in IF cause = "none" THEN {"SUCCEEDED", failurePhase} ELSE {failurePhase}
  /\ UNCHANGED <<now, parent, since, last, recorded, staged, terminal, cause, history>>

Done == place = "done" /\ UNCHANGED vars

Next ==
  \/ Round \/ Tick \/ Expire \/ ParentEnds \/ Emit \/ Done
  \/ \E refused \in Refusals : Judge(refused)

\* Every statement of the poll runs on; Go's ticker and timer are both served.
Spec == Init /\ [][Next]_vars
        /\ WF_vars(Round \/ Tick \/ Expire \/ (\E r \in Refusals : Judge(r)) \/ Emit)

-----------------------------------------------------------------------------
(* What domain/evidence demands.                                           *)

IsFinal(m, i) == staged[i].final /\ staged[i].member = m
FinalOf(m) ==
  LET at == CHOOSE i \in DOMAIN staged :
              IsFinal(m, i) /\ \A j \in DOMAIN staged : IsFinal(m, j) => j <= i
  IN staged[at]

Concluded == {m \in Members : \E i \in DOMAIN staged : IsFinal(m, i)}

\* ValidationGroupTerminalObservation.Validate
GroupFactValid ==
  /\ terminal.members # {}
  /\ IF terminal.reason = "passed" THEN \E m \in terminal.members : m.branch = terminal.winner
     ELSE terminal.winner = "none"

MembersFit ==
  \A m \in terminal.members :
    /\ m \in Concluded
    /\ FinalOf(m).disposition = "won" =>
         terminal.reason = "passed" /\ m.branch = terminal.winner
    /\ FinalOf(m).disposition \in {"won", "satisfied_not_winner"} => FinalOf(m).passed
    /\ terminal.reason = "passed" /\ m.branch = terminal.winner
         => FinalOf(m).disposition = "won"

validationTerminalMatchesPhase ==
  \/ terminal.reason = "passed" /\ phase = "SUCCEEDED"
  \/ terminal.reason \in {"timeout", "system_error"} /\ phase = "FAILED"
  \/ terminal.reason = "canceled" /\ phase = "CANCELED"

\* appendGroupTopologyViolations, for the facts that the sink kept: a final that no
\* group fact expects is refused as well.
TopologyAccepted ==
  /\ terminal # NoTerminal => GroupFactValid /\ MembersFit /\ validationTerminalMatchesPhase
  /\ Concluded \subseteq terminal.members

-----------------------------------------------------------------------------
(* Properties.                                                             *)

Complete(r) == Len(r.read) = Len(Reads)
Truth(r, id) == \A k \in 1..Len(r.read) : Reads[k].branch = id => r.read[k]

\* A verdict "passed" names a branch that every full round of a span of at
\* least Stability ticks read true in all of its members together: passes of
\* different rounds are not pieced together (docs/domains/node.md).
WinnerHeldTogether ==
  \A t \in {terminal.winner} \ {"none"} :
    \E i \in DOMAIN history :
      /\ round.at - history[i].at >= Stability
      /\ Complete(history[i]) /\ Complete(round)
      /\ \A j \in i..Len(history) : Complete(history[j]) => Truth(history[j], t)

\* The reason is made of the error of the poll, the phase later and of the state of the
\* parent: they tell the same only of a poll that passed and whose SUCCEEDED was taken,
\* of a failure of its own while the parent lives on, and of a cancellation when the
\* parent has ended.  (A deadline of the parent is called a timeout, and CANCELED.)
ReasonIsPhase ==
  \/ cause = "none" /\ phase = "SUCCEEDED"
  \/ cause \in {"timeout", "system"} /\ parent = "alive"
  \/ cause \in Raw \cup {"parentCanceled"} /\ parent # "alive"

\* Whichever errors, refusals and second verdicts came before: the group fact and the
\* finals of its members fit each other, and the commit of a finished group is refused
\* exactly when reason and phase were told apart, or when the sink took finals and not
\* the fact of their group (StepTransitionCommit.Validate, recordGroupFinal).
VerdictIsAccepted ==
  /\ terminal # NoTerminal => GroupFactValid /\ MembersFit
  /\ place = "done" =>
       (TopologyAccepted <=> Concluded = {} \/ (terminal # NoTerminal /\ ReasonIsPhase))

\* A losing branch is called satisfied only if the round of the verdict read
\* all of it true: no outcome of an earlier round is left in `last`.
SatisfiedInTheSameRound ==
  \A i \in DOMAIN staged : staged[i].disposition = "satisfied_not_winner" =>
    Complete(round) /\ Truth(round, staged[i].member.branch)

\* What a member's observations tell is its readings without repetition: a state
\* is never staged twice in a row, and while the poll goes on the last one staged is
\* the last one read.
Told(m, i) == ~staged[i].final /\ staged[i].member = m
ObservationsTellTheChanges ==
  /\ \A i, j \in DOMAIN staged :
       i < j /\ Told(staged[i].member, i) /\ Told(staged[i].member, j)
         /\ (\A k \in (i + 1)..(j - 1) : ~Told(staged[i].member, k))
       => staged[i].reason # staged[j].reason
  /\ place \in {"read", "wait"} =>
       \A k \in 1..Len(round.read) : \E i \in DOMAIN staged :
         /\ Told(Reads[k], i) /\ staged[i].reason = validationReason(round.read[k])
         /\ \A j \in DOMAIN staged : Told(Reads[k], j) => j <= i

\* A step is CANCELED only when the context of the run ended, and SUCCEEDED only on a
\* verdict "passed" that the sink holds in full: that commit is never refused for its
\* groups.
PhaseIsGrounded ==
  /\ phase = "CANCELED" => parent # "alive"
  /\ phase = "SUCCEEDED" => terminal.reason = "passed" /\ TopologyAccepted

\* A group that is polled comes to an end: success, its timeout, an error or
\* the end of its parent.
PollingEnds == <>(place = "done")

\* What the group leaves on record is coherent and true: finals that fit the group fact
\* and are refused by the evidence commit in the named cases alone, losers called
\* satisfied by the same round, observations that tell every change, and a phase that
\* fits (validation.go, commits.go).
RecordIsTrue ==
  TypeOK /\ VerdictIsAccepted /\ SatisfiedInTheSameRound /\ ObservationsTellTheChanges /\ PhaseIsGrounded
=============================================================================
