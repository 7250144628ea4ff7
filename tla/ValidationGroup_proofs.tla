------------------------- MODULE ValidationGroup_proofs -------------------------
(***************************************************************************)
(* Proofs that a verdict rests on one branch that read true together, and  *)
(* that what a validation group leaves on record is coherent and true, for *)
(* any branches, members, waits and clocks.                                *)
(***************************************************************************)
EXTENDS ValidationGroup, WellFoundedInduction, SequenceTheorems, TLAPS

Facts == [member : Members, passed : BOOLEAN, reason : FactReasons,
          final : BOOLEAN, disposition : Dispositions \cup {"none"}]

\* The round under way is the one of the present tick and has not read too much.
RoundFits == round.at = now /\ Len(round.read) <= Len(Reads)

\* What is known of a member is what this round read of it.
SeenIsRead ==
  \A k \in 1..Len(round.read) :
    last[Reads[k]] = Evaluated(round.read[k]) /\ recorded[Reads[k]] = Evaluated(round.read[k])

\* While the poll goes on nothing is decided; once it has ended there is a verdict or
\* a cause, and the phase fits them.
Undecided == place \in {"read", "wait", "judge"} => terminal = NoTerminal
CauseFits ==
  /\ place \in {"read", "wait"} => cause = "none"
  /\ place = "judge" => cause # "none"
  /\ place \in {"emit", "done"} /\ cause = "none" => terminal.reason = "passed"
PhaseFits ==
  /\ place # "done" => phase = "VALIDATING"
  /\ phase = "CANCELED" => parent # "alive"
  /\ phase = "SUCCEEDED" => cause = "none"

\* How the group ended: a parent that is blamed has ended, a verdict without a winner has
\* the reason of the cause, and the phase is that of the parent unless the group passed.
Blamed == {"parentCanceled", "parentDeadline"}
EndsFit ==
  /\ cause \in Blamed => parent # "alive"
  /\ place \in {"emit", "done"} /\ cause # "none" /\ terminal # NoTerminal =>
       terminal.reason = validationTerminalReason(cause)
  /\ place = "done" => phase = failurePhase \/ (cause = "none" /\ phase = "SUCCEEDED")

\* The clock of a branch started in a complete round, and every complete round since
\* whose result has been looked at read it true.
Looked(j) == j < Len(history) \/ place = "wait"
TrueSince(id, tick) ==
  \E i \in DOMAIN history :
    /\ history[i].at = tick /\ Looked(i) /\ Complete(history[i])
    /\ \A j \in i..Len(history) : Looked(j) /\ Complete(history[j]) => Truth(history[j], id)
ClocksAreTrue ==
  place \in {"read", "wait"} =>
    \A b \in DOMAIN Branches : since[b] # Never => TrueSince(Branches[b], since[b])

\* The verdict that the sink holds: it fits, and its finals are the last facts staged.
VerdictFits ==
  terminal # NoTerminal =>
    /\ terminal.members = Members /\ terminal.reason \in Reasons
    /\ terminal.reason = "passed" <=> terminal.winner # "none"
    /\ \A m \in MembersOf(terminal.winner) : last[m].passed
    /\ terminal.winner # "none" => MembersOf(terminal.winner) # {}
    /\ \E n \in Nat :
         /\ Len(staged) = n + Len(Reads)
         /\ \A k \in 1..Len(Reads) :
              staged[n + k] = GroupFinals(last, terminal.reason, terminal.winner)[k]
SatisfiedIsOver ==
  \A i \in DOMAIN staged :
    staged[i].disposition = "satisfied_not_winner" => place \notin {"read", "wait"}

\* A state staged for a member differs from the one staged before it ...
Between(m, i, j) == {k \in (i + 1)..(j - 1) : Told(m, k)}
ChangesAreTold ==
  \A i, j \in DOMAIN staged : \A m \in Members :
    i < j /\ Told(m, i) /\ Told(m, j) /\ Between(m, i, j) = {} => staged[i].reason # staged[j].reason
\* ... and the last one staged is the one on record.
LastTold(m, i) == Told(m, i) /\ \A j \in DOMAIN staged : Told(m, j) => j <= i
Recorded(m) ==
  /\ recorded[m] = Unread => \A i \in DOMAIN staged : ~Told(m, i)
  /\ recorded[m] # Unread =>
       \E i \in DOMAIN staged : LastTold(m, i) /\ staged[i].reason = recorded[m].reason
RecordIsTold == place \in {"read", "wait"} => \A m \in Members : Recorded(m)

IInv ==
  /\ TypeOK /\ RoundFits /\ SeenIsRead
  /\ Undecided /\ CauseFits /\ PhaseFits /\ EndsFit
  /\ ClocksAreTrue /\ WinnerHeldTogether
  /\ VerdictFits /\ SatisfiedIsOver /\ SatisfiedInTheSameRound
  /\ ChangesAreTold /\ RecordIsTold

-----------------------------------------------------------------------------
(* The constants, numbers and sequences.                                   *)

\* A set of numbers has a least one: the winner that the loop stops at exists.
LEMMA Least ==
  ASSUME NEW T \in SUBSET Nat, T # {}
  PROVE  \E x \in T : \A y \in T : x <= y
<1> DEFINE R == OpToRel(<, Nat)
<1>1. IsWellFoundedOn(R, Nat) BY NatLessThanWellFounded
<1>2. \A x, y \in Nat : <<y, x>> \in R <=> y < x BY DEF OpToRel
<1> HIDE DEF R
<1>3. PICK x \in T : \A y \in T : ~(<<y, x>> \in R) BY <1>1, WFMin
<1>4. \A y \in T : ~(y < x) BY <1>2, <1>3
<1> QED BY <1>4

\* Every member is read at exactly one place of the round.
LEMMA RoundIs ==
  /\ Len(Reads) \in Nat /\ DOMAIN Reads = 1..Len(Reads)
  /\ \A k \in 1..Len(Reads) : Reads[k] \in Members /\ Reads[k].branch \in BranchIds
  /\ \A m \in Members : m.branch \in BranchIds /\ \E k \in 1..Len(Reads) : Reads[k] = m
  /\ \A j, k \in 1..Len(Reads) : Reads[j] = Reads[k] => j = k
  /\ "none" \notin BranchIds /\ \A b \in DOMAIN Branches : Branches[b] \in BranchIds
  /\ DOMAIN Branches \in SUBSET Nat /\ Members # {}
<1> DEFINE S == [branch : BranchIds, node : {Reads[i].node : i \in DOMAIN Reads}]
<1>1. Reads \in Seq(S) /\ Reads # <<>> /\ "none" \notin BranchIds /\ Branches \in Seq(BranchIds)
      BY RoundAssumption
<1>2. \A r \in S : r.branch \in BranchIds OBVIOUS
<1> HIDE DEF S
<1>3. Len(Reads) \in Nat /\ DOMAIN Reads = 1..Len(Reads) BY <1>1, LenProperties
<1>4. \A k \in 1..Len(Reads) : Reads[k] \in S BY <1>1, <1>3, ElementOfSeq
<1>5. \A k \in 1..Len(Reads) : Reads[k] \in Members BY <1>3 DEF Members, ToSet
<1>6. \A m \in Members : \E k \in 1..Len(Reads) : Reads[k] = m BY <1>3 DEF Members, ToSet
<1>7. \A j, k \in 1..Len(Reads) : Reads[j] = Reads[k] => j = k
      BY <1>3, RoundAssumption DEF IsInjective
<1>8. DOMAIN Branches = 1..Len(Branches) /\ Len(Branches) \in Nat BY <1>1, LenProperties
<1>9. \A b \in DOMAIN Branches : Branches[b] \in BranchIds BY DEF BranchIds, ToSet
<1>10. Len(Reads) # 0 BY <1>1, EmptySeq
<1>11. Members # {} BY <1>3, <1>5, <1>10
<1> QED BY <1>1, <1>2, <1>3, <1>4, <1>5, <1>6, <1>7, <1>8, <1>9, <1>11

\* The states that a member may be known by differ in their reasons.
LEMMA StatesAre ==
  /\ \A ok \in BOOLEAN : Evaluated(ok) \in States \ {Unread} /\ Evaluated(ok).passed = ok
                         /\ Evaluated(ok).reason = validationReason(ok)
  /\ Unread \in States /\ ReadError \in States \ {Unread}
  /\ \A s \in States : s.passed \in BOOLEAN
  /\ \A s, t \in States : s.reason = t.reason => s = t
  /\ \A s \in States \ {Unread} : s.reason \in FactReasons
  /\ ~Unread.passed
<1>1. \A ok \in BOOLEAN : Evaluated(ok) \in States \ {Unread} /\ Evaluated(ok).passed = ok
                           /\ Evaluated(ok).reason = validationReason(ok)
      BY DEF States, Evaluated, Unread, ReadError, validationReason
<1>2. Unread \in States /\ ReadError \in States \ {Unread} /\ ~Unread.passed
      BY DEF States, Evaluated, Unread, ReadError, validationReason
<1>3. Unread.reason = "unread" /\ Evaluated(TRUE).reason = "satisfied"
      /\ Evaluated(FALSE).reason = "normal_unsatisfied" /\ ReadError.reason = "system_error"
      BY DEF States, Evaluated, Unread, ReadError, validationReason
<1>4. \A s \in States : s = Unread \/ s = Evaluated(TRUE) \/ s = Evaluated(FALSE) \/ s = ReadError
      BY DEF States
<1>5. Unread.passed = FALSE /\ Evaluated(TRUE).passed = TRUE
      /\ Evaluated(FALSE).passed = FALSE /\ ReadError.passed = FALSE
      BY DEF States, Evaluated, Unread, ReadError
<1>6. \A s \in States : s.passed \in BOOLEAN BY <1>4, <1>5, Zenon
<1>7. \A s, t \in States : s.reason = t.reason => s = t BY <1>3, <1>4
<1>8. \A s \in States \ {Unread} : s.reason \in FactReasons
      BY <1>3, <1>4 DEF FactReasons, Reasons
<1> QED BY <1>1, <1>2, <1>6, <1>7, <1>8

\* What the types say of the sequences.
Rounds == [at : 0..Horizon, read : Seq(BOOLEAN)]
LEMMA Typed ==
  ASSUME TypeOK
  PROVE  /\ staged \in Seq(Facts) /\ history \in Seq(Rounds)
         /\ Len(staged) \in Nat /\ DOMAIN staged = 1..Len(staged)
         /\ Len(history) \in Nat /\ Len(history) >= 1 /\ DOMAIN history = 1..Len(history)
         /\ \A i \in 1..Len(staged) : staged[i] \in Facts
         /\ \A i \in 1..Len(history) : history[i] \in Rounds
         /\ round \in Rounds /\ Len(round.read) \in Nat
         /\ \A k \in 1..Len(round.read) : round.read[k] \in BOOLEAN
<1>1. staged \in Seq(Facts) /\ history \in Seq(Rounds) /\ history # <<>>
      BY DEF TypeOK, Facts, Rounds
<1>2. Len(staged) \in Nat /\ DOMAIN staged = 1..Len(staged) BY <1>1, LenProperties
<1>3. Len(history) \in Nat /\ DOMAIN history = 1..Len(history) /\ Len(history) >= 1
      BY <1>1, LenProperties, EmptySeq
<1>4. \A i \in 1..Len(staged) : staged[i] \in Facts BY <1>1, <1>2, ElementOfSeq
<1>5. \A i \in 1..Len(history) : history[i] \in Rounds BY <1>1, <1>3, ElementOfSeq
<1>6. round \in Rounds BY <1>3, <1>5 DEF round
<1>7. round.read \in Seq(BOOLEAN) BY <1>6 DEF Rounds
<1>8. Len(round.read) \in Nat BY <1>7, LenProperties
<1>9. \A k \in 1..Len(round.read) : round.read[k] \in BOOLEAN BY <1>7, ElementOfSeq
<1> QED BY <1>1, <1>2, <1>3, <1>4, <1>5, <1>6, <1>8, <1>9

-----------------------------------------------------------------------------
(* What one record and one verdict do.                                     *)

\* Staged is a fact about a state that is not the one on record, and nothing otherwise.
LEMMA RecordStages ==
  ASSUME TypeOK, NEW m \in Members, NEW state \in States \ {Unread}, NEW accepted \in BOOLEAN,
         record(m, state, accepted)
  PROVE  /\ recorded' = [recorded EXCEPT ![m] = state] /\ recorded' \in [Members -> States]
         /\ staged' \in Seq(Facts)
         /\ \/ staged' = staged /\ (accepted => recorded[m] = state)
            \/ accepted /\ recorded[m] # state
               /\ staged' = Append(staged, Fact(m, state, FALSE, "none"))
<1>1. recorded \in [Members -> States] /\ staged \in Seq(Facts) BY Typed DEF TypeOK
<1>2. CASE recorded[m] = state
  <2>1. accepted /\ recorded' = recorded /\ staged' = staged BY <1>2 DEF record
  <2>2. recorded = [recorded EXCEPT ![m] = state] BY <1>1, <1>2
  <2> QED BY <1>1, <1>2, <2>1, <2>2
<1>3. CASE recorded[m] # state
  <2>1. recorded' = [recorded EXCEPT ![m] = state] BY <1>3 DEF record
  <2>2. staged' = IF accepted THEN Append(staged, Fact(m, state, FALSE, "none")) ELSE staged
        BY <1>3 DEF record
  <2>3. state.passed \in BOOLEAN /\ state.reason \in FactReasons BY StatesAre
  <2>4. Fact(m, state, FALSE, "none") \in Facts BY <2>3 DEF Fact, Facts
  <2>5. staged' \in Seq(Facts) BY <1>1, <2>2, <2>4, AppendProperties
  <2>6. recorded' \in [Members -> States] BY <1>1, <2>1
  <2> QED BY <1>3, <2>1, <2>2, <2>5, <2>6
<1> QED BY <1>2, <1>3

\* The final of a member tells what was last known of it.
LEMMA FinalsAre ==
  ASSUME TypeOK, NEW reason \in Reasons, NEW winner \in BranchIds \cup {"none"}
  PROVE  /\ GroupFinals(last, reason, winner) \in Seq(Facts)
         /\ Len(GroupFinals(last, reason, winner)) = Len(Reads)
         /\ \A k \in 1..Len(Reads) :
              LET f == GroupFinals(last, reason, winner)[k]
              IN /\ f \in Facts /\ f.final /\ f.member = Reads[k]
                 /\ f.passed = last[Reads[k]].passed
                 /\ f.disposition = branchDisposition(Reads[k].branch, last, reason, winner)
<1> DEFINE G == GroupFinals(last, reason, winner)
<1>1. last \in [Members -> States] BY DEF TypeOK
<1>2. ASSUME NEW k \in 1..Len(Reads)
      PROVE  /\ G[k] \in Facts /\ G[k].final /\ G[k].member = Reads[k]
             /\ G[k].passed = last[Reads[k]].passed
             /\ G[k].disposition = branchDisposition(Reads[k].branch, last, reason, winner)
  <2> DEFINE m == Reads[k]
             why == IF reason # "passed" THEN reason
                    ELSE IF last[m].passed THEN "passed"
                    ELSE IF last[m] = Unread THEN reason ELSE last[m].reason
             state == [passed |-> last[m].passed, reason |-> why]
             disposition == branchDisposition(m.branch, last, reason, winner)
  <2>1. G[k] = Fact(m, state, TRUE, disposition) BY RoundIs DEF GroupFinals
  <2>2. m \in Members /\ last[m] \in States BY <1>1, RoundIs
  <2>3. last[m].passed \in BOOLEAN BY <2>2, StatesAre
  <2>4. last[m] # Unread => last[m].reason \in FactReasons BY <2>2, StatesAre
  <2>5. why \in FactReasons BY <2>4 DEF FactReasons, Reasons
  <2>6. disposition \in Dispositions BY DEF branchDisposition, Dispositions
  <2> HIDE DEF m, why, disposition
  <2>7. state.passed = last[m].passed /\ state.reason = why OBVIOUS
  <2>8. G[k] = [member |-> m, passed |-> last[m].passed, reason |-> why, final |-> TRUE,
                disposition |-> disposition]
        BY <2>1, <2>7 DEF Fact
  <2>9. G[k] \in Facts BY <2>2, <2>3, <2>5, <2>6, <2>8 DEF Facts
  <2>10. G[k].final /\ G[k].member = m /\ G[k].passed = last[m].passed
         /\ G[k].disposition = disposition
         BY <2>8
  <2> QED BY <2>9, <2>10 DEF m, disposition
<1>3. DOMAIN G = 1..Len(Reads) BY RoundIs DEF GroupFinals
<1>4. \A k \in DOMAIN G : G[k] \in Facts BY <1>2, <1>3
<1>5. G = [k \in 1..Len(Reads) |-> G[k]] BY <1>3 DEF GroupFinals
<1> HIDE DEF G
<1>6. G \in Seq(Facts) /\ Len(G) = Len(Reads)
  <2>1. G \in [1..Len(Reads) -> Facts] BY <1>3, <1>4, <1>5
  <2>2. G \in Seq(Facts) BY <2>1, RoundIs, SeqDef
  <2> QED BY <1>3, <2>2, LenProperties, RoundIs
<1> QED BY <1>2, <1>6 DEF G

\* A verdict stages finals, and what was staged before it stays.
LEMMA VerdictStages ==
  ASSUME TypeOK, NEW reason \in Reasons, NEW winner \in BranchIds \cup {"none"},
         NEW refused \in Refusals, recordGroupFinal(reason, winner, refused)
  PROVE  /\ staged' \in Seq(Facts)
         /\ \A i \in 1..Len(staged) : staged'[i] = staged[i]
         /\ \E count \in 0..Len(Reads) :
              /\ Len(staged') = Len(staged) + count /\ (refused = 0 => count = Len(Reads))
              /\ \A k \in 1..count :
                   staged'[Len(staged) + k] = GroupFinals(last, reason, winner)[k]
         /\ terminal' = IF refused = 0
                        THEN [reason |-> reason, winner |-> winner, members |-> Members]
                        ELSE terminal
<1> DEFINE G == GroupFinals(last, reason, winner)
           count == IF refused = 0 THEN Len(G) ELSE refused - 1
<1>1. G \in Seq(Facts) /\ Len(G) = Len(Reads) BY FinalsAre
<1>2. /\ staged' = staged \o SubSeq(G, 1, count)
      /\ terminal' = IF refused = 0
                     THEN [reason |-> reason, winner |-> winner, members |-> Members]
                     ELSE terminal
      BY DEF recordGroupFinal
<1>3. count \in 0..Len(Reads) /\ (refused = 0 => count = Len(Reads))
      BY <1>1, RoundIs DEF Refusals
<1>4. staged \in Seq(Facts) /\ Len(staged) \in Nat /\ Len(Reads) \in Nat BY Typed, RoundIs
<1> HIDE DEF G, count
<1>5. /\ SubSeq(G, 1, count) \in Seq(Facts) /\ Len(SubSeq(G, 1, count)) = count
      /\ \A k \in 1..count : SubSeq(G, 1, count)[k] = G[k]
  <2>1. 1 \in Int /\ count \in Int /\ \A k \in 1..count : G[k] \in Facts
        BY <1>1, <1>3, ElementOfSeq, RoundIs
  <2>2. SubSeq(G, 1, count) \in Seq(Facts)
        /\ Len(SubSeq(G, 1, count)) = (IF 1 <= count THEN count - 1 + 1 ELSE 0)
        /\ \A k \in 1..(count - 1 + 1) : SubSeq(G, 1, count)[k] = G[1 + k - 1]
        BY <1>1, <1>3, <2>1, RoundIs, SubSeqProperties
  <2>3. count \in Nat BY <1>3, <1>4
  <2>4. \A k \in 1..count : k \in 1..(count - 1 + 1) /\ 1 + k - 1 = k BY <2>3
  <2>5. (IF 1 <= count THEN count - 1 + 1 ELSE 0) = count BY <2>3
  <2> QED BY <2>2, <2>4, <2>5
<1> DEFINE new == SubSeq(G, 1, count)
<1>6. new \in Seq(Facts) /\ Len(new) = count /\ count \in Nat
      /\ \A k \in 1..count : new[k] = G[k]
      BY <1>3, <1>4, <1>5
<1>7. staged' = staged \o new BY <1>2
<1> HIDE DEF new
<1>8. staged' \in Seq(Facts) /\ Len(staged') = Len(staged) + count
      /\ \A i \in 1..Len(staged) + count :
           staged'[i] = IF i <= Len(staged) THEN staged[i] ELSE new[i - Len(staged)]
  <2> DEFINE all == staged \o new
  <2>1. all \in Seq(Facts) /\ Len(all) = Len(staged) + Len(new)
        /\ \A i \in 1..Len(staged) + Len(new) :
             all[i] = IF i <= Len(staged) THEN staged[i] ELSE new[i - Len(staged)]
        BY <1>4, <1>6, ConcatProperties
  <2> HIDE DEF all
  <2> QED BY <1>6, <1>7, <2>1 DEF all
<1>9. \A i \in 1..Len(staged) : staged'[i] = staged[i] BY <1>4, <1>6, <1>8
<1>10. ASSUME NEW k \in 1..count
       PROVE  staged'[Len(staged) + k] = G[k]
  <2>1. Len(staged) + k \in 1..Len(staged) + count /\ ~(Len(staged) + k <= Len(staged))
        /\ Len(staged) + k - Len(staged) = k
        BY <1>4, <1>6
  <2> QED BY <1>6, <1>8, <2>1
<1> QED BY <1>2, <1>3, <1>8, <1>9, <1>10 DEF G

-----------------------------------------------------------------------------
(* Types, and what is known while the poll goes on.                        *)

Shape == TypeOK /\ RoundFits /\ SeenIsRead /\ Undecided /\ CauseFits /\ PhaseFits

\* An error ends the poll with a cause, or the round if it passes.
LEMMA FailsIs ==
  ASSUME NEW kind \in Raw \cup SinkErrors \cup {"retry"}, cause = "none", Fails(kind)
  PROVE  /\ \/ kind = "retry" /\ place' = "wait" /\ cause' = "none"
            \/ kind # "retry" /\ place' = "judge" /\ cause' \in Causes \ {"none"}
         /\ cause' \in Blamed => parent # "alive"
<1>1. CASE kind = "retry" BY <1>1 DEF Fails, Blamed
<1>2. CASE kind # "retry"
  <2>1. place' = "judge" /\ cause' = PollError(kind) BY <1>2 DEF Fails
  <2>2. PollError(kind) \in {kind, "timeout", "parentCanceled", "parentDeadline"}
        BY DEF PollError, ByParent
  <2>3. kind \in Raw \cup {"system"} BY <1>2 DEF SinkErrors, Raw
  <2>4. PollError(kind) \in Blamed => parent # "alive" BY <2>3 DEF PollError, Blamed, Raw
  <2> QED BY <1>2, <2>1, <2>2, <2>3, <2>4 DEF Causes, Raw
<1> QED BY <1>1, <1>2

\* The place where the next member stands.
LEMMA NextIs ==
  ASSUME TypeOK, Reading
  PROVE  /\ place = "read" /\ Len(round.read) \in Nat
         /\ Len(round.read) + 1 \in 1..Len(Reads) /\ NextMember \in Members
<1>1. Len(round.read) \in Nat BY Typed
<1>2. place = "read" /\ Len(round.read) < Len(Reads) BY DEF Reading
<1>3. Len(round.read) + 1 \in 1..Len(Reads) BY <1>1, <1>2, RoundIs
<1> QED BY <1>1, <1>2, <1>3, RoundIs DEF NextMember

\* A read prolongs the round under way.
LEMMA ReadMoves ==
  ASSUME TypeOK, NEW ok \in BOOLEAN,
         history' = [history EXCEPT ![Len(history)].read = Append(@, ok)]
  PROVE  /\ history' \in Seq(Rounds) /\ history' # <<>> /\ Len(history') = Len(history)
         /\ \A j \in 1..Len(history) - 1 : history'[j] = history[j]
         /\ \A j \in 1..Len(history) : history'[j].at = history[j].at
         /\ round' = history'[Len(history)] /\ round'.at = round.at
         /\ Len(round'.read) = Len(round.read) + 1
         /\ \A k \in 1..Len(round.read) : round'.read[k] = round.read[k]
         /\ round'.read[Len(round.read) + 1] = ok
<1> DEFINE n == Len(history)
           new == [round EXCEPT !.read = Append(round.read, ok)]
<1>1. history \in Seq(Rounds) /\ n \in Nat /\ n >= 1 /\ DOMAIN history = 1..n /\ round \in Rounds
      BY Typed
<1>2. history[n] = round BY DEF round
<1>3. round.at \in 0..Horizon /\ round.read \in Seq(BOOLEAN)
      /\ round \in [at : 0..Horizon, read : Seq(BOOLEAN)]
      BY <1>1 DEF Rounds
<1>4. /\ Append(round.read, ok) \in Seq(BOOLEAN)
      /\ Len(Append(round.read, ok)) = Len(round.read) + 1
      /\ \A k \in 1..Len(round.read) : Append(round.read, ok)[k] = round.read[k]
      /\ Append(round.read, ok)[Len(round.read) + 1] = ok
      BY <1>3, AppendProperties
<1>5. new.at = round.at /\ new.read = Append(round.read, ok) BY <1>3
<1>6. new = [at |-> round.at, read |-> Append(round.read, ok)]
  <2>1. ASSUME NEW r \in [at : 0..Horizon, read : Seq(BOOLEAN)], NEW x
        PROVE  [r EXCEPT !.read = x] = [at |-> r.at, read |-> x]
        OBVIOUS
  <2> HIDE DEF new
  <2>2. new = [round EXCEPT !.read = Append(round.read, ok)] BY DEF new
  <2> QED BY <1>3, <2>1, <2>2
<1>7. new \in Rounds BY <1>3, <1>4, <1>6 DEF Rounds
<1>8. history' = [history EXCEPT ![n] = new] BY <1>2
<1> HIDE DEF new
<1>9. history' = [j \in 1..n |-> IF j = n THEN new ELSE history[j]] BY <1>1, <1>8
<1>10. \A j \in 1..n : history[j] \in Rounds BY <1>1, ElementOfSeq
<1>11. history' \in [1..n -> Rounds] BY <1>7, <1>9, <1>10
<1>12. history' \in Seq(Rounds) /\ DOMAIN history' = 1..n BY <1>1, <1>11, SeqDef
<1>13. Len(history') = n /\ history' # <<>> BY <1>1, <1>12, LenProperties, EmptySeq
<1>14. history'[n] = new /\ \A j \in 1..n - 1 : history'[j] = history[j] BY <1>1, <1>9
<1>15. round' = new BY <1>13, <1>14 DEF round
<1>16. \A j \in 1..n : history'[j].at = history[j].at
  <2> TAKE j \in 1..n
  <2>1. CASE j = n BY <1>2, <1>5, <1>14, <2>1
  <2>2. CASE j # n BY <1>1, <1>14, <2>2
  <2> QED BY <2>1, <2>2
<1> QED BY <1>4, <1>5, <1>12, <1>13, <1>14, <1>15, <1>16

\* A tick begins another.
LEMMA TickMoves ==
  ASSUME TypeOK, NEW tick \in 0..Horizon, history' = Append(history, Begun(tick))
  PROVE  /\ history' \in Seq(Rounds) /\ history' # <<>> /\ Len(history') = Len(history) + 1
         /\ \A j \in 1..Len(history) : history'[j] = history[j]
         /\ round'.at = tick /\ Len(round'.read) = 0
<1>1. history \in Seq(Rounds) BY Typed
<1>2. <<>> \in Seq(BOOLEAN) /\ Len(<<>>) = 0 OBVIOUS
<1>3. Begun(tick) \in Rounds BY <1>2 DEF Begun, Rounds
<1>4. Begun(tick).at = tick /\ Begun(tick).read = <<>> BY DEF Begun
<1>5. /\ history' \in Seq(Rounds) /\ history' # <<>> /\ Len(history') = Len(history) + 1
      /\ \A j \in 1..Len(history) : history'[j] = history[j]
      /\ history'[Len(history) + 1] = Begun(tick)
      BY <1>1, <1>3, AppendProperties
<1>6. round' = Begun(tick) BY <1>5 DEF round
<1> QED BY <1>2, <1>4, <1>5, <1>6

LEMMA InitShape == Init => Shape
<1> SUFFICES ASSUME Init PROVE Shape OBVIOUS
<1> USE DEF Init
<1>1. <<>> \in Seq(BOOLEAN) /\ Len(<<>>) = 0 /\ <<>> \in Seq(Facts) OBVIOUS
<1>2. Begun(0) \in Rounds /\ Begun(0).at = 0 /\ Begun(0).read = <<>>
  <2>1. 0 \in 0..Horizon BY TicksAssumption
  <2> QED BY <1>1, <2>1 DEF Begun, Rounds
<1>3. history \in Seq(Rounds) /\ history # <<>> /\ Len(history) = 1 /\ history[1] = Begun(0)
      BY <1>2
<1>4. round.at = 0 /\ round.read = <<>> BY <1>2, <1>3 DEF round
<1>5. TypeOK
  <2>1. now \in 0..Horizon BY TicksAssumption
  <2>2. since \in [DOMAIN Branches -> {Never} \cup 0..Horizon] BY DEF Never
  <2>3. last \in [Members -> States] /\ recorded \in [Members -> States] BY StatesAre
  <2>4. terminal \in [reason : Reasons \cup {"none"}, winner : BranchIds \cup {"none"},
                      members : {{}, Members}]
        BY DEF NoTerminal
  <2> QED BY <1>1, <1>3, <2>1, <2>2, <2>3, <2>4 DEF TypeOK, Causes, Facts, Rounds
<1>6. RoundFits BY <1>1, <1>4, RoundIs DEF RoundFits
<1>7. SeenIsRead BY <1>1, <1>4 DEF SeenIsRead
<1>8. Undecided /\ CauseFits /\ PhaseFits BY DEF Undecided, CauseFits, PhaseFits
<1> QED BY <1>5, <1>6, <1>7, <1>8 DEF Shape

\* The members read so far are others than the next one.
LEMMA OthersStay ==
  ASSUME TypeOK, Reading
  PROVE  \A k \in 1..Len(round.read) : Reads[k] \in Members /\ Reads[k] # NextMember
<1>1. Len(round.read) \in Nat /\ Len(round.read) + 1 \in 1..Len(Reads) BY NextIs
<1> TAKE k \in 1..Len(round.read)
<1>2. k \in 1..Len(Reads) /\ k # Len(round.read) + 1 BY <1>1, RoundIs
<1> QED BY <1>1, <1>2, RoundIs DEF NextMember

LEMMA ReadNextShape ==
  ASSUME Shape, NEW ok \in BOOLEAN, ReadNext(ok)
  PROVE  Shape'
<1> DEFINE m == NextMember
           k0 == Len(round.read)
<1>1. /\ TypeOK /\ RoundFits /\ SeenIsRead /\ Undecided /\ CauseFits /\ PhaseFits BY DEF Shape
<1>2. /\ Reading /\ record(m, Evaluated(ok), TRUE)
      /\ last' = [last EXCEPT ![m] = Evaluated(ok)]
      /\ history' = [history EXCEPT ![Len(history)].read = Append(@, ok)]
      /\ UNCHANGED <<now, parent, place, since, terminal, cause, phase>>
      BY DEF ReadNext, Remember
<1>3. k0 \in Nat /\ k0 + 1 \in 1..Len(Reads) /\ m \in Members /\ m = Reads[k0 + 1]
      BY <1>1, <1>2, NextIs DEF NextMember
<1>4. Evaluated(ok) \in States \ {Unread} BY StatesAre
<1>5. /\ recorded' = [recorded EXCEPT ![m] = Evaluated(ok)]
      /\ recorded' \in [Members -> States] /\ staged' \in Seq(Facts)
      BY <1>1, <1>2, <1>3, <1>4, RecordStages
<1>6. /\ history' \in Seq(Rounds) /\ history' # <<>> /\ round'.at = round.at
      /\ Len(round'.read) = k0 + 1 /\ \A k \in 1..k0 : round'.read[k] = round.read[k]
      /\ round'.read[k0 + 1] = ok
      BY <1>1, <1>2, ReadMoves
<1>7. last \in [Members -> States] /\ recorded \in [Members -> States] BY <1>1 DEF TypeOK
<1>8. TypeOK'
  <2>1. last' \in [Members -> States] BY <1>2, <1>4, <1>7
  <2> QED BY <1>1, <1>2, <1>5, <1>6, <2>1 DEF TypeOK, Facts, Rounds
<1>9. RoundFits' BY <1>1, <1>2, <1>3, <1>6, RoundIs DEF RoundFits
<1>10. SeenIsRead'
  <2>1. \A k \in 1..k0 : Reads[k] \in Members /\ Reads[k] # m BY <1>1, <1>2, OthersStay
  <2>2. ASSUME NEW k \in 1..k0
        PROVE  /\ last'[Reads[k]] = Evaluated(round'.read[k])
               /\ recorded'[Reads[k]] = Evaluated(round'.read[k])
    <3>1. last[Reads[k]] = Evaluated(round.read[k]) /\ recorded[Reads[k]] = Evaluated(round.read[k])
          BY <1>1 DEF SeenIsRead
    <3>2. last'[Reads[k]] = last[Reads[k]] /\ recorded'[Reads[k]] = recorded[Reads[k]]
          BY <1>2, <1>5, <1>7, <2>1
    <3>3. round'.read[k] = round.read[k] BY <1>6
    <3> QED BY <3>1, <3>2, <3>3
  <2>3. last'[m] = Evaluated(ok) /\ recorded'[m] = Evaluated(ok) BY <1>2, <1>3, <1>5, <1>7
  <2>4. /\ last'[Reads[k0 + 1]] = Evaluated(round'.read[k0 + 1])
        /\ recorded'[Reads[k0 + 1]] = Evaluated(round'.read[k0 + 1])
        BY <1>3, <1>6, <2>3
  <2>5. \A k \in 1..Len(round'.read) : k \in 1..k0 \/ k = k0 + 1 BY <1>3, <1>6
  <2> QED BY <2>2, <2>4, <2>5 DEF SeenIsRead
<1>11. (Undecided /\ CauseFits /\ PhaseFits)'
       BY <1>1, <1>2 DEF Undecided, CauseFits, PhaseFits
<1> QED BY <1>8, <1>9, <1>10, <1>11 DEF Shape

\* A round that is given up: what was read of it stays known.
GivesUp(state, accepted, kind) ==
  /\ Reading /\ (Remember(state) \/ UNCHANGED last)
  /\ record(NextMember, state, accepted) /\ Fails(kind) /\ (kind = "retry" => accepted)
  /\ UNCHANGED <<now, parent, since, terminal, phase, history>>

LEMMA GiveUpShape ==
  ASSUME Shape, NEW state \in States \ {Unread}, NEW accepted \in BOOLEAN,
         NEW kind \in Raw \cup SinkErrors \cup {"retry"}, GivesUp(state, accepted, kind)
  PROVE  Shape'
<1> DEFINE m == NextMember
<1>1. /\ TypeOK /\ RoundFits /\ SeenIsRead /\ Undecided /\ CauseFits /\ PhaseFits BY DEF Shape
<1> USE DEF GivesUp
<1>2. m \in Members /\ place = "read" /\ cause = "none" BY <1>1, NextIs DEF CauseFits
<1>3. /\ recorded' = [recorded EXCEPT ![m] = state]
      /\ recorded' \in [Members -> States] /\ staged' \in Seq(Facts)
      BY <1>1, <1>2, RecordStages
<1>4. last \in [Members -> States] /\ recorded \in [Members -> States] BY <1>1 DEF TypeOK
<1>5. last' = last \/ last' = [last EXCEPT ![m] = state] BY DEF Remember
<1>6. last' \in [Members -> States] BY <1>4, <1>5
<1>7. \/ place' = "wait" /\ cause' = "none"
      \/ place' = "judge" /\ cause' \in Causes \ {"none"}
      BY <1>2, FailsIs
<1>8. TypeOK' BY <1>1, <1>3, <1>6, <1>7 DEF TypeOK, Facts, Rounds, Causes
<1>9. round' = round BY DEF round
<1>10. RoundFits' BY <1>1, <1>9 DEF RoundFits
<1>11. SeenIsRead'
  <2>1. \A k \in 1..Len(round.read) : Reads[k] \in Members /\ Reads[k] # m
        BY <1>1, OthersStay
  <2>2. \A n \in Members : n # m => last'[n] = last[n] /\ recorded'[n] = recorded[n]
        BY <1>3, <1>4, <1>5
  <2> QED BY <1>1, <1>9, <2>1, <2>2 DEF SeenIsRead
<1>12. Undecided' /\ CauseFits' /\ PhaseFits'
       BY <1>1, <1>2, <1>7 DEF Undecided, CauseFits, PhaseFits
<1> QED BY <1>8, <1>10, <1>11, <1>12 DEF Shape

\* The loop over the branches finds its winner, the first that held long enough, and
\* every clock is a tick.
LEMMA WinnerIs ==
  ASSUME Winners # {}
  PROVE  (CHOOSE w \in Winners : \A v \in Winners : w <= v) \in Winners
<1>1. Winners \in SUBSET Nat BY RoundIs DEF Winners
<1>2. \E w \in Winners : \A v \in Winners : w <= v BY <1>1, Least
<1> HIDE DEF Winners
<1> QED BY <1>2

LEMMA HeldIs ==
  ASSUME TypeOK
  PROVE  /\ Held \in [DOMAIN Branches -> {Never} \cup 0..Horizon]
         /\ Clocks \in [DOMAIN Branches -> {Never} \cup 0..Horizon]
<1>1. now \in 0..Horizon /\ since \in [DOMAIN Branches -> {Never} \cup 0..Horizon] BY DEF TypeOK
<1>2. Held \in [DOMAIN Branches -> {Never} \cup 0..Horizon] BY <1>1 DEF Held
<1>3. Clocks = [b \in DOMAIN Branches |-> IF \E w \in Winners : w < b THEN since[b] ELSE Held[b]]
      BY DEF Clocks
<1> HIDE DEF Held, Winners
<1> QED BY <1>1, <1>2, <1>3

LEMMA ConcludeIs ==
  ASSUME Shape, Conclude
  PROVE  /\ place = "read" /\ Complete(round) /\ since' = Clocks
         /\ UNCHANGED <<now, parent, last, recorded, phase, history>>
         /\ cause' \in Blamed => parent # "alive"
         /\ \/ Winners = {} /\ place' = "wait" /\ UNCHANGED <<staged, terminal, cause>>
            \/ \E w \in Winners, refused \in Refusals :
                 /\ recordGroupFinal("passed", Branches[w], refused)
                 /\ \/ refused = 0 /\ place' = "emit" /\ UNCHANGED cause
                    \/ refused # 0 /\ place' = "judge" /\ cause' \in Causes \ {"none"}
<1>1. /\ place = "read" /\ Complete(round) /\ since' = Clocks
      /\ UNCHANGED <<now, parent, last, recorded, phase, history>>
      BY DEF Conclude, Complete
<1>2. cause = "none" /\ "none" \notin Blamed BY <1>1 DEF Shape, CauseFits, Blamed
<1>3. CASE Winners = {} BY <1>1, <1>3, <1>2 DEF Conclude
<1>4. CASE Winners # {}
  <2> DEFINE w == CHOOSE w \in Winners : \A v \in Winners : w <= v
  <2>1. w \in Winners BY <1>4, WinnerIs
  <2>2. PICK refused \in Refusals :
          /\ recordGroupFinal("passed", Branches[w], refused)
          /\ IF refused = 0 THEN place' = "emit" /\ UNCHANGED cause
             ELSE \E kind \in SinkErrors : Fails(kind)
        BY <1>4 DEF Conclude
  <2> HIDE DEF w
  <2>3. refused # 0 => /\ place' = "judge" /\ cause' \in Causes \ {"none"}
                       /\ cause' \in Blamed => parent # "alive"
    <3> SUFFICES ASSUME refused # 0
                 PROVE  /\ place' = "judge" /\ cause' \in Causes \ {"none"}
                        /\ cause' \in Blamed => parent # "alive"
        OBVIOUS
    <3>1. PICK kind \in SinkErrors : Fails(kind) BY <2>2
    <3>2. kind # "retry" BY DEF SinkErrors
    <3> QED BY <1>2, <3>1, <3>2, FailsIs
  <2> QED BY <1>1, <1>2, <2>1, <2>2, <2>3
<1> QED BY <1>3, <1>4

LEMMA SameRound ==
  ASSUME SeenIsRead, RoundFits, UNCHANGED <<now, last, recorded, history>>
  PROVE  SeenIsRead' /\ RoundFits' /\ round' = round
<1>1. round' = round BY DEF round
<1> QED BY <1>1 DEF SeenIsRead, RoundFits

LEMMA ConcludeShape ==
  ASSUME Shape, Conclude
  PROVE  Shape'
<1>1. /\ TypeOK /\ RoundFits /\ SeenIsRead /\ Undecided /\ CauseFits /\ PhaseFits BY DEF Shape
<1>2. /\ place = "read" /\ since' = Clocks
      /\ UNCHANGED <<now, parent, last, recorded, phase, history>>
      BY ConcludeIs
<1>3. SeenIsRead' /\ RoundFits' BY <1>1, <1>2, SameRound
<1>4. since' \in [DOMAIN Branches -> {Never} \cup 0..Horizon] BY <1>1, <1>2, HeldIs
<1>5. cause = "none" /\ terminal = NoTerminal BY <1>1, <1>2 DEF CauseFits, Undecided
<1>6. CASE Winners = {} /\ place' = "wait" /\ UNCHANGED <<staged, terminal, cause>>
  <2>1. TypeOK' BY <1>1, <1>2, <1>4, <1>6 DEF TypeOK
  <2>2. Undecided' /\ CauseFits' /\ PhaseFits'
        BY <1>1, <1>2, <1>5, <1>6 DEF Undecided, CauseFits, PhaseFits
  <2> QED BY <1>3, <2>1, <2>2 DEF Shape
<1>7. ASSUME NEW w \in Winners, NEW refused \in Refusals,
             recordGroupFinal("passed", Branches[w], refused),
             \/ refused = 0 /\ place' = "emit" /\ UNCHANGED cause
             \/ refused # 0 /\ place' = "judge" /\ cause' \in Causes \ {"none"}
      PROVE  Shape'
  <2>1. Branches[w] \in BranchIds BY RoundIs DEF Winners
  <2>2. "passed" \in Reasons BY DEF Reasons
  <2>3. /\ staged' \in Seq(Facts)
        /\ terminal' = IF refused = 0
                       THEN [reason |-> "passed", winner |-> Branches[w], members |-> Members]
                       ELSE terminal
        BY <1>1, <1>7, <2>1, <2>2, VerdictStages
  <2>4. terminal' \in [reason : Reasons \cup {"none"}, winner : BranchIds \cup {"none"},
                       members : {{}, Members}]
        BY <1>1, <2>1, <2>2, <2>3 DEF TypeOK
  <2>5. TypeOK' BY <1>1, <1>2, <1>4, <1>7, <2>3, <2>4 DEF TypeOK, Facts
  <2>6. Undecided' BY <1>5, <1>7, <2>3 DEF Undecided
  <2>7. CauseFits' BY <1>5, <1>7, <2>3 DEF CauseFits
  <2>8. PhaseFits' BY <1>1, <1>2, <1>7 DEF PhaseFits
  <2> QED BY <1>3, <2>5, <2>6, <2>7, <2>8 DEF Shape
<1> QED BY <1>6, <1>7, ConcludeIs

LEMMA TickShape ==
  ASSUME Shape, Tick
  PROVE  Shape'
<1>1. /\ TypeOK /\ RoundFits /\ SeenIsRead /\ Undecided /\ CauseFits /\ PhaseFits BY DEF Shape
<1>2. /\ place = "wait" /\ now < Horizon /\ now' = now + 1 /\ place' = "read"
      /\ history' = Append(history, Begun(now + 1))
      /\ UNCHANGED <<parent, since, last, recorded, staged, terminal, cause, phase>>
      BY DEF Tick
<1>3. now + 1 \in 0..Horizon BY <1>1, <1>2, TicksAssumption DEF TypeOK
<1>4. /\ history' \in Seq(Rounds) /\ history' # <<>> /\ round'.at = now'
      /\ Len(round'.read) = 0
      BY <1>1, <1>2, <1>3, TickMoves
<1>5. TypeOK' BY <1>1, <1>2, <1>3, <1>4 DEF TypeOK, Rounds
<1>6. RoundFits' BY <1>4, RoundIs DEF RoundFits
<1>7. SeenIsRead' BY <1>4 DEF SeenIsRead
<1>8. Undecided' /\ CauseFits' /\ PhaseFits'
      BY <1>1, <1>2 DEF Undecided, CauseFits, PhaseFits
<1> QED BY <1>5, <1>6, <1>7, <1>8 DEF Shape

\* What the poll failed for is never read as a pass.
LEMMA TerminalReason ==
  ASSUME NEW c
  PROVE  validationTerminalReason(c) \in Reasons \ {"passed"}
BY DEF validationTerminalReason, Reasons

LEMMA JudgeShape ==
  ASSUME Shape, NEW refused \in Refusals, Judge(refused)
  PROVE  Shape'
<1>1. /\ TypeOK /\ RoundFits /\ SeenIsRead /\ Undecided /\ CauseFits /\ PhaseFits BY DEF Shape
<1>2. /\ place = "judge" /\ place' = "emit"
      /\ recordGroupFinal(validationTerminalReason(cause), "none", refused)
      /\ UNCHANGED <<now, parent, since, last, recorded, cause, phase, history>>
      BY DEF Judge
<1>3. SeenIsRead' /\ RoundFits' BY <1>1, <1>2, SameRound
<1>4. /\ staged' \in Seq(Facts)
      /\ terminal' = IF refused = 0
                     THEN [reason |-> validationTerminalReason(cause), winner |-> "none",
                           members |-> Members]
                     ELSE terminal
      BY <1>1, <1>2, TerminalReason, VerdictStages
<1>5. terminal' \in [reason : Reasons \cup {"none"}, winner : BranchIds \cup {"none"},
                     members : {{}, Members}]
      BY <1>1, <1>4, TerminalReason DEF TypeOK
<1>6. TypeOK' BY <1>1, <1>2, <1>4, <1>5 DEF TypeOK, Facts
<1>7. (Undecided /\ CauseFits /\ PhaseFits)'
      BY <1>1, <1>2 DEF Undecided, CauseFits, PhaseFits
<1> QED BY <1>3, <1>6, <1>7 DEF Shape

\* The steps that leave the clocks, the rounds, the members and the facts alone.
Quiet == Expire \/ ParentEnds \/ Emit \/ UNCHANGED vars
LEMMA QuietIs ==
  ASSUME Quiet
  PROVE  /\ UNCHANGED <<now, since, last, recorded, staged, terminal, history>>
         /\ place' = place \/ place' \in {"judge", "done"}
BY DEF Quiet, Expire, ParentEnds, Emit, vars

LEMMA QuietShape ==
  ASSUME Shape, Quiet
  PROVE  Shape'
<1>1. /\ TypeOK /\ RoundFits /\ SeenIsRead /\ Undecided /\ CauseFits /\ PhaseFits BY DEF Shape
<1>2. SeenIsRead' /\ RoundFits' BY <1>1, QuietIs, SameRound
<1>3. CASE Expire
  <2>1. TypeOK' BY <1>1, <1>3 DEF TypeOK, Expire, Causes, ByParent, Raw
  <2>2. (Undecided /\ CauseFits /\ PhaseFits)'
        BY <1>1, <1>3 DEF Undecided, CauseFits, PhaseFits, Expire, ByParent
  <2> QED BY <1>2, <2>1, <2>2 DEF Shape
<1>4. CASE ParentEnds
  <2>1. TypeOK' BY <1>1, <1>4 DEF TypeOK, ParentEnds
  <2>2. (Undecided /\ CauseFits /\ PhaseFits)'
        BY <1>1, <1>4 DEF Undecided, CauseFits, PhaseFits, ParentEnds
  <2> QED BY <1>2, <2>1, <2>2 DEF Shape
<1>5. CASE Emit
  <2>1. TypeOK' BY <1>1, <1>5 DEF TypeOK, Emit, failurePhase
  <2>2. (Undecided /\ CauseFits /\ PhaseFits)'
        BY <1>1, <1>5 DEF Undecided, CauseFits, PhaseFits, Emit, failurePhase
  <2> QED BY <1>2, <2>1, <2>2 DEF Shape
<1>6. CASE UNCHANGED vars
  <2>1. TypeOK' BY <1>1, <1>6 DEF TypeOK, vars
  <2>2. (Undecided /\ CauseFits /\ PhaseFits)'
        BY <1>1, <1>6 DEF Undecided, CauseFits, PhaseFits, vars
  <2> QED BY <1>2, <2>1, <2>2 DEF Shape
<1> QED BY <1>3, <1>4, <1>5, <1>6 DEF Quiet

\* What a step is to the proofs.
LEMMA StepIs ==
  ASSUME [Next]_vars
  PROVE  \/ \E ok \in BOOLEAN : ReadNext(ok)
         \/ \E state \in States \ {Unread}, accepted \in BOOLEAN,
              kind \in Raw \cup SinkErrors \cup {"retry"} : GivesUp(state, accepted, kind)
         \/ Conclude \/ Tick \/ Quiet
         \/ \E refused \in Refusals : Judge(refused)
<1>1. ASSUME NEW compared \in BOOLEAN, NEW kind \in Raw \cup {"retry", "system"},
             ReadFails(compared, kind)
      PROVE  GivesUp(ReadError, TRUE, kind) /\ kind \in Raw \cup SinkErrors \cup {"retry"}
  <2>1. kind \in Raw \cup SinkErrors \cup {"retry"} BY DEF SinkErrors
  <2> QED BY <1>1, <2>1 DEF ReadFails, GivesUp
<1>2. ASSUME NEW state \in States \ {Unread}, NEW kind \in SinkErrors, SinkFails(state, kind)
      PROVE  GivesUp(state, FALSE, kind)
  <2>1. kind # "retry" BY DEF SinkErrors
  <2> QED BY <1>2, <2>1 DEF SinkFails, GivesUp
<1>3. CASE Round
  <2>1. ReadError \in States \ {Unread} BY StatesAre
  <2> QED BY <1>1, <1>2, <1>3, <2>1 DEF Round
<1>4. CASE Tick \/ Expire \/ ParentEnds \/ Emit \/ Done \/ UNCHANGED vars
      BY <1>4 DEF Quiet, Done
<1>5. CASE \E refused \in Refusals : Judge(refused) BY <1>5
<1> QED BY <1>3, <1>4, <1>5 DEF Next

LEMMA ShapeStep ==
  ASSUME Shape, [Next]_vars
  PROVE  Shape'
BY StepIs, ReadNextShape, GiveUpShape, ConcludeShape, TickShape, JudgeShape, QuietShape

\* The parent that is blamed has ended and stays so; the verdict is of the cause, and
\* the phase of the parent.
LEMMA EndsStep ==
  ASSUME Shape, EndsFit, [Next]_vars
  PROVE  EndsFit'
<1>1. TypeOK /\ Undecided /\ CauseFits /\ PhaseFits BY DEF Shape
<1>2. ASSUME NEW ok \in BOOLEAN, ReadNext(ok) PROVE EndsFit'
      BY <1>2 DEF EndsFit, ReadNext, Reading
<1>3. ASSUME NEW state \in States \ {Unread}, NEW accepted \in BOOLEAN,
             NEW kind \in Raw \cup SinkErrors \cup {"retry"}, GivesUp(state, accepted, kind)
      PROVE  EndsFit'
  <2>1. cause = "none" /\ Fails(kind) /\ UNCHANGED parent
        BY <1>1, <1>3 DEF GivesUp, Reading, CauseFits
  <2>2. place' \in {"wait", "judge"} /\ (cause' \in Blamed => parent' # "alive")
        BY <2>1, FailsIs
  <2> QED BY <2>2 DEF EndsFit
<1>4. CASE Conclude
  <2>1. cause' \in Blamed => parent' # "alive" BY <1>4, ConcludeIs
  <2>2. place' # "done" /\ (place' = "emit" => cause' = "none")
        BY <1>1, <1>4, ConcludeIs DEF CauseFits
  <2> QED BY <2>1, <2>2 DEF EndsFit
<1>5. CASE Tick BY <1>5 DEF EndsFit, Tick
<1>6. ASSUME NEW refused \in Refusals, Judge(refused) PROVE EndsFit'
  <2>1. /\ place = "judge" /\ place' = "emit" /\ UNCHANGED <<cause, parent>>
        /\ recordGroupFinal(validationTerminalReason(cause), "none", refused)
        BY <1>6 DEF Judge
  <2>2. terminal = NoTerminal BY <1>1, <2>1 DEF Undecided
  <2>3. terminal' = NoTerminal \/ terminal'.reason = validationTerminalReason(cause)
        BY <2>1, <2>2 DEF recordGroupFinal
  <2>4. validationTerminalReason(cause') = validationTerminalReason(cause) BY <2>1
  <2> QED BY <2>1, <2>3, <2>4 DEF EndsFit
<1>7. CASE Expire BY <1>1, <1>7 DEF EndsFit, Expire, ByParent, Blamed
<1>8. CASE ParentEnds
  <2>1. /\ place # "done" /\ place' = place /\ parent' # "alive"
        /\ UNCHANGED <<cause, terminal, phase>>
        BY <1>8 DEF ParentEnds
  <2> QED BY <2>1 DEF EndsFit
<1>9. CASE Emit
  <2>1. /\ place = "emit" /\ UNCHANGED <<parent, cause, terminal>>
        /\ phase' = failurePhase \/ (cause = "none" /\ phase' = "SUCCEEDED")
        BY <1>9 DEF Emit
  <2>2. failurePhase' = failurePhase BY <2>1 DEF failurePhase
  <2> QED BY <2>1, <2>2 DEF EndsFit
<1>10. CASE UNCHANGED vars BY <1>10 DEF EndsFit, vars, failurePhase
<1> QED BY <1>2, <1>3, <1>4, <1>5, <1>6, <1>7, <1>8, <1>9, <1>10, StepIs DEF Quiet

-----------------------------------------------------------------------------
(* The clocks tell since when a branch reads true.                         *)

\* A branch that passed read true in all of its members.
LEMMA PassedIsTrue ==
  ASSUME TypeOK, Complete(round), NEW b \in DOMAIN Branches, BranchPassed(b)
  PROVE  Truth(round, Branches[b])
<1>1. Len(round.read) = Len(Reads) BY DEF Complete
<1>2. \A k \in DOMAIN Reads : Reads[k].branch = Branches[b] => round.read[k] BY DEF BranchPassed
<1>3. DOMAIN Reads = 1..Len(Reads) BY RoundIs
<1> QED BY <1>1, <1>2, <1>3 DEF Truth

LEMMA ReadNextClocks ==
  ASSUME TypeOK, ClocksAreTrue, NEW ok \in BOOLEAN, ReadNext(ok)
  PROVE  ClocksAreTrue'
<1> DEFINE n == Len(history)
<1>1. /\ place = "read" /\ place' = "read" /\ since' = since
      /\ history' = [history EXCEPT ![Len(history)].read = Append(@, ok)]
      BY DEF ReadNext, Reading
<1>2. /\ n \in Nat /\ DOMAIN history = 1..n /\ Len(history') = n /\ DOMAIN history' = 1..n
      /\ \A j \in 1..n - 1 : history'[j] = history[j]
      BY <1>1, Typed, ReadMoves, LenProperties
<1> SUFFICES ASSUME NEW b \in DOMAIN Branches, since[b] # Never
             PROVE  TrueSince(Branches[b], since[b])'
    BY <1>1 DEF ClocksAreTrue
<1>3. PICK i \in DOMAIN history :
        /\ history[i].at = since[b] /\ Looked(i) /\ Complete(history[i])
        /\ \A j \in i..n : Looked(j) /\ Complete(history[j]) => Truth(history[j], Branches[b])
      BY <1>1 DEF ClocksAreTrue, TrueSince
<1>4. i \in 1..n - 1 BY <1>1, <1>2, <1>3 DEF Looked
<1>5. history'[i] = history[i] BY <1>2, <1>4
<1>6. \A j \in i..n : Looked(j)' => Looked(j) /\ history'[j] = history[j]
      BY <1>1, <1>2, <1>4 DEF Looked
<1>7. Looked(i)' BY <1>2, <1>4 DEF Looked
<1>8. \A j \in i..n : Looked(j)' /\ Complete(history'[j]) => Truth(history'[j], Branches[b])
      BY <1>3, <1>6
<1> HIDE DEF n
<1>9. i \in DOMAIN history' /\ history'[i].at = since'[b] /\ Complete(history'[i])
      BY <1>1, <1>2, <1>3, <1>5
<1> QED BY <1>2, <1>7, <1>8, <1>9 DEF TrueSince, Complete, Truth

LEMMA GiveUpClocks ==
  ASSUME TypeOK, ClocksAreTrue, NEW state, NEW accepted, NEW kind, GivesUp(state, accepted, kind)
  PROVE  ClocksAreTrue'
<1> DEFINE n == Len(history)
<1>1. /\ place = "read" /\ Len(round.read) < Len(Reads) /\ UNCHANGED <<since, history>>
      BY DEF GivesUp, Reading
<1> SUFFICES ASSUME place' \in {"read", "wait"}, NEW b \in DOMAIN Branches, since[b] # Never
             PROVE  TrueSince(Branches[b], since[b])'
    BY <1>1 DEF ClocksAreTrue
<1>2. n \in Nat /\ DOMAIN history = 1..n /\ round = history[n] BY Typed DEF round
<1>3. place' = "wait" BY DEF GivesUp, Fails
<1>4. PICK i \in DOMAIN history :
        /\ history[i].at = since[b] /\ Looked(i) /\ Complete(history[i])
        /\ \A j \in i..n : Looked(j) /\ Complete(history[j]) => Truth(history[j], Branches[b])
      BY <1>1 DEF ClocksAreTrue, TrueSince
<1>5. ~Complete(history[n]) BY <1>1, <1>2, RoundIs, Typed DEF Complete
<1>6. \A j \in i..n : Complete(history[j]) => Looked(j) BY <1>2, <1>5 DEF Looked
<1>7. \A j \in i..n : Complete(history[j]) => Truth(history[j], Branches[b]) BY <1>4, <1>6
<1> HIDE DEF n
<1> QED BY <1>1, <1>3, <1>4, <1>7 DEF TrueSince, Looked, Complete, Truth, n

LEMMA ConcludeClocks ==
  ASSUME Shape, ClocksAreTrue, Conclude
  PROVE  ClocksAreTrue'
<1> DEFINE n == Len(history)
<1>1. TypeOK /\ round.at = now BY DEF Shape, RoundFits
<1>2. /\ place = "read" /\ Complete(round) /\ since' = Clocks /\ history' = history
      BY ConcludeIs
<1>3. n \in Nat /\ n >= 1 /\ DOMAIN history = 1..n /\ round = history[n] BY <1>1, Typed DEF round
<1> SUFFICES ASSUME Winners = {}, place' = "wait",
                    NEW b \in DOMAIN Branches, since'[b] # Never
             PROVE  TrueSince(Branches[b], since[b])'
  <2>1. place' \in {"read", "wait"} => Winners = {} /\ place' = "wait" BY ConcludeIs
  <2> QED BY <2>1 DEF ClocksAreTrue
<1>4. since'[b] = Held[b] BY <1>2 DEF Clocks
<1>5. BranchPassed(b) /\ since'[b] = (IF since[b] = Never THEN now ELSE since[b])
      BY <1>4 DEF Held
<1>6. Truth(round, Branches[b]) BY <1>1, <1>2, <1>5, PassedIsTrue
<1>7. \A j \in 1..n : Looked(j)' BY DEF Looked
<1> SUFFICES \E i \in 1..n :
               /\ history[i].at = since'[b] /\ Complete(history[i])
               /\ \A j \in i..n : Complete(history[j]) => Truth(history[j], Branches[b])
  <2> HIDE DEF n
  <2> QED BY <1>2, <1>3, <1>7 DEF TrueSince, Complete, Truth, n
<1>8. n \in Nat /\ \A j \in Nat : j < n => Looked(j) BY <1>3 DEF Looked
<1> HIDE DEF n
<1>9. CASE since[b] = Never
  <2>1. \A j \in n..n : j = n BY <1>8
  <2> QED BY <1>1, <1>2, <1>3, <1>5, <1>6, <1>9, <2>1
<1>10. CASE since[b] # Never
  <2>1. PICK i \in DOMAIN history :
          /\ history[i].at = since[b] /\ Looked(i) /\ Complete(history[i])
          /\ \A j \in i..n : Looked(j) /\ Complete(history[j]) => Truth(history[j], Branches[b])
        BY <1>2, <1>10 DEF ClocksAreTrue, TrueSince, n
  <2>2. \A j \in i..n : j = n \/ Looked(j) BY <1>3, <1>8, <2>1
  <2>3. \A j \in i..n : Complete(history[j]) => Truth(history[j], Branches[b])
        BY <1>3, <1>6, <2>1, <2>2
  <2> QED BY <1>3, <1>5, <1>10, <2>1, <2>3
<1> QED BY <1>9, <1>10

LEMMA TickClocks ==
  ASSUME TypeOK, ClocksAreTrue, Tick
  PROVE  ClocksAreTrue'
<1> DEFINE n == Len(history)
<1>1. /\ place = "wait" /\ place' = "read" /\ since' = since /\ now < Horizon
      /\ history' = Append(history, Begun(now + 1))
      BY DEF Tick
<1>2. now + 1 \in 0..Horizon BY <1>1, TicksAssumption DEF TypeOK
<1>3. /\ n \in Nat /\ DOMAIN history = 1..n /\ Len(history') = n + 1
      /\ DOMAIN history' = 1..n + 1 /\ \A j \in 1..n : history'[j] = history[j]
      BY <1>1, <1>2, Typed, TickMoves, LenProperties
<1> SUFFICES ASSUME NEW b \in DOMAIN Branches, since[b] # Never
             PROVE  TrueSince(Branches[b], since[b])'
    BY <1>1 DEF ClocksAreTrue
<1>4. PICK i \in DOMAIN history :
        /\ history[i].at = since[b] /\ Looked(i) /\ Complete(history[i])
        /\ \A j \in i..n : Looked(j) /\ Complete(history[j]) => Truth(history[j], Branches[b])
      BY <1>1 DEF ClocksAreTrue, TrueSince
<1>5. \A j \in i..n + 1 : Looked(j)' => j \in i..n /\ Looked(j) /\ history'[j] = history[j]
      BY <1>1, <1>3 DEF Looked
<1>6. i \in DOMAIN history' /\ Looked(i)' /\ history'[i] = history[i] BY <1>3, <1>4 DEF Looked
<1>7. \A j \in i..n + 1 : Looked(j)' /\ Complete(history'[j]) => Truth(history'[j], Branches[b])
      BY <1>4, <1>5
<1>8. history'[i].at = since'[b] /\ Complete(history'[i]) BY <1>1, <1>4, <1>6
<1> HIDE DEF n
<1> QED BY <1>3, <1>6, <1>7, <1>8 DEF TrueSince, Complete, Truth

LEMMA QuietClocks ==
  ASSUME ClocksAreTrue, Quiet
  PROVE  ClocksAreTrue'
<1>1. UNCHANGED <<since, history>> /\ (place' = place \/ place' \in {"judge", "done"}) BY QuietIs
<1>2. CASE place' = place
      BY <1>1, <1>2 DEF ClocksAreTrue, TrueSince, Looked, Complete, Truth
<1>3. CASE place' \in {"judge", "done"} BY <1>3 DEF ClocksAreTrue
<1> QED BY <1>1, <1>2, <1>3

LEMMA ClocksStep ==
  ASSUME Shape, ClocksAreTrue, [Next]_vars
  PROVE  ClocksAreTrue'
<1>1. TypeOK BY DEF Shape
<1>2. ASSUME NEW refused \in Refusals, Judge(refused) PROVE ClocksAreTrue'
      BY <1>2 DEF Judge, ClocksAreTrue
<1> QED BY <1>1, <1>2, StepIs, ReadNextClocks, GiveUpClocks, ConcludeClocks, TickClocks, QuietClocks

-----------------------------------------------------------------------------
(* The verdict names a branch that read true together.                     *)

\* A verdict of the stable poll: the winner's clock is old enough and true, so every
\* complete round of its span read the winner true.
LEMMA WinnerIsTrue ==
  ASSUME Shape, ClocksAreTrue, place = "read", Complete(round), NEW w \in Winners
  PROVE  \E i \in DOMAIN history :
           /\ round.at - history[i].at >= Stability
           /\ Complete(history[i]) /\ Complete(round)
           /\ \A j \in i..Len(history) : Complete(history[j]) => Truth(history[j], Branches[w])
<1> DEFINE n == Len(history)
<1>1. TypeOK /\ round.at = now /\ now \in Nat BY DEF Shape, RoundFits, TypeOK
<1>2. n \in Nat /\ DOMAIN history = 1..n /\ round = history[n] BY <1>1, Typed DEF round
<1>3. w \in DOMAIN Branches /\ Held[w] # Never /\ now - Held[w] >= Stability BY DEF Winners
<1>4. BranchPassed(w) /\ Held[w] = (IF since[w] = Never THEN now ELSE since[w])
      BY <1>3 DEF Held
<1>5. Truth(round, Branches[w]) BY <1>1, <1>3, <1>4, PassedIsTrue
<1>6. since[w] # Never /\ now - since[w] >= Stability BY <1>1, <1>3, <1>4, TicksAssumption
<1>7. PICK i \in DOMAIN history :
        /\ history[i].at = since[w] /\ Looked(i) /\ Complete(history[i])
        /\ \A j \in i..n : Looked(j) /\ Complete(history[j]) => Truth(history[j], Branches[w])
      BY <1>3, <1>6 DEF ClocksAreTrue, TrueSince
<1>8. \A j \in Nat : j < n => Looked(j) BY <1>2 DEF Looked
<1> HIDE DEF n
<1>9. \A j \in i..n : Complete(history[j]) => Truth(history[j], Branches[w])
  <2>1. \A j \in i..n : j = n \/ Looked(j) BY <1>2, <1>7, <1>8
  <2> QED BY <1>2, <1>5, <1>7, <2>1
<1> QED BY <1>1, <1>6, <1>7, <1>9 DEF n

LEMMA WinnerStep ==
  ASSUME Shape, ClocksAreTrue, WinnerHeldTogether, [Next]_vars
  PROVE  WinnerHeldTogether'
<1>1. Undecided BY DEF Shape
<1>2. ASSUME terminal.winner' = "none" PROVE WinnerHeldTogether'
      BY <1>2 DEF WinnerHeldTogether
<1>3. ASSUME UNCHANGED <<terminal, history>> PROVE WinnerHeldTogether'
      BY <1>3 DEF WinnerHeldTogether, round, Complete, Truth
<1>4. ASSUME terminal = NoTerminal, terminal' = terminal PROVE WinnerHeldTogether'
      BY <1>2, <1>4 DEF NoTerminal
<1>5. ASSUME NEW ok \in BOOLEAN, ReadNext(ok) PROVE WinnerHeldTogether'
      BY <1>1, <1>4, <1>5 DEF ReadNext, Reading, Undecided
<1>6. ASSUME NEW state, NEW accepted, NEW kind, GivesUp(state, accepted, kind)
      PROVE  WinnerHeldTogether'
      BY <1>3, <1>6 DEF GivesUp
<1>7. CASE Tick BY <1>1, <1>4, <1>7 DEF Tick, Undecided
<1>8. CASE Quiet BY <1>3, <1>8, QuietIs
<1>9. ASSUME NEW refused \in Refusals, Judge(refused) PROVE WinnerHeldTogether'
  <2>1. terminal' = terminal \/ terminal'.winner = "none"
        BY <1>9 DEF Judge, recordGroupFinal
  <2>2. terminal = NoTerminal BY <1>1, <1>9 DEF Judge, Undecided
  <2> QED BY <1>2, <1>4, <2>1, <2>2
<1>10. CASE Conclude
  <2>1. /\ place = "read" /\ Complete(round) /\ history' = history
        /\ \/ UNCHANGED terminal
           \/ \E w \in Winners, refused \in Refusals :
                recordGroupFinal("passed", Branches[w], refused)
        BY <1>10, ConcludeIs
  <2>2. ASSUME NEW w \in Winners, NEW refused \in Refusals,
               recordGroupFinal("passed", Branches[w], refused), terminal' # terminal
        PROVE  WinnerHeldTogether'
    <3>1. terminal'.winner = Branches[w] BY <2>2 DEF recordGroupFinal
    <3>2. \E i \in DOMAIN history :
            /\ round.at - history[i].at >= Stability
            /\ Complete(history[i]) /\ Complete(round)
            /\ \A j \in i..Len(history) : Complete(history[j]) => Truth(history[j], Branches[w])
          BY <2>1, WinnerIsTrue
    <3>3. round' = round BY <2>1 DEF round
    <3>4. \E i \in DOMAIN history' :
            /\ round'.at - history'[i].at >= Stability
            /\ Complete(history'[i]) /\ Complete(round')
            /\ \A j \in i..Len(history') :
                 Complete(history'[j]) => Truth(history'[j], terminal'.winner)
          BY <2>1, <3>1, <3>2, <3>3
    <3> QED BY <3>4 DEF WinnerHeldTogether, Complete, Truth
  <2> QED BY <1>3, <2>1, <2>2
<1> QED BY <1>5, <1>6, <1>7, <1>8, <1>9, <1>10, StepIs

-----------------------------------------------------------------------------
(* The finals: their dispositions are true of the round and fit the verdict. *)

\* What is known of a member when a complete round is looked at.
LEMMA KnownIsRead ==
  ASSUME Shape, Complete(round), NEW m \in Members
  PROVE  last[m] # Unread /\ \A k \in 1..Len(Reads) :
           Reads[k] = m => last[m].passed = round.read[k]
<1>1. SeenIsRead /\ Len(round.read) = Len(Reads)
      /\ \A k \in 1..Len(round.read) : round.read[k] \in BOOLEAN
      BY Typed DEF Shape, Complete
<1>2. PICK k \in 1..Len(Reads) : Reads[k] = m BY RoundIs
<1>3. last[m] = Evaluated(round.read[k]) BY <1>1, <1>2 DEF SeenIsRead
<1>4. last[m] # Unread /\ last[m].passed = round.read[k] BY <1>1, <1>2, <1>3, StatesAre
<1>5. \A j \in 1..Len(Reads) : Reads[j] = m => j = k BY <1>2, RoundIs
<1> QED BY <1>4, <1>5

\* Only a verdict "passed" calls a branch satisfied, and only one that reads true.
LEMMA SatisfiedIsTrue ==
  ASSUME Shape, Complete(round), NEW m \in Members, NEW reason, NEW winner,
         branchDisposition(m.branch, last, reason, winner) = "satisfied_not_winner"
  PROVE  reason = "passed" /\ Truth(round, m.branch)
<1>1. reason = "passed" /\ \A x \in MembersOf(m.branch) : last[x].passed
      BY DEF branchDisposition
<1>2. Len(round.read) = Len(Reads) BY DEF Complete
<1>3. ASSUME NEW k \in 1..Len(Reads), Reads[k].branch = m.branch PROVE round.read[k]
  <2>1. Reads[k] \in MembersOf(m.branch) /\ Reads[k] \in Members
        BY <1>3, RoundIs DEF MembersOf
  <2>2. last[Reads[k]].passed = round.read[k] BY <2>1, KnownIsRead
  <2> QED BY <1>1, <2>1, <2>2
<1> QED BY <1>1, <1>2, <1>3 DEF Truth

LEMMA SatisfiedStep ==
  ASSUME Shape, SatisfiedIsOver, SatisfiedInTheSameRound, [Next]_vars
  PROVE  SatisfiedIsOver' /\ SatisfiedInTheSameRound'
<1>1. TypeOK BY DEF Shape
<1>2. /\ DOMAIN staged = 1..Len(staged) /\ Len(staged) \in Nat
      /\ DOMAIN staged' = 1..Len(staged') /\ Len(staged') \in Nat
  <2>1. TypeOK' BY ShapeStep DEF Shape
  <2>2. staged' \in Seq(Facts) BY <2>1 DEF TypeOK, Facts
  <2> QED BY <1>1, <2>2, Typed, LenProperties
<1> DEFINE Called(f) == f.disposition = "satisfied_not_winner"
<1>3. place \in {"read", "wait"} => \A i \in 1..Len(staged) : ~Called(staged[i])
      BY <1>2 DEF SatisfiedIsOver
<1>4. ASSUME \A i \in 1..Len(staged') : ~Called(staged'[i])
      PROVE  SatisfiedIsOver' /\ SatisfiedInTheSameRound'
      BY <1>2, <1>4 DEF SatisfiedIsOver, SatisfiedInTheSameRound
<1>5. ASSUME staged' = staged, place \in {"read", "wait"}
      PROVE  SatisfiedIsOver' /\ SatisfiedInTheSameRound'
      BY <1>3, <1>4, <1>5
<1>6. ASSUME NEW m \in Members, NEW state \in States \ {Unread}, NEW accepted \in BOOLEAN,
             place = "read", record(m, state, accepted)
      PROVE  SatisfiedIsOver' /\ SatisfiedInTheSameRound'
  <2> DEFINE f == Fact(m, state, FALSE, "none")
  <2>1. staged' = staged \/ staged' = Append(staged, f) BY <1>1, <1>6, RecordStages
  <2>2. CASE staged' = Append(staged, f)
    <3>1. ~Called(f) BY DEF Fact
    <3>2. staged \in Seq(Facts) BY <1>1, Typed
    <3> HIDE DEF f
    <3>3. Len(staged') = Len(staged) + 1 /\ staged'[Len(staged) + 1] = f
          /\ \A i \in 1..Len(staged) : staged'[i] = staged[i]
          BY <2>2, <3>2, AppendProperties
    <3>4. \A i \in 1..Len(staged') : i \in 1..Len(staged) \/ i = Len(staged) + 1
          BY <1>2, <3>3
    <3> HIDE DEF Called
    <3>5. \A i \in 1..Len(staged') : ~Called(staged'[i]) BY <1>3, <1>6, <3>1, <3>3, <3>4
    <3> QED BY <1>4, <3>5
  <2> QED BY <1>5, <1>6, <2>1, <2>2
<1>7. ASSUME NEW ok \in BOOLEAN, ReadNext(ok)
      PROVE  SatisfiedIsOver' /\ SatisfiedInTheSameRound'
  <2>1. Evaluated(ok) \in States \ {Unread} BY StatesAre
  <2>2. Reading /\ record(NextMember, Evaluated(ok), TRUE) BY <1>7 DEF ReadNext
  <2> QED BY <1>1, <1>6, <2>1, <2>2, NextIs
<1>8. ASSUME NEW state \in States \ {Unread}, NEW accepted \in BOOLEAN, NEW kind,
             GivesUp(state, accepted, kind)
      PROVE  SatisfiedIsOver' /\ SatisfiedInTheSameRound'
  <2>1. Reading /\ record(NextMember, state, accepted) BY <1>8 DEF GivesUp
  <2> QED BY <1>1, <1>6, <2>1, NextIs
<1>9. CASE Tick BY <1>5, <1>9 DEF Tick
<1>10. CASE Quiet
  <2>1. UNCHANGED <<staged, history>> /\ (place' = place \/ place' \in {"judge", "done"})
        BY <1>10, QuietIs
  <2> QED BY <2>1 DEF SatisfiedIsOver, SatisfiedInTheSameRound, round, Complete, Truth
<1>11. ASSUME NEW reason \in Reasons, NEW winner \in BranchIds \cup {"none"},
              NEW refused \in Refusals, recordGroupFinal(reason, winner, refused),
              place' \notin {"read", "wait"}, UNCHANGED history,
              reason = "passed" => place = "read" /\ Complete(round)
       PROVE  SatisfiedIsOver' /\ SatisfiedInTheSameRound'
  <2>1. SatisfiedIsOver' BY <1>11 DEF SatisfiedIsOver
  <2> DEFINE G == GroupFinals(last, reason, winner)
  <2>2. \A i \in 1..Len(staged) : staged'[i] = staged[i] BY <1>1, <1>11, VerdictStages
  <2>3. PICK count \in 0..Len(Reads) :
          /\ Len(staged') = Len(staged) + count
          /\ \A k \in 1..count : staged'[Len(staged) + k] = G[k]
        BY <1>1, <1>11, VerdictStages
  <2>4. \A k \in 1..Len(Reads) :
          /\ G[k].member = Reads[k]
          /\ G[k].disposition = branchDisposition(Reads[k].branch, last, reason, winner)
        BY <1>1, FinalsAre
  <2> HIDE DEF G
  <2>5. ASSUME NEW i \in 1..Len(staged'), Called(staged'[i])
        PROVE  Complete(round) /\ Truth(round, staged'[i].member.branch)
    <3>1. CASE i \in 1..Len(staged)
      <4>1. Called(staged[i]) /\ staged'[i] = staged[i] BY <2>2, <2>5, <3>1
      <4> QED BY <1>2, <3>1, <4>1 DEF SatisfiedInTheSameRound
    <3>2. CASE i \notin 1..Len(staged)
      <4> DEFINE k == i - Len(staged)
      <4>1. k \in 1..count /\ i = Len(staged) + k /\ k \in 1..Len(Reads)
            BY <1>2, <2>3, <3>2, RoundIs
      <4>2. staged'[i] = G[k] BY <2>3, <4>1
      <4> HIDE DEF k
      <4>3. staged'[i].member = Reads[k] /\ Reads[k] \in Members
            /\ branchDisposition(Reads[k].branch, last, reason, winner) = "satisfied_not_winner"
            BY <2>4, <2>5, <4>1, <4>2, RoundIs
      <4>4. reason = "passed" BY <4>3 DEF branchDisposition
      <4>5. Complete(round) BY <1>11, <4>4
      <4>6. Truth(round, Reads[k].branch) BY <4>3, <4>5, SatisfiedIsTrue
      <4> QED BY <4>3, <4>5, <4>6
    <3> QED BY <3>1, <3>2
  <2>6. round' = round BY <1>11 DEF round
  <2> QED BY <1>2, <2>1, <2>5, <2>6 DEF SatisfiedInTheSameRound, Complete, Truth
<1>12. ASSUME NEW refused \in Refusals, Judge(refused)
       PROVE  SatisfiedIsOver' /\ SatisfiedInTheSameRound'
  <2>1. /\ recordGroupFinal(validationTerminalReason(cause), "none", refused)
        /\ place' = "emit" /\ UNCHANGED history
        BY <1>12 DEF Judge
  <2> QED BY <1>11, <2>1, TerminalReason
<1>13. CASE Conclude
  <2>1. ASSUME NEW w \in Winners PROVE Branches[w] \in BranchIds BY RoundIs DEF Winners
  <2>2. "passed" \in Reasons BY DEF Reasons
  <2>3. /\ place = "read" /\ Complete(round) /\ UNCHANGED history
        /\ \/ UNCHANGED staged
           \/ /\ place' \notin {"read", "wait"}
              /\ \E w \in Winners, refused \in Refusals :
                   recordGroupFinal("passed", Branches[w], refused)
        BY <1>13, ConcludeIs
  <2> QED BY <1>5, <1>11, <2>1, <2>2, <2>3
<1> QED BY <1>7, <1>8, <1>9, <1>10, <1>12, <1>13, StepIs

\* A verdict that the sink took in full.
LEMMA VerdictIsWhole ==
  ASSUME TypeOK, NEW reason \in Reasons, NEW winner \in BranchIds \cup {"none"},
         NEW refused \in Refusals, recordGroupFinal(reason, winner, refused),
         UNCHANGED last, terminal = NoTerminal,
         reason = "passed" <=> winner # "none",
         \A m \in MembersOf(winner) : last[m].passed,
         winner # "none" => MembersOf(winner) # {}
  PROVE  VerdictFits'
<1>1. CASE refused # 0
  <2>1. terminal' = NoTerminal BY <1>1, VerdictStages
  <2> QED BY <2>1 DEF VerdictFits, NoTerminal
<1>2. CASE refused = 0
  <2>1. terminal' = [reason |-> reason, winner |-> winner, members |-> Members]
        BY <1>2, VerdictStages
  <2>2. terminal'.reason = reason /\ terminal'.winner = winner /\ terminal'.members = Members
        BY <2>1
  <2>3. /\ Len(staged') = Len(staged) + Len(Reads)
        /\ \A k \in 1..Len(Reads) :
             staged'[Len(staged) + k] = GroupFinals(last, reason, winner)[k]
        BY <1>2, VerdictStages
  <2>4. \A k \in 1..Len(Reads) :
          staged'[Len(staged) + k] = GroupFinals(last', terminal'.reason, terminal'.winner)[k]
        BY <2>2, <2>3
  <2>5. Len(staged) \in Nat BY Typed
  <2>6. terminal'.reason = "passed" <=> terminal'.winner # "none" BY <2>2
  <2>7. /\ \A m \in MembersOf(terminal'.winner) : last'[m].passed
        /\ terminal'.winner # "none" => MembersOf(terminal'.winner) # {}
        BY <2>2
  <2> QED BY <2>2, <2>3, <2>4, <2>5, <2>6, <2>7 DEF VerdictFits
<1> QED BY <1>1, <1>2

LEMMA VerdictStep ==
  ASSUME Shape, VerdictFits, [Next]_vars
  PROVE  VerdictFits'
<1>1. TypeOK /\ Undecided BY DEF Shape
<1>2. ASSUME terminal = NoTerminal, terminal' = terminal PROVE VerdictFits'
      BY <1>2 DEF VerdictFits, NoTerminal
<1>3. ASSUME NEW ok \in BOOLEAN, ReadNext(ok) PROVE VerdictFits'
      BY <1>1, <1>2, <1>3 DEF ReadNext, Reading, Undecided
<1>4. ASSUME NEW state, NEW accepted, NEW kind, GivesUp(state, accepted, kind)
      PROVE  VerdictFits'
      BY <1>1, <1>2, <1>4 DEF GivesUp, Reading, Undecided
<1>5. CASE Tick BY <1>1, <1>2, <1>5 DEF Tick, Undecided
<1>6. CASE Quiet
  <2>1. UNCHANGED <<last, staged, terminal>> BY <1>6, QuietIs
  <2> QED BY <2>1 DEF VerdictFits
<1>7. ASSUME NEW refused \in Refusals, Judge(refused) PROVE VerdictFits'
  <2>1. /\ recordGroupFinal(validationTerminalReason(cause), "none", refused)
        /\ UNCHANGED last /\ terminal = NoTerminal
        BY <1>1, <1>7 DEF Judge, Undecided
  <2>2. MembersOf("none") = {} BY RoundIs DEF MembersOf
  <2> QED BY <1>1, <2>1, <2>2, TerminalReason, VerdictIsWhole
<1>8. CASE Conclude
  <2>1. /\ Complete(round) /\ UNCHANGED last /\ terminal = NoTerminal
        /\ \/ UNCHANGED terminal
           \/ \E w \in Winners, refused \in Refusals :
                recordGroupFinal("passed", Branches[w], refused)
        BY <1>1, <1>8, ConcludeIs DEF Undecided
  <2>2. ASSUME NEW w \in Winners, NEW refused \in Refusals,
               recordGroupFinal("passed", Branches[w], refused)
        PROVE  VerdictFits'
    <3>1. w \in DOMAIN Branches /\ Held[w] # Never BY DEF Winners
    <3>2. BranchPassed(w) BY <3>1 DEF Held
    <3>3. Truth(round, Branches[w]) BY <1>1, <2>1, <3>1, <3>2, PassedIsTrue
    <3>4. ASSUME NEW m \in MembersOf(Branches[w]) PROVE last[m].passed
      <4>1. m \in Members /\ m.branch = Branches[w] BY DEF MembersOf
      <4>2. PICK k \in 1..Len(Reads) : Reads[k] = m BY <4>1, RoundIs
      <4>3. round.read[k] BY <2>1, <3>3, <4>1, <4>2 DEF Truth, Complete
      <4> QED BY <2>1, <4>1, <4>2, <4>3, KnownIsRead
    <3>5. Branches[w] \in BranchIds /\ Branches[w] # "none" /\ "passed" \in Reasons
          BY <3>1, RoundIs DEF Reasons
    <3>6. MembersOf(Branches[w]) # {} BY <3>2 DEF BranchPassed
    <3> QED BY <1>1, <2>1, <2>2, <3>4, <3>5, <3>6, VerdictIsWhole
  <2> QED BY <1>2, <2>1, <2>2
<1> QED BY <1>3, <1>4, <1>5, <1>6, <1>7, <1>8, StepIs

\* The last final of a member is the one that the verdict gave it, and it fits.
LEMMA VerdictIsTopology ==
  ASSUME Shape, VerdictFits, terminal # NoTerminal
  PROVE  GroupFactValid /\ MembersFit /\ Concluded = terminal.members
<1> DEFINE reason == terminal.reason
           winner == terminal.winner
           G == GroupFinals(last, reason, winner)
<1>1. TypeOK BY DEF Shape
<1>2. /\ terminal.members = Members
      /\ reason = "passed" <=> winner # "none"
      /\ \A m \in MembersOf(winner) : last[m].passed
      /\ winner # "none" => MembersOf(winner) # {}
      /\ reason \in Reasons /\ winner \in BranchIds \cup {"none"}
      BY <1>1 DEF VerdictFits, TypeOK
<1>3. PICK n \in Nat :
        /\ Len(staged) = n + Len(Reads)
        /\ \A k \in 1..Len(Reads) : staged[n + k] = G[k]
      BY DEF VerdictFits
<1> HIDE DEF G
<1>4. /\ DOMAIN staged = 1..Len(staged) /\ Len(staged) \in Nat /\ Len(Reads) \in Nat
      BY <1>1, Typed, RoundIs
<1>5. \A k \in 1..Len(Reads) :
        /\ G[k].final /\ G[k].member = Reads[k] /\ G[k].passed = last[Reads[k]].passed
        /\ G[k].disposition = branchDisposition(Reads[k].branch, last, reason, winner)
      BY <1>1, <1>2, FinalsAre DEF G
<1>6. ASSUME NEW m \in Members
      PROVE  /\ \E i \in DOMAIN staged : IsFinal(m, i)
             /\ FinalOf(m).passed = last[m].passed
             /\ FinalOf(m).disposition = branchDisposition(m.branch, last, reason, winner)
  <2>1. PICK k \in 1..Len(Reads) : Reads[k] = m BY RoundIs
  <2> DEFINE at == n + k
             IsLast(i) == IsFinal(m, i) /\ \A j \in DOMAIN staged : IsFinal(m, j) => j <= i
  <2>2. at \in DOMAIN staged /\ staged[at] = G[k] BY <1>3, <1>4, <2>1
  <2>3. IsFinal(m, at) BY <1>5, <2>1, <2>2 DEF IsFinal
  <2>4. ASSUME NEW j \in DOMAIN staged, IsFinal(m, j) PROVE j <= at
    <3>1. CASE j <= n BY <1>3, <1>4, <2>1, <3>1
    <3>2. CASE ~(j <= n)
      <4>1. j - n \in 1..Len(Reads) /\ j = n + (j - n) BY <1>3, <1>4, <3>2
      <4>2. staged[j] = G[j - n] BY <1>3, <4>1
      <4>3. Reads[j - n] = m BY <1>5, <2>4, <4>1, <4>2 DEF IsFinal
      <4>4. j - n = k BY <2>1, <4>1, <4>3, RoundIs
      <4> QED BY <1>3, <1>4, <4>1, <4>4
    <3> QED BY <3>1, <3>2
  <2>5. IsLast(at) BY <2>3, <2>4
  <2>6. ASSUME NEW i \in DOMAIN staged, IsLast(i) PROVE i = at
    <3>1. i <= at /\ at <= i BY <2>2, <2>3, <2>4, <2>6
    <3> QED BY <1>3, <1>4, <2>1, <2>2, <3>1
  <2> HIDE DEF at
  <2>7. (CHOOSE i \in DOMAIN staged : IsLast(i)) = at BY <2>2, <2>5, <2>6
  <2>8. FinalOf(m) = staged[at] BY <2>7 DEF FinalOf
  <2> QED BY <1>5, <2>1, <2>2, <2>3, <2>8
<1>7. ASSUME NEW m \in Members
      PROVE  /\ FinalOf(m).disposition = "won" <=> m.branch = winner
             /\ FinalOf(m).disposition = "satisfied_not_winner" => last[m].passed
             /\ m.branch = winner => reason = "passed" /\ last[m].passed
  <2>1. FinalOf(m).disposition = branchDisposition(m.branch, last, reason, winner) BY <1>6
  <2>2. m.branch \in BranchIds /\ m \in MembersOf(m.branch) BY RoundIs DEF MembersOf
  <2>3. m.branch = winner => reason = "passed" /\ last[m].passed BY <1>2, <2>2, RoundIs
  <2> QED BY <2>1, <2>2, <2>3 DEF branchDisposition
<1>8. Concluded = Members BY <1>6 DEF Concluded
<1>9. GroupFactValid
  <2>1. Members # {} BY RoundIs
  <2>2. winner # "none" => \E m \in Members : m.branch = winner BY <1>2 DEF MembersOf
  <2> QED BY <1>2, <2>1, <2>2 DEF GroupFactValid
<1>10. MembersFit BY <1>2, <1>6, <1>7, <1>8 DEF MembersFit
<1> QED BY <1>2, <1>8, <1>9, <1>10

-----------------------------------------------------------------------------
(* The observations tell the changes.                                      *)

\* Finals tell nothing that was not told.
LEMMA FinalsTellNothing ==
  ASSUME TypeOK, ChangesAreTold, NEW n \in Nat, n = Len(staged),
         DOMAIN staged' \subseteq Nat \ {0},
         \A i \in 1..n : staged'[i] = staged[i],
         \A i \in DOMAIN staged' : i > n => staged'[i].final
  PROVE  ChangesAreTold'
<1>1. DOMAIN staged = 1..n BY Typed
<1> SUFFICES ASSUME NEW i \in DOMAIN staged', NEW j \in DOMAIN staged', NEW m \in Members,
                    i < j, Told(m, i)', Told(m, j)', Between(m, i, j)' = {}
             PROVE  staged'[i].reason # staged'[j].reason
    BY DEF ChangesAreTold
<1>2. i \in 1..n /\ j \in 1..n BY DEF Told
<1>3. \A k \in 1..n : Told(m, k)' <=> Told(m, k) BY DEF Told
<1>4. Between(m, i, j) = {}
  <2>1. \A k \in (i + 1)..(j - 1) : k \in 1..n BY <1>2
  <2> QED BY <1>3, <2>1 DEF Between
<1>5. staged[i].reason # staged[j].reason BY <1>1, <1>2, <1>3, <1>4 DEF ChangesAreTold
<1> QED BY <1>2, <1>5

\* A state is staged when it is not the one staged last.
LEMMA RecordTells ==
  ASSUME TypeOK, ChangesAreTold, \A x \in Members : Recorded(x),
         NEW m \in Members, NEW state \in States \ {Unread}, NEW accepted \in BOOLEAN,
         record(m, state, accepted)
  PROVE  ChangesAreTold' /\ (accepted => \A x \in Members : Recorded(x)')
<1>1. recorded \in [Members -> States] BY DEF TypeOK
<1>2. /\ recorded' = [recorded EXCEPT ![m] = state]
      /\ \/ staged' = staged /\ (accepted => recorded[m] = state)
         \/ accepted /\ recorded[m] # state
            /\ staged' = Append(staged, Fact(m, state, FALSE, "none"))
      BY RecordStages
<1>3. CASE staged' = staged /\ (accepted => recorded[m] = state)
  <2>1. ChangesAreTold' BY <1>3 DEF ChangesAreTold, Told, Between
  <2>2. accepted => recorded' = recorded BY <1>1, <1>2, <1>3
  <2>3. accepted => \A x \in Members : Recorded(x)'
        BY <1>3, <2>2 DEF Recorded, LastTold, Told
  <2> QED BY <2>1, <2>3
<1>4. CASE recorded[m] # state /\ staged' = Append(staged, Fact(m, state, FALSE, "none"))
  <2> DEFINE f == Fact(m, state, FALSE, "none")
  <2>1. PICK n \in Nat : n = Len(staged) BY Typed
  <2>2. f.member = m /\ f.reason = state.reason /\ ~f.final BY DEF Fact
  <2>3. state.passed \in BOOLEAN /\ state.reason \in FactReasons BY StatesAre
  <2>4. f \in Facts BY <2>3 DEF Fact, Facts
  <2>5. staged \in Seq(Facts) /\ n \in Nat /\ DOMAIN staged = 1..n BY <2>1, Typed
  <2>6. staged' = Append(staged, f) BY <1>4
  <2> HIDE DEF f
  <2>7. /\ staged' \in Seq(Facts) /\ Len(staged') = n + 1 /\ staged'[n + 1] = f
        /\ \A i \in 1..n : staged'[i] = staged[i]
        BY <2>4, <2>5, <2>1, <2>6, AppendProperties
  <2>8. DOMAIN staged' = 1..n + 1 BY <2>7, LenProperties
  <2>9. \A i \in 1..n + 1 : i \in 1..n \/ i = n + 1 BY <2>5
  <2>10. \A x \in Members : \A i \in 1..n : Told(x, i)' <=> Told(x, i) BY <2>7 DEF Told
  <2>11. \A x \in Members : Told(x, n + 1)' <=> x = m BY <2>2, <2>7 DEF Told
  <2>12. ChangesAreTold'
    <3> SUFFICES ASSUME NEW i \in 1..n + 1, NEW j \in 1..n + 1, NEW x \in Members,
                        i < j, Told(x, i)', Told(x, j)', Between(x, i, j)' = {}
                 PROVE  staged'[i].reason # staged'[j].reason
        BY <2>8 DEF ChangesAreTold
    <3>1. i \in 1..n /\ Told(x, i) BY <2>5, <2>10
    <3>2. CASE j \in 1..n
      <4>1. \A k \in (i + 1)..(j - 1) : k \in 1..n BY <2>5, <3>1, <3>2
      <4>2. Between(x, i, j) = {} BY <2>10, <4>1 DEF Between
      <4>3. staged[i].reason # staged[j].reason
            BY <2>5, <2>10, <3>1, <3>2, <4>2 DEF ChangesAreTold
      <4> QED BY <2>7, <3>1, <3>2, <4>3
    <3>3. CASE j = n + 1
      <4>1. x = m BY <2>11, <3>3
      <4>2. PICK last0 \in 1..n : LastTold(m, last0) /\ staged[last0].reason = recorded[m].reason
            BY <2>5, <3>1, <4>1 DEF Recorded
      <4>3. i <= last0 BY <2>5, <3>1, <4>1, <4>2 DEF LastTold
      <4>4. ~(i < last0)
        <5> SUFFICES ASSUME i < last0 PROVE FALSE OBVIOUS
        <5>1. last0 \in (i + 1)..(j - 1) BY <2>5, <3>1, <3>3, <4>2
        <5>2. Told(m, last0)' BY <2>10, <4>2 DEF LastTold
        <5> QED BY <4>1, <5>1, <5>2 DEF Between
      <4>5. i = last0 BY <2>5, <3>1, <4>2, <4>3, <4>4
      <4>6. staged'[i].reason = recorded[m].reason BY <2>7, <3>1, <4>2, <4>5
      <4>7. staged'[j].reason = state.reason BY <2>2, <2>7, <3>3
      <4>8. recorded[m].reason # state.reason BY <1>1, <1>4, StatesAre
      <4> QED BY <4>6, <4>7, <4>8
    <3> QED BY <2>9, <3>2, <3>3
  <2>13. ASSUME NEW x \in Members PROVE Recorded(x)'
    <3>1. CASE x = m
      <4>1. recorded'[m] = state /\ state # Unread BY <1>1, <1>2
      <4>2. LastTold(m, n + 1)' BY <2>5, <2>8, <2>11 DEF LastTold
      <4>3. n + 1 \in DOMAIN staged' BY <2>5, <2>8
      <4>4. staged'[n + 1].reason = recorded'[m].reason BY <2>2, <2>7, <4>1
      <4> QED BY <3>1, <4>1, <4>2, <4>3, <4>4 DEF Recorded
    <3>2. CASE x # m
      <4>1. recorded'[x] = recorded[x] BY <1>1, <1>2, <3>2
      <4>2. \A i \in 1..n + 1 : Told(x, i)' => i \in 1..n /\ Told(x, i)
            BY <2>9, <2>10, <2>11, <3>2
      <4>3. CASE recorded[x] = Unread
        <5>1. \A i \in 1..n : ~Told(x, i) BY <2>5, <4>3 DEF Recorded
        <5> QED BY <2>8, <4>1, <4>2, <4>3, <5>1 DEF Recorded
      <4>4. CASE recorded[x] # Unread
        <5>1. PICK i \in 1..n : LastTold(x, i) /\ staged[i].reason = recorded[x].reason
              BY <2>5, <4>4 DEF Recorded
        <5>2. Told(x, i)' BY <2>10, <5>1 DEF LastTold
        <5>3. LastTold(x, i)' BY <2>5, <2>8, <4>2, <5>1, <5>2 DEF LastTold
        <5>4. i \in DOMAIN staged' /\ staged'[i].reason = recorded'[x].reason
              BY <2>5, <2>7, <2>8, <4>1, <5>1
        <5> QED BY <4>1, <4>4, <5>3, <5>4 DEF Recorded
      <4> QED BY <4>3, <4>4
    <3> QED BY <3>1, <3>2
  <2> QED BY <2>12, <2>13
<1> QED BY <1>2, <1>3, <1>4

\* Observations that tell the changes go on telling them.
Tell == ChangesAreTold /\ RecordIsTold
LEMMA TellStep ==
  ASSUME Shape, Tell, [Next]_vars
  PROVE  Tell'
<1>1. TypeOK /\ ChangesAreTold /\ RecordIsTold BY DEF Shape, Tell
<1>2. ASSUME UNCHANGED <<recorded, staged>>,
             place' \in {"read", "wait"} => place \in {"read", "wait"}
      PROVE  Tell'
  <2>1. ChangesAreTold' BY <1>1, <1>2 DEF ChangesAreTold, Told, Between
  <2>2. RecordIsTold' BY <1>1, <1>2 DEF RecordIsTold, Recorded, LastTold, Told
  <2> QED BY <2>1, <2>2 DEF Tell
<1>3. ASSUME NEW m \in Members, NEW state \in States \ {Unread}, NEW accepted \in BOOLEAN,
             record(m, state, accepted), place = "read",
             place' \in {"read", "wait"} => accepted
      PROVE  Tell'
  <2>1. \A x \in Members : Recorded(x) BY <1>1, <1>3 DEF RecordIsTold
  <2>2. ChangesAreTold' /\ (accepted => \A x \in Members : Recorded(x)')
        BY <1>1, <1>3, <2>1, RecordTells
  <2> QED BY <1>3, <2>2 DEF Tell, RecordIsTold
<1>4. ASSUME NEW ok \in BOOLEAN, ReadNext(ok) PROVE Tell'
  <2>1. Reading /\ record(NextMember, Evaluated(ok), TRUE) BY <1>4 DEF ReadNext
  <2>2. Evaluated(ok) \in States \ {Unread} BY StatesAre
  <2> QED BY <1>1, <1>3, <2>1, <2>2, NextIs
<1>5. ASSUME NEW state \in States \ {Unread}, NEW accepted \in BOOLEAN,
             NEW kind \in Raw \cup SinkErrors \cup {"retry"}, GivesUp(state, accepted, kind)
      PROVE  Tell'
  <2>1. Reading /\ record(NextMember, state, accepted) BY <1>5 DEF GivesUp
  <2>2. place' \in {"read", "wait"} => accepted BY <1>5 DEF GivesUp, Fails
  <2> QED BY <1>1, <1>3, <2>1, <2>2, NextIs
<1>6. CASE Tick BY <1>2, <1>6 DEF Tick
<1>7. CASE Quiet
  <2>1. UNCHANGED <<recorded, staged>> /\ (place' = place \/ place' \in {"judge", "done"})
        BY <1>7, QuietIs
  <2> QED BY <1>2, <2>1
<1>8. ASSUME NEW reason \in Reasons, NEW winner \in BranchIds \cup {"none"},
             NEW refused \in Refusals, recordGroupFinal(reason, winner, refused),
             place' \notin {"read", "wait"}
      PROVE  Tell'
  <2>1. PICK n \in Nat : n = Len(staged) BY <1>1, Typed
  <2>2. staged' \in Seq(Facts) /\ \A i \in 1..n : staged'[i] = staged[i]
        BY <1>1, <1>8, <2>1, VerdictStages
  <2>3. PICK count \in 0..Len(Reads) :
          /\ Len(staged') = n + count
          /\ \A k \in 1..count : staged'[n + k] = GroupFinals(last, reason, winner)[k]
        BY <1>1, <1>8, <2>1, VerdictStages
  <2>4. DOMAIN staged' = 1..n + count /\ count \in Nat /\ count <= Len(Reads) /\ Len(Reads) \in Nat
        BY <2>2, <2>3, LenProperties, RoundIs
  <2>5. ASSUME NEW i \in DOMAIN staged', i > n PROVE staged'[i].final
    <3>1. i - n \in 1..count /\ i = n + (i - n) /\ i - n \in 1..Len(Reads) BY <2>1, <2>4, <2>5
    <3>2. staged'[i] = GroupFinals(last, reason, winner)[i - n] BY <2>3, <3>1
    <3> QED BY <1>1, <3>1, <3>2, FinalsAre
  <2>6. DOMAIN staged' \subseteq Nat \ {0} BY <2>1, <2>4
  <2>7. ChangesAreTold' BY <1>1, <2>1, <2>2, <2>5, <2>6, FinalsTellNothing
  <2>8. RecordIsTold' BY <1>8 DEF RecordIsTold
  <2> QED BY <2>7, <2>8 DEF Tell
<1>9. ASSUME NEW refused \in Refusals, Judge(refused) PROVE Tell'
  <2>1. /\ recordGroupFinal(validationTerminalReason(cause), "none", refused)
        /\ place' = "emit"
        BY <1>9 DEF Judge
  <2> QED BY <1>8, <2>1, TerminalReason
<1>10. CASE Conclude
  <2>1. ASSUME NEW w \in Winners PROVE Branches[w] \in BranchIds BY RoundIs DEF Winners
  <2>2. "passed" \in Reasons BY DEF Reasons
  <2>3. /\ place = "read" /\ UNCHANGED recorded
        /\ \/ UNCHANGED staged
           \/ /\ place' \notin {"read", "wait"}
              /\ \E w \in Winners, refused \in Refusals :
                   recordGroupFinal("passed", Branches[w], refused)
        BY <1>10, ConcludeIs
  <2> QED BY <1>2, <1>8, <2>1, <2>2, <2>3
<1> QED BY <1>4, <1>5, <1>6, <1>7, <1>9, <1>10, StepIs

-----------------------------------------------------------------------------
(* The invariant and what it implies.                                      *)

LEMMA InitIInv == Init => IInv
<1> SUFFICES ASSUME Init PROVE IInv OBVIOUS
<1>1. Shape BY InitShape
<1>2. ClocksAreTrue BY DEF Init, ClocksAreTrue
<1>3. WinnerHeldTogether /\ VerdictFits
      BY DEF Init, NoTerminal, WinnerHeldTogether, VerdictFits
<1>4. staged = <<>> /\ recorded = [m \in Members |-> Unread] BY DEF Init
<1>5. SatisfiedIsOver /\ SatisfiedInTheSameRound /\ ChangesAreTold
      BY <1>4 DEF SatisfiedIsOver, SatisfiedInTheSameRound, ChangesAreTold
<1>6. RecordIsTold BY <1>4 DEF RecordIsTold, Recorded
<1>7. EndsFit BY DEF Init, EndsFit, Blamed
<1> QED BY <1>1, <1>2, <1>3, <1>5, <1>6, <1>7 DEF IInv, Shape

LEMMA IInvStep == IInv /\ [Next]_vars => IInv'
<1> SUFFICES ASSUME IInv, [Next]_vars PROVE IInv' OBVIOUS
<1>1. /\ Shape /\ EndsFit /\ ClocksAreTrue /\ WinnerHeldTogether /\ VerdictFits
      /\ SatisfiedIsOver /\ SatisfiedInTheSameRound /\ Tell
      BY DEF IInv, Shape, Tell
<1>2. Shape' BY <1>1, ShapeStep
<1>3. ClocksAreTrue' BY <1>1, ClocksStep
<1>4. WinnerHeldTogether' BY <1>1, WinnerStep
<1>5. VerdictFits' BY <1>1, VerdictStep
<1>6. SatisfiedIsOver' /\ SatisfiedInTheSameRound' BY <1>1, SatisfiedStep
<1>7. Tell' BY <1>1, TellStep
<1>8. EndsFit' BY <1>1, EndsStep
<1> QED BY <1>2, <1>3, <1>4, <1>5, <1>6, <1>7, <1>8 DEF IInv, Shape, Tell

\* The observations are those of the round, because the record is.
LEMMA IInvTells ==
  ASSUME IInv
  PROVE  ObservationsTellTheChanges
<1>1. TypeOK /\ SeenIsRead /\ RoundFits /\ ChangesAreTold /\ RecordIsTold BY DEF IInv
<1>2. \A i \in DOMAIN staged : staged[i].member \in Members BY <1>1, Typed DEF Facts
<1>3. ASSUME NEW i \in DOMAIN staged, NEW j \in DOMAIN staged, i < j,
             Told(staged[i].member, i), Told(staged[i].member, j),
             \A k \in (i + 1)..(j - 1) : ~Told(staged[i].member, k)
      PROVE  staged[i].reason # staged[j].reason
  <2>1. Between(staged[i].member, i, j) = {} BY <1>3 DEF Between
  <2> QED BY <1>1, <1>2, <1>3, <2>1 DEF ChangesAreTold
<1>4. ASSUME place \in {"read", "wait"}, NEW k \in 1..Len(round.read)
      PROVE  \E i \in DOMAIN staged :
               /\ Told(Reads[k], i) /\ staged[i].reason = validationReason(round.read[k])
               /\ \A j \in DOMAIN staged : Told(Reads[k], j) => j <= i
  <2>1. k \in 1..Len(Reads) /\ round.read[k] \in BOOLEAN BY <1>1, Typed, RoundIs DEF RoundFits
  <2>2. recorded[Reads[k]] = Evaluated(round.read[k]) /\ Reads[k] \in Members
        BY <1>1, <2>1, RoundIs DEF SeenIsRead
  <2>3. recorded[Reads[k]] # Unread
        /\ recorded[Reads[k]].reason = validationReason(round.read[k])
        BY <2>1, <2>2, StatesAre
  <2> QED BY <1>1, <1>4, <2>2, <2>3 DEF RecordIsTold, Recorded, LastTold
<1> QED BY <1>3, <1>4 DEF ObservationsTellTheChanges

\* The judgement of a finished group: with a group fact it is that of reason and phase,
\* which is a matter of cause and parent; without one, any final is refused.
LEMMA JudgementIs ==
  ASSUME IInv, place = "done"
  PROVE  TopologyAccepted <=> Concluded = {} \/ (terminal # NoTerminal /\ ReasonIsPhase)
<1>1. Shape /\ VerdictFits /\ EndsFit /\ CauseFits /\ PhaseFits /\ TypeOK
      BY DEF IInv, Shape
<1>2. CASE terminal = NoTerminal
  <2>1. terminal.members = {} BY <1>2 DEF NoTerminal
  <2> QED BY <1>2, <2>1 DEF TopologyAccepted
<1>3. CASE terminal # NoTerminal
  <2>1. GroupFactValid /\ MembersFit /\ Concluded = terminal.members
        BY <1>1, <1>3, VerdictIsTopology
  <2>2. Concluded # {} BY <2>1 DEF GroupFactValid
  <2>3. parent \in {"alive", "canceled", "deadline"} /\ cause \in Causes BY <1>1 DEF TypeOK
  <2>4. /\ cause = "none" => terminal.reason = "passed"
        /\ cause # "none" => terminal.reason = validationTerminalReason(cause)
        BY <1>1, <1>3 DEF CauseFits, EndsFit
  <2>5. /\ phase = failurePhase \/ (cause = "none" /\ phase = "SUCCEEDED")
        /\ cause \in Blamed => parent # "alive"
        BY <1>1 DEF EndsFit
  <2>6. validationTerminalMatchesPhase <=> ReasonIsPhase
    <3>1. CASE cause = "none"
          BY <2>4, <2>5, <3>1 DEF validationTerminalMatchesPhase, ReasonIsPhase, failurePhase, Raw
    <3>2. CASE cause # "none"
      <4>1. terminal.reason = validationTerminalReason(cause) /\ phase = failurePhase
            BY <2>4, <2>5, <3>2
      <4>2. cause \in {"rawCanceled", "rawDeadline", "system", "timeout", "parentCanceled",
                       "parentDeadline"}
            BY <2>3, <3>2 DEF Causes, Raw
      <4> QED BY <2>5, <3>2, <4>1, <4>2
              DEF validationTerminalMatchesPhase, ReasonIsPhase, failurePhase,
                  validationTerminalReason, Raw, Blamed
    <3> QED BY <3>1, <3>2
  <2> QED BY <1>3, <2>1, <2>2, <2>6 DEF TopologyAccepted
<1> QED BY <1>2, <1>3

LEMMA IInvIsTrue ==
  ASSUME IInv
  PROVE  RecordIsTrue
<1>1. Shape /\ VerdictFits /\ EndsFit /\ SatisfiedInTheSameRound BY DEF IInv, Shape
<1>2. terminal # NoTerminal => GroupFactValid /\ MembersFit BY <1>1, VerdictIsTopology
<1>3. VerdictIsAccepted BY <1>2, JudgementIs DEF VerdictIsAccepted
<1>4. PhaseIsGrounded
  <2>1. ASSUME phase = "SUCCEEDED" PROVE terminal.reason = "passed" /\ TopologyAccepted
    <3>1. place = "done" /\ cause = "none" BY <1>1, <2>1 DEF Shape, PhaseFits
    <3>2. terminal.reason = "passed" BY <1>1, <3>1 DEF Shape, CauseFits
    <3>3. terminal # NoTerminal BY <3>2 DEF NoTerminal
    <3>4. ReasonIsPhase BY <2>1, <3>1 DEF ReasonIsPhase
    <3> QED BY <3>1, <3>2, <3>3, <3>4, JudgementIs
  <2>2. phase = "CANCELED" => parent # "alive" BY <1>1 DEF Shape, PhaseFits
  <2> QED BY <2>1, <2>2 DEF PhaseIsGrounded
<1> QED BY <1>1, <1>3, <1>4, IInvTells DEF RecordIsTrue, Shape

\* A verdict "passed" of ValidationGroup names a branch that every complete round of a
\* long enough span read true in all of its members (StableValidationPoller.Run).
THEOREM VerdictTheorem == Spec => []WinnerHeldTogether
<1>1. IInv => WinnerHeldTogether BY DEF IInv
<1> QED BY <1>1, InitIInv, IInvStep, PTL DEF Spec

\* What a group leaves on record is coherent: finals that fit the group fact, a commit that
\* appendGroupTopologyViolations refuses exactly when the reason and the phase were told
\* apart or the group fact is missing, losers that the same round read true, observations
\* that tell every change, and a phase that the cause and the parent account for.
THEOREM RecordTheorem == Spec => []RecordIsTrue
BY InitIInv, IInvStep, IInvIsTrue, PTL DEF Spec
=================================================================================
