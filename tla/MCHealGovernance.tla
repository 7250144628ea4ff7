--------------------------- MODULE MCHealGovernance ---------------------------
(***************************************************************************)
(* Four settings of HealGovernance: steps of many instances that feed the  *)
(* streaks; steps of two instances whose commits are lost and repeated; a  *)
(* step with reports that are refused; reviewers, two of whom approve with *)
(* one command while a third rejects.                                      *)
(***************************************************************************)
EXTENDS HealGovernance, TLC

CONSTANT Many      \* four instances that are alike

Fact(id, outcome, candidate, band) ==
  [id |-> id, outcome |-> outcome, candidate |-> candidate, band |-> band]
Reported(phase, facts) ==
  [phase |-> phase, facts |-> facts, count |-> 1, longest |-> 1, total |-> 1, foreign |-> FALSE]

Healed == Fact("healed", "SUCCEEDED", "h1", "APPLIED")
Weak == Fact("weak", "SUCCEEDED", "h1", "BELOW_CAP")
Other == Fact("other", "SUCCEEDED", "h2", "APPLIED")
Recovered == Fact("recovered", "ORIGINAL_RECOVERED", Blank, "UNKNOWN")
Failed == Fact("failed", "FAILED", Blank, "UNKNOWN")
Unknown == Fact("unknown", "SUCCEEDED", Blank, "UNKNOWN")
FailedWithCandidate == Fact("failedWith", "FAILED", "h1", "APPLIED")

Success(facts) == Reported("SUCCEEDED", facts)

StreakPayloads ==
  {Success(<<Healed>>), Success(<<Other>>), Success(<<Recovered>>), Reported("FAILED", <<Failed>>),
   Success(<<Unknown>>)}
ReviewPayloads == {Success(<<Weak>>), Success(<<Healed>>)}
CommitPayloads == {Success(<<Healed>>), Reported("FAILED", <<>>), Success(<<Healed, Recovered>>)}
RefusedPayloads ==
  {Success(<<Healed>>), Reported("FAILED", <<Healed>>), Success(<<Healed, Healed>>),
   Reported("FAILED", <<FailedWithCandidate>>),
   [Success(<<>>) EXCEPT !.count = 2], [Success(<<>>) EXCEPT !.longest = 2],
   [Success(<<>>) EXCEPT !.total = 2], [Success(<<Healed>>) EXCEPT !.foreign = TRUE]}

Setting(instances, payloads, calls, commits, versions, lapses, losses) ==
  [instances |-> instances, payloads |-> payloads, calls |-> calls, commits |-> commits,
   versions |-> versions, lapses |-> lapses, losses |-> losses]
MCSettings ==
  {Setting(Many, StreakPayloads, {}, 1, 2, 0, 0),
   Setting({"i1", "i2"}, CommitPayloads, {}, 2, 2, 1, 2),
   Setting({"i1"}, RefusedPayloads, {}, 3, 2, 1, 1),
   Setting(Many, ReviewPayloads, {"a", "b", "c"}, 1, 3, 0, 0)}

MCCommandOf == [a |-> "yes", b |-> "yes", c |-> "no"]
MCDecisionOf == [yes |-> "APPROVE", no |-> "REJECT"]

Alike == Permutations(Many)
=============================================================================
