------------------------------ MODULE SamplingMatch ------------------------------
(* How like a captured element is to one that is known (domain/sampling/        *)
(* matching.go): the loop that counts the selectors both have, and the score    *)
(* made of it. The score is kept as hundredths of the number of all selectors,  *)
(* where the code has floating point.                                           *)
EXTENDS Naturals, Integers, Sequences, FiniteSets

CONSTANTS
  NoSignal,        \* a blank signal
  Selectors, Values,
  Profiles         \* what elements can tell of themselves

Signals == {"tag", "role", "name", "origin"}
ASSUME ProfilesAssumption ==
  Profiles \subseteq [selectors : Seq(Selectors), signals : [Signals -> Values \union {NoSignal}]]

VARIABLES sampled, baseline,   \* the two profiles
          values, i, count     \* the loop of overlap
matchVars == <<sampled, baseline, values, i, count>>

SetOf(s) == {s[j] : j \in 1..Len(s)}

MatchInit ==
  /\ sampled \in Profiles /\ baseline \in Profiles
  /\ values = SetOf(sampled.selectors)
  /\ i = 1 /\ count = 0

CountNext ==
  LET key == baseline.selectors[i] IN
  /\ i <= Len(baseline.selectors) /\ i' = i + 1
  /\ count' = IF key \in values THEN count + 1 ELSE count
  /\ values' = values \ {key}
  /\ UNCHANGED <<sampled, baseline>>

MatchNext == CountNext
MatchSpec == MatchInit /\ [][MatchNext]_matchVars /\ WF_matchVars(MatchNext)

Done == i > Len(baseline.selectors)

--------------------------------------------------------------------------------
(* The score, in hundredths of all selectors.                                   *)
AllSelectors == SetOf(sampled.selectors) \union SetOf(baseline.selectors)
\* Mutant: selectors are counted as often as they are listed.
unionOfLists == Len(sampled.selectors) + Len(baseline.selectors) - count
union ==
  Cardinality(SetOf(sampled.selectors)) + Cardinality(SetOf(baseline.selectors)) - count
Agree(s) == sampled.signals[s] # NoSignal /\ sampled.signals[s] = baseline.signals[s]
Reward(s, hundredths) == IF Agree(s) THEN hundredths ELSE 0
Rewards == Reward("tag", 13) + Reward("role", 10) + Reward("name", 10) + Reward("origin", 5)
\* similarity = Selected / union + Rewards / 100, without the first if union = 0.
Selected == 62 * count
Match == IF union > 0 THEN Selected + Rewards * union ELSE Rewards

--------------------------------------------------------------------------------
\* The loop counts every selector that both profiles list once, however often and in
\* whatever order they list it: the count is the same with the profiles exchanged
\* (overlap; docs/domains/sampling.md, line 35).
OverlapIsCommon ==
  Done => count = Cardinality(SetOf(sampled.selectors) \intersect SetOf(baseline.selectors))

\* The score lies between nothing and everything, and is everything only for two
\* elements that have all selectors in common and agree in every signal (Match).
MatchIsAShare ==
  Done => /\ union = Cardinality(AllSelectors)
          /\ Match \in 0..100 * (IF union > 0 THEN union ELSE 1)
          /\ union > 0 /\ Match = 100 * union =>
               /\ SetOf(sampled.selectors) = SetOf(baseline.selectors)
               /\ \A s \in Signals : sampled.signals[s] = baseline.signals[s] /\ sampled.signals[s] # NoSignal
================================================================================
