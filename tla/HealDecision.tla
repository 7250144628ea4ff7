------------------------------ MODULE HealDecision ------------------------------
(* Which element of the page takes the place of one whose selectors failed      *)
(* (domain/heal): the candidates of the snapshot are narrowed, scored, ordered  *)
(* and classified, the decision is assessed for safety and told in samples. A   *)
(* step refuses what is not allowed (domain/node/step.go). Scores are hundredths*)
(* of a weight times Scale, over the weight of what the target tells of itself: *)
(* exact numbers where the code has floating point.                             *)
EXTENDS HealDistance, Integers, TLC

CONSTANTS
  None,            \* an empty text, or nothing
  Weights,         \* dimension -> hundredths
  AppliedCap, ReviewCap, MinimumMargin,   \* hundredths, ReviewCap < AppliedCap
  Scale,           \* a multiple of every denominator that a similarity can have
  KeyOrder,        \* the fingerprints without frameworks in the order of their keys
  Targets,         \* element target specs
  Contexts,        \* page and origin of the running page
  Normal,          \* URL -> the URL without its fragment
  Pool,            \* candidates that a page can have
  Repeats,         \* whether a page lists a candidate twice
  MaxCandidates    \* bound: the candidates of one snapshot

VARIABLES at, target, context, snapshot, decision, assessment, samples
vars == <<at, target, context, snapshot, decision, assessment, samples>>

NoDecision == [outcome |-> None, best |-> <<>>, candidates |-> <<>>, review |-> FALSE, code |-> "OK"]
NoAssessment == [disposition |-> None, reasons |-> {}]

Init ==
  /\ at = "LOCATING" /\ target \in Targets /\ context \in Contexts /\ snapshot = <<>>
  /\ decision = NoDecision /\ assessment = NoAssessment /\ samples = <<>>

--------------------------------------------------------------------------------
(* The score of a candidate. A similarity is a share of Scale.                  *)
Share(part, whole) == (Scale * part) \div whole
Same(a, b) == IF a # None /\ a = b THEN Scale ELSE 0

simRoleName(t, c) == IF t.role = c.role /\ t.name = c.name THEN Scale ELSE 0
simJaccard(a, b) ==
  IF a \union b = {} THEN 0 ELSE Share(Cardinality(a \intersect b), Cardinality(a \union b))
simKeyAttributes(t, c) == Share(Cardinality(t.attrs \intersect c.attrs), Cardinality(t.attrs))
simTextPrepared(t, c) == Scale - Share(levenshteinRunes(t, c), max2(Len(t), Len(c)))
simIndex(t, c) == IF max2(t, c) = 0 THEN Scale ELSE Scale - Share(max2(t, c) - min2(t, c), max2(t, c))
NeighborSignals(t) == {k \in {"prev", "next", "parent"} : t[k] # None}
simNeighbor(t, c) ==
  Share(Cardinality({k \in NeighborSignals(t) : t[k] = c[k]}), Cardinality(NeighborSignals(t)))
frameworkSimilarity(t, c) ==
  Share(Cardinality({f \in t.frameworks : \E g \in c.frameworks :
                       f.kind = g.kind /\ (f.version = None \/ g.version = None \/ f.version = g.version)}),
        Cardinality(t.frameworks))

\* The dimensions in which the target tells something of itself.
Applicable(t) ==
  {d \in DOMAIN Weights :
    CASE d = "tag" -> t.tag # None
      [] d = "id" -> t.id # None
      [] d = "roleName" -> t.role # None \/ t.name # None
      [] d = "class" -> t.classes # {}
      [] d = "attrs" -> t.attrs # {}
      [] d = "text" -> t.text # <<>>
      [] d = "index" -> TRUE
      [] d = "neighbor" -> NeighborSignals(t) # {}
      [] d = "labelText" -> t.label # <<>>
      [] d = "container" -> t.form # None
      [] d = "framework" -> t.frameworks # {}}
Similarity(d, t, c) ==
  CASE d = "tag" -> Same(t.tag, c.tag)
    [] d = "id" -> Same(t.id, c.id)
    [] d = "roleName" -> simRoleName(t, c)
    [] d = "class" -> simJaccard(t.classes, c.classes)
    [] d = "attrs" -> simKeyAttributes(t, c)
    [] d = "text" -> simTextPrepared(t.text, c.text)
    [] d = "index" -> simIndex(t.index, c.index)
    [] d = "neighbor" -> simNeighbor(t, c)
    [] d = "labelText" -> simTextPrepared(t.label, c.label)
    [] d = "container" -> Same(t.form, c.form)
    [] d = "framework" -> frameworkSimilarity(t, c)

totalWeight(t) == SumFunctionOnSet(Weights, Applicable(t))
score(t, c) == SumFunction([d \in Applicable(t) |-> Weights[d] * Similarity(d, t, c)])
\* The score reaches so many hundredths.
Reaches(t, sum, cap) == totalWeight(t) > 0 /\ 100 * sum >= cap * totalWeight(t) * Scale

--------------------------------------------------------------------------------
(* The order of the candidates and the decision.                                *)
canonicalKey(fp) == CHOOSE i \in DOMAIN KeyOrder : KeyOrder[i] = [fp EXCEPT !.frameworks = {}]
\* Mutant: equal scores are left as the page has them.
LessByScore(l, r) == l.score > r.score
candidateLess(l, r) ==
  \/ l.score > r.score
  \/ l.score = r.score /\ l.selector < r.selector
  \/ l.score = r.score /\ l.selector = r.selector /\ canonicalKey(l.fp) < canonicalKey(r.fp)
sameCandidate(l, r) == ~candidateLess(l, r) /\ ~candidateLess(r, l)

\* A stable sort: each goes to the place after those that come before it.
sortCandidates(cs) ==
  LET before(i, j) == candidateLess(cs[i], cs[j]) \/ (i < j /\ ~candidateLess(cs[j], cs[i]))
      place == [i \in DOMAIN cs |-> 1 + Cardinality({j \in DOMAIN cs \ {i} : before(j, i)})]
  IN [k \in DOMAIN cs |-> cs[CHOOSE i \in DOMAIN cs : place[i] = k]]

\* Outcome, best candidate and order. Of Candidate.validate, selector and fingerprint are not
\* looked into; the range of the score is part of DecisionsAreValid.
DecisionValid(d) ==
  /\ CASE d.outcome = "applied" -> d.best # <<>> /\ ~d.review
       [] d.outcome = "below_cap" -> d.best # <<>> /\ d.review
       [] d.outcome = "no_candidate" -> d.best = <<>> /\ ~d.review
       [] OTHER -> FALSE
  /\ \A i \in 2..Len(d.candidates) : ~candidateLess(d.candidates[i], d.candidates[i - 1])
  /\ d.best # <<>> => d.candidates # <<>> /\ sameCandidate(d.best[1], d.candidates[1])

Heal(spec, found) ==
  LET t == spec.fp
      nearest == narrowByPathLCS(t.path, [i \in DOMAIN found |-> found[i].fp.path])
      narrowed == FoldLeftDomain(LAMBDA kept, i : IF i \in nearest THEN Append(kept, found[i]) ELSE kept, <<>>, found)
      scored == [i \in DOMAIN narrowed |->
                  [selector |-> narrowed[i].selector, fp |-> narrowed[i].fp, score |-> score(t, narrowed[i].fp)]]
      ordered == sortCandidates(scored)
      made(outcome, best, review) ==
        [outcome |-> outcome, best |-> best, candidates |-> ordered, review |-> review, code |-> "OK"]
      d == IF ordered = <<>> THEN made("no_candidate", <<>>, FALSE)
           ELSE IF Reaches(t, ordered[1].score, AppliedCap) THEN made("applied", <<ordered[1]>>, FALSE)
           ELSE IF Reaches(t, ordered[1].score, ReviewCap) THEN made("below_cap", <<ordered[1]>>, TRUE)
           ELSE made("no_candidate", <<>>, FALSE)
  IN IF DecisionValid(d) THEN d ELSE [NoDecision EXCEPT !.code = "DECISION_INVALID"]
--------------------------------------------------------------------------------
(* The safety of a decision, and what is told of it.                            *)
Disagree(a, b) == a # None /\ b # None /\ a # b
OriginReasons(spec, now) ==
  IF spec.origin = None \/ spec.origin = now.origin THEN {}
  ELSE IF now.origin = None THEN {"origin_unknown"} ELSE {"origin_mismatch"}
PageReasons(spec, now) ==
  IF spec.page = None THEN {}
  ELSE IF now.page = None THEN {"page_unknown"}
  ELSE IF Normal[spec.page] # Normal[now.page] THEN {"page_mismatch"} ELSE {}
Contradictions(spec, fp) ==
  (IF Disagree(spec.role, fp.role) THEN {"role_mismatch"} ELSE {})
    \union (IF Disagree(spec.fp.tag, fp.tag) THEN {"tag_mismatch"} ELSE {})
    \union (IF Disagree(spec.fp.form, fp.form) THEN {"form_mismatch"} ELSE {})
Ambiguous(spec, d) ==
  /\ Len(d.candidates) > 1
  /\ 100 * (d.candidates[1].score - d.candidates[2].score) < MinimumMargin * totalWeight(spec.fp) * Scale

Assess(spec, d, now) ==
  IF d.best = <<>> THEN [disposition |-> "block", reasons |-> {"no_candidate"}]
  ELSE LET origin == OriginReasons(spec, now)
           page == IF origin = {} THEN PageReasons(spec, now) ELSE {}
           blocking == origin \union Contradictions(spec, d.best[1].fp)
           ambiguous == IF blocking \union page = {} /\ Ambiguous(spec, d) THEN {"ambiguous"} ELSE {}
       IN [disposition |-> IF blocking # {} THEN "block"
                           ELSE IF page \union ambiguous # {} THEN "review" ELSE "allow",
           reasons |-> blocking \union page \union ambiguous]

Samples(spec, d) ==
  [i \in DOMAIN d.candidates |->
    LET c == d.candidates[i]
        eligible == 100 * c.score >= ReviewCap * totalWeight(spec.fp) * Scale
        selected == d.best # <<>> /\ sameCandidate(c, d.best[1])
    IN [rank |-> i, eligible |-> eligible, selected |-> selected,
        status |-> IF selected THEN "selected" ELSE IF eligible THEN "eligible" ELSE "below_review_cap"]]
StatusValid(s) ==
  CASE s.status = "below_review_cap" -> ~s.eligible /\ ~s.selected
    [] s.status = "eligible" -> s.eligible /\ ~s.selected
    [] s.status = "selected" -> s.eligible /\ s.selected
ValidateSamples(ss) ==
  /\ \A i \in DOMAIN ss : ss[i].rank = i /\ StatusValid(ss[i])
  /\ Cardinality({i \in DOMAIN ss : ss[i].selected}) <= 1

--------------------------------------------------------------------------------
(* A step that lost its element.                                                *)
\* External: the page is read, element by element.
ReadPage(c) ==
  /\ at = "LOCATING" /\ Len(snapshot) < MaxCandidates
  /\ Repeats \/ c \notin Range(snapshot)
  /\ snapshot' = Append(snapshot, c)
  /\ UNCHANGED <<at, target, context, decision, assessment, samples>>

Recover ==
  /\ at = "LOCATING" /\ decision' = Heal(target, snapshot)
  /\ at' = IF decision'.code = "OK" THEN "DECIDED" ELSE "REFUSED"
  /\ samples' = Samples(target, decision')
  /\ UNCHANGED <<target, context, snapshot, assessment>>

\* Only what is allowed is applied; what is blocked is recorded as such.
Apply ==
  /\ at = "DECIDED" /\ assessment' = Assess(target, decision, context)
  /\ at' = IF assessment'.disposition = "allow" THEN "APPLIED" ELSE "REFUSED"
  /\ decision' = IF assessment'.disposition = "block" /\ decision.outcome # "no_candidate"
                 THEN [decision EXCEPT !.outcome = "safety_rejected", !.review = FALSE] ELSE decision
  /\ UNCHANGED <<target, context, snapshot, samples>>

Next == (\E c \in Pool : ReadPage(c)) \/ Recover \/ Apply
Spec == Init /\ [][Next]_vars

--------------------------------------------------------------------------------
TypeOK ==
  /\ at \in {"LOCATING", "DECIDED", "APPLIED", "REFUSED"}
  /\ decision.outcome \in {None, "applied", "below_cap", "no_candidate", "safety_rejected"}
  /\ assessment.disposition \in {None, "allow", "review", "block"}
  /\ \A i \in DOMAIN decision.candidates : decision.candidates[i].score \in 0..totalWeight(target.fp) * Scale

Decided == at = "DECIDED"

\* Whatever the page holds, the decision keeps the rules that a decision of any
\* healer must keep, or the step would fail (Decision.Validate).
DecisionsAreValid == decision.code = "OK"

\* The order in which the page lists its candidates decides nothing: neither what
\* is chosen nor how the others rank (candidateLess, candidate order).
OrderDecidesNothing ==
  Decided => \A p \in Permutations(DOMAIN snapshot) :
    Heal(target, [i \in DOMAIN snapshot |-> snapshot[p[i]]]) = decision

\* An element that is on the page unchanged is found: whatever the target lacks and
\* whatever else is there, the best candidate scores full marks and is applied
\* (score, which counts only what the target tells of itself).
UnchangedIsFound ==
  Decided /\ totalWeight(target.fp) > 0 /\ (\E i \in DOMAIN snapshot : snapshot[i].fp = target.fp) =>
    decision.outcome = "applied" /\ decision.best[1].score = totalWeight(target.fp) * Scale

\* What is told of a decision agrees with itself and with the decision: one sample
\* per candidate, at most one of them selected, and this one eligible (Samples,
\* ValidateSamples).
SamplesAgree ==
  Decided => ValidateSamples(samples) /\ ((\E i \in DOMAIN samples : samples[i].selected) <=> decision.best # <<>>)

\* A step goes on with another element only where the target was recorded, if this
\* is known, with one that contradicts it in nothing, and with no rival so near that
\* it might have been meant (Assess).
AppliedIsSafe ==
  at = "APPLIED" =>
    LET best == decision.best[1] IN
    /\ target.origin \in {None, context.origin}
    /\ target.page # None => context.page # None /\ Normal[target.page] = Normal[context.page]
    /\ ~Disagree(target.role, best.fp.role) /\ ~Disagree(target.fp.tag, best.fp.tag)
    /\ ~Disagree(target.fp.form, best.fp.form)
    /\ \A i \in 2..Len(decision.candidates) :
         100 * (best.score - decision.candidates[i].score) >= MinimumMargin * totalWeight(target.fp) * Scale

\* Whatever else is to be reviewed, a target on another origin, or a best candidate
\* that contradicts it, is blocked and recorded as a rejection (Assess, heal).
ContradictedIsRejected ==
  at = "REFUSED" /\ decision.best # <<>>
    /\ (target.origin \notin {None, context.origin} \/ Contradictions(target, decision.best[1].fp) # {})
    => decision.outcome = "safety_rejected"

\* A decision of the healer is valid, the same in whatever order the page lists its
\* candidates, told as it is, and safe where it is applied.
HealingIsSound ==
  /\ TypeOK
  /\ DecisionsAreValid
  /\ OrderDecidesNothing
  /\ UnchangedIsFound
  /\ SamplesAgree
  /\ AppliedIsSafe
  /\ ContradictedIsRejected
================================================================================
