---------------------------- MODULE HealGovernance ----------------------------
(***************************************************************************)
(* What heals of one element target lead to.  Workers of several instances *)
(* commit the terminal facts of their steps (StepTransitionService and     *)
(* FactCommitter in application/execution/ports.go); the host's transaction*)
(* asks the planner (heal_governance.go) about every heal it accepts, and  *)
(* the streak of the base version decides.  Reviewers approve or reject    *)
(* what waits for them (application/automation/heal_review_service.go).    *)
(* The two transactions belong to the host; they are modelled from the     *)
(* conformance suites that a host has to pass.                             *)
(***************************************************************************)
EXTENDS HealStreak, FiniteSets, Functions

CONSTANTS
  Settings,      \* who takes part, and the bounds:
                 \*   instances  one step each, on the same element target
                 \*   payloads   what a step may report
                 \*   calls      calls of reviewers
                 \*   commits    bound: commit identities of one step
                 \*   versions   bound: versions of the element target
                 \*   lapses     bound: claims that end under their worker
                 \*   losses     bound: workers that wait for a lost answer at once
  FactIDs, Hashes,   \* identities of facts and of healed candidates
  CommandOf,     \* the command of a call: a repeated command is a retry
  DecisionOf,    \* what a command decides
  maxStepTransitionFacts, maxStepTransitionStringBytes, MaxStepTransitionPayloadBytes

\* A step reports its phase, its facts, and their number and size.
Facts ==
  [id : FactIDs, outcome : {"SUCCEEDED", "ORIGINAL_RECOVERED", "FAILED"},
   candidate : Hashes \union {Blank}, band : {"APPLIED", "BELOW_CAP", "UNKNOWN"}]
Reports ==
  [phase : {"SUCCEEDED", "FAILED"}, facts : Seq(Facts), count : Nat, longest : Nat, total : Nat,
   foreign : BOOLEAN]
ASSUME SettingsAssumption ==
  \A s \in Settings :
    /\ s.payloads \subseteq Reports
    /\ s.commits \in Nat /\ s.versions \in Nat \ {0}
    /\ \A c \in s.calls : c \in DOMAIN CommandOf /\ CommandOf[c] \in DOMAIN DecisionOf
ASSUME DecisionAssumption == \A k \in DOMAIN DecisionOf : DecisionOf[k] \in {"APPROVE", "REJECT"}
ASSUME HashAssumption == Blank \notin Hashes

VARIABLES
  setting,       \* one of Settings
  step,          \* the host's record of a step: revision and whether its claim is live
  worker,        \* what the worker of an instance has sent and been answered
  replays,       \* commit identity -> what was committed and answered
  log,           \* accepted facts in the order of their sequence identities
  streaks,       \* base version -> streak
  effects,       \* base version -> the effect that its streak last had
  candidates,    \* base version -> the candidate under review
  node,          \* the element target: revision and versions
  shown,         \* command -> the revision of the element target that its reviewer saw
  call,          \* what a reviewer's call has read and been answered
  reviews        \* command -> the review that was committed

evidence == <<step, worker, replays>>
governanceVars ==
  <<setting, step, worker, replays, log, streaks, effects, candidates, node, shown, call, reviews>>

Instances == setting.instances
Calls == setting.calls
MaxCommits == setting.commits
MaxVersions == setting.versions
Bases == 1..MaxVersions
Current == Len(node.versions)
Version(source, base, candidate) == [source |-> source, base |-> base, candidate |-> candidate]
Noted(f, x, y) == [z \in DOMAIN f \union {x} |-> IF z = x THEN y ELSE f[z]]
NothingSent == [phase |-> Blank, facts |-> <<>>]
NoEffect == [kind |-> Blank, candidate |-> Blank, band |-> Blank, contributions |-> <<>>]
NoCandidate == [status |-> Blank, hash |-> Blank, revision |-> 0]

GovernanceInit ==
  /\ setting \in Settings
  /\ step = [i \in Instances |-> [revision |-> 1, live |-> TRUE]]
  /\ worker = [i \in Instances |-> [n |-> 0, sent |-> NothingSent, known |-> 1, answer |-> Blank]]
  /\ replays = [c \in {} |-> NothingSent]
  /\ log = <<>>
  /\ streaks = [b \in Bases |-> EmptyStreak]
  /\ effects = [b \in Bases |-> NoEffect]
  /\ candidates = [b \in Bases |-> NoCandidate]
  /\ node = [revision |-> 1, versions |-> <<Version("manual", 0, Blank)>>]
  /\ shown = [k \in DOMAIN DecisionOf |-> 0]
  /\ call = [c \in Calls |-> [pc |-> "idle", candidate |-> NoCandidate, streak |-> EmptyStreak,
                              sequence |-> 0, answer |-> Blank]]
  /\ reviews = [k \in {} |-> NoCandidate]

-----------------------------------------------------------------------------
(* The checks of a commit before it reaches the transaction, in order.     *)

Heals(payload) == {k \in DOMAIN payload.facts : payload.facts[k].outcome # "ORIGINAL_RECOVERED"}

\* Evidence: one identity per fact, and only a step that succeeded has healed or
\* recovered.
CommitValid(payload) ==
  /\ \A j \in Heals(payload), k \in Heals(payload) :
       j # k => payload.facts[j].id # payload.facts[k].id
  /\ \A k \in DOMAIN payload.facts :
       LET f == payload.facts[k]
       IN /\ f.outcome # "FAILED" => payload.phase = "SUCCEEDED"
          /\ f.outcome # "ORIGINAL_RECOVERED" => ValidateHealDecisionBand(f.candidate, f.band)

exceedsFactLimit(payload) == payload.count > maxStepTransitionFacts

\* Every string is bounded, and so is what they add up to.
PayloadTooLarge(payload) ==
  payload.longest > maxStepTransitionStringBytes \/ payload.total > MaxStepTransitionPayloadBytes

CommitError(payload) ==
  IF exceedsFactLimit(payload) THEN "factLimit"
  ELSE IF ~CommitValid(payload) THEN "commitInvalid"
  ELSE IF payload.foreign THEN "instanceMismatch"
  ELSE IF PayloadTooLarge(payload) THEN "payloadTooLarge"
  ELSE Blank

-----------------------------------------------------------------------------
(* The planner: what one accepted fact makes of the streak of its base.    *)

mapAcceptedHealFact(f, contribution, current) ==
  [contribution |-> contribution, base |-> f.base, candidate |-> f.candidate, band |-> f.band,
   outcome |-> f.outcome, baseIsCurrent |-> f.base = current]

validateHealCandidateStatus(status, disposition) ==
  \/ status = Blank
  \/ status = "AWAITING_APPROVAL" /\ disposition = "AWAIT_APPROVAL"
  \/ status = "PROMOTED" /\ disposition = "AUTO_PUBLISH"
  \/ status = "REJECTED" /\ disposition = "REJECTED"
  \/ status \in {"OBSERVING", "STALE"} /\ disposition = status

Terminal == {"AUTO_PUBLISH", "AWAIT_APPROVAL", "RESET", "STALE"}

EffectOf(streak) ==
  [kind |-> streak.disposition, candidate |-> streak.candidate, band |-> streak.band,
   contributions |-> streak.contributions]

\* The host shows the planner the effect of a streak that is at an end.
validateExistingHealEffect(effect, streak) ==
  streak.disposition \in Terminal => effect = EffectOf(streak)

PlanError(streak, status, effect, observation) ==
  IF ~StreakValid(streak) \/ ~validateHealCandidateStatus(status, streak.disposition)
  THEN "snapshotInvalid"
  ELSE IF ~validateExistingHealEffect(effect, streak) THEN "effectConflict"
  ELSE ObserveError(streak, observation)

\* Mutant: the effect of a decided streak is repeated with every observation.
terminalEffectOfState(previous, next) ==
  IF next.disposition \in {"AUTO_PUBLISH", "AWAIT_APPROVAL"} THEN next.disposition ELSE Blank

terminalEffectForTransition(previous, next) ==
  IF previous.disposition # next.disposition
     /\ next.disposition \in Terminal
  THEN next.disposition ELSE Blank

\* The tables a commit works on, and the same after one more fact.
Tables == [log |-> log, streaks |-> streaks, effects |-> effects, candidates |-> candidates, node |-> node, error |-> Blank]

Effected(t, effect, base, next) ==
  CASE effect = "AUTO_PUBLISH" ->
         [t EXCEPT !.node = [revision |-> @.revision + 1,
                             versions |-> Append(@.versions, Version("auto", base, next.candidate))]]
    [] effect = "AWAIT_APPROVAL" ->
         [t EXCEPT !.candidates[base] = [status |-> "AWAITING_APPROVAL", hash |-> next.candidate, revision |-> 1]]
    [] OTHER -> t

NextSequence(t) == Len(t.log) + 1

Entry(i, f, observation) ==
  [fact |-> <<i, f.id>>, base |-> observation.base, outcome |-> observation.outcome,
   candidate |-> observation.candidate, band |-> observation.band, baseIsCurrent |-> observation.baseIsCurrent]

Governed(t, i, commit, f) ==
  LET contribution == [fact |-> <<i, f.id>>, commit |-> commit, instance |-> i, sequence |-> NextSequence(t)]
      observation == mapAcceptedHealFact(f, contribution, Len(t.node.versions))
      error == PlanError(t.streaks[f.base], t.candidates[f.base].status, t.effects[f.base], observation)
      next == Observe(t.streaks[f.base], observation)
      effect == terminalEffectForTransition(t.streaks[f.base], next)
  IN IF t.error # Blank \/ \E e \in Range(t.log) : e.fact = <<i, f.id>> THEN t
     ELSE IF error # Blank THEN [t EXCEPT !.error = error]
     ELSE Effected([t EXCEPT !.log = Append(@, Entry(i, f, observation)),
                             !.streaks[f.base] = next,
                             !.effects[f.base] = IF effect = Blank THEN @ ELSE EffectOf(next)],
                   effect, f.base, next)

\* Every fact of the commit, heals before resets.
AfterFacts(i, commit, facts) ==
  LET after[k \in 0..Len(facts)] ==
        IF k = 0 THEN Tables ELSE Governed(after[k - 1], i, commit, facts[k])
  IN after[Len(facts)]

-----------------------------------------------------------------------------
(* Workers.                                                                *)

\* The step ends: its facts are committed under a new identity, against the
\* revision the worker knows and the base version its plan was made from.
Based(f, b) == [id |-> f.id, outcome |-> f.outcome, candidate |-> f.candidate, band |-> f.band, base |-> b]
Send(i) ==
  /\ worker[i].n < MaxCommits
  /\ worker[i].n > 0 => worker[i].answer # Blank
  /\ \E p \in setting.payloads, b \in 1..Current :
       worker' = [worker EXCEPT ![i] =
         [n |-> @.n + 1, known |-> @.known, answer |-> Blank,
          sent |-> [p EXCEPT !.facts = [k \in DOMAIN @ |-> Based(@[k], b)]]]]
  /\ UNCHANGED <<step, replays, log, streaks, effects, candidates, node, shown, call, reviews>>

CommitOf(i) == <<i, worker[i].n>>
MayLose == Cardinality({i \in Instances : worker[i].answer = "lost"}) < setting.losses

\* Mutant: the revision is compared before the recorded result is looked up.
TransactionErrorByRevision(i) ==
  IF ~step[i].live THEN "staleFence"
  ELSE IF worker[i].known # step[i].revision THEN "revisionConflict" ELSE Blank

\* What the transaction refuses before it looks at a fact.
TransactionError(i) ==
  IF ~step[i].live THEN "staleFence"
  ELSE IF CommitOf(i) \in DOMAIN replays
       THEN IF replays[CommitOf(i)].payload # worker[i].sent THEN "identityConflict" ELSE Blank
  ELSE IF worker[i].known # step[i].revision THEN "revisionConflict" ELSE Blank

Answered(i, answer) == worker' = [worker EXCEPT ![i].answer = answer]

RefuseCommit(i, error) ==
  /\ error # Blank
  /\ Answered(i, error)
  /\ UNCHANGED <<step, replays, log, streaks, effects, candidates, node>>

\* A repeated commit is answered with the recorded revision.
Replay(i) ==
  /\ CommitOf(i) \in DOMAIN replays
  /\ worker' = [worker EXCEPT ![i].answer = "replayed", ![i].known = replays[CommitOf(i)].revision]
  /\ UNCHANGED <<step, replays, log, streaks, effects, candidates, node>>

\* All of it is stored or nothing is; the answer may be lost.
Apply(i) ==
  LET t == AfterFacts(i, CommitOf(i), worker[i].sent.facts)
      revision == step[i].revision + 1
  IN /\ CommitOf(i) \notin DOMAIN replays
     /\ t.error = Blank
     /\ Len(t.node.versions) <= MaxVersions
     /\ step' = [step EXCEPT ![i].revision = revision]
     /\ log' = t.log /\ streaks' = t.streaks /\ effects' = t.effects /\ candidates' = t.candidates /\ node' = t.node
     /\ replays' = Noted(replays, CommitOf(i), [payload |-> worker[i].sent, revision |-> revision])
     /\ \/ worker' = [worker EXCEPT ![i].answer = "applied", ![i].known = revision]
        \/ MayLose /\ Answered(i, "lost")

Transact(i) ==
  /\ worker[i].n > 0
  /\ worker[i].answer \in {Blank, "lost"}
  /\ \/ RefuseCommit(i, CommitError(worker[i].sent))
     \/ /\ CommitError(worker[i].sent) = Blank
        /\ \/ RefuseCommit(i, TransactionError(i))
           \/ /\ TransactionError(i) = Blank
              /\ \/ Replay(i)
                 \/ Apply(i)
                 \/ /\ CommitOf(i) \notin DOMAIN replays
                    /\ RefuseCommit(i, AfterFacts(i, CommitOf(i), worker[i].sent.facts).error)
  /\ UNCHANGED <<shown, call, reviews>>

\* The transaction fails before it commits: nothing is stored.
Rollback(i) ==
  /\ worker[i].n > 0 /\ worker[i].answer = Blank
  /\ MayLose /\ Answered(i, "lost")
  /\ UNCHANGED <<step, replays, log, streaks, effects, candidates, node, shown, call, reviews>>

Lapse(i) ==
  /\ step[i].live
  /\ Cardinality({j \in Instances : ~step[j].live}) < setting.lapses
  /\ step' = [step EXCEPT ![i].live = FALSE]
  /\ UNCHANGED <<worker, replays, log, streaks, effects, candidates, node, shown, call, reviews>>

-----------------------------------------------------------------------------
(* Reviewers.  A call names the first base version: the one whose          *)
(* candidate is waiting.                                                   *)

Reviewed == 1
Ends(c, answer) == call' = [call EXCEPT ![c].pc = "done", ![c].answer = answer]

\* The candidate after its review.
Review(candidate, status) == [candidate EXCEPT !.status = status, !.revision = @ + 1]

\* What a recorded result has to look like to the command that repeats it.
validateHealReviewReplay(k, result) ==
  /\ result.decision = DecisionOf[k]
  /\ result.candidate.revision = 2
  /\ IF DecisionOf[k] = "APPROVE"
     THEN /\ result.candidate.status = "PROMOTED"
          /\ result.node.revision = shown[k] + 1
          /\ Len(result.node.versions) # Reviewed
          /\ result.node.versions[Len(result.node.versions)] = Version("review", Reviewed, result.candidate.hash)
     ELSE /\ result.candidate.status = "REJECTED"
          /\ StreakValid(result.streak)
          /\ result.streak.candidate = result.candidate.hash
          /\ result.streak.disposition = "REJECTED"

ReplayReview(c) ==
  Ends(c, IF validateHealReviewReplay(CommandOf[c], reviews[CommandOf[c]]) THEN "replayed"
          ELSE "contractViolation")

\* A recorded command is answered from the record.
Lookup(c) ==
  /\ call[c].pc \in {"idle", "lost"}
  /\ candidates[Reviewed].status # Blank
  /\ IF CommandOf[c] \in DOMAIN reviews THEN ReplayReview(c)
     ELSE call' = [call EXCEPT ![c].pc = "load"]
  /\ shown' = [shown EXCEPT ![CommandOf[c]] = IF @ = 0 THEN node.revision ELSE @]
  /\ UNCHANGED <<evidence, log, streaks, effects, candidates, node, reviews>>

\* The command names the revisions that the reviewer was shown: those of a
\* candidate that waits.
LoadCandidate(c) ==
  /\ call[c].pc = "load"
  /\ IF candidates[Reviewed].status # "AWAITING_APPROVAL" THEN Ends(c, "candidateInvalid")
     ELSE call' = [call EXCEPT ![c].pc = "node", ![c].candidate = candidates[Reviewed]]
  /\ UNCHANGED <<evidence, log, streaks, effects, candidates, node, shown, reviews>>

LoadNode(c) ==
  /\ call[c].pc = "node"
  /\ IF node.revision # shown[CommandOf[c]] THEN Ends(c, "revisionConflict")
     ELSE IF Current # Reviewed THEN Ends(c, "staleBase")
     ELSE call' = [call EXCEPT ![c].pc = IF DecisionOf[CommandOf[c]] = "APPROVE" THEN "commit" ELSE "streak"]
  /\ UNCHANGED <<evidence, log, streaks, effects, candidates, node, shown, reviews>>

\* The sequence of a rejection is taken before the rejection is committed.
LoadStreak(c) ==
  LET sequence == Len(log) + 1
      error == RejectError(streaks[Reviewed], sequence)
  IN /\ call[c].pc = "streak"
     /\ log' = Append(log, [fact |-> <<c, "rejection">>, base |-> Reviewed, outcome |-> "REJECTION",
                            candidate |-> Blank, band |-> Blank, baseIsCurrent |-> FALSE])
     /\ IF error # Blank THEN Ends(c, error)
        ELSE call' = [call EXCEPT ![c].pc = "commit", ![c].streak = streaks[Reviewed], ![c].sequence = sequence]
     /\ UNCHANGED <<evidence, streaks, effects, candidates, node, shown, reviews>>

\* Everything the decision rests on is as it was read.
AuthorityHolds(c) ==
  /\ candidates[Reviewed] = call[c].candidate
  /\ node.revision = shown[CommandOf[c]] /\ Current = Reviewed
  /\ DecisionOf[CommandOf[c]] = "REJECT" => streaks[Reviewed] = call[c].streak

Approved(c) ==
  [decision |-> "APPROVE", candidate |-> Review(call[c].candidate, "PROMOTED"), streak |-> EmptyStreak,
   node |-> [revision |-> node.revision + 1,
             versions |-> Append(node.versions, Version("review", Reviewed, call[c].candidate.hash))]]

Rejected(c) ==
  [decision |-> "REJECT", candidate |-> Review(call[c].candidate, "REJECTED"),
   streak |-> Reject(call[c].streak, call[c].sequence), node |-> node]

\* An approval changes the element target and leaves the streak; a rejection
\* changes the streak and leaves the element target.
Store(c, result) ==
  /\ node' = result.node
  /\ candidates' = [candidates EXCEPT ![Reviewed] = result.candidate]
  /\ streaks' = IF result.decision = "APPROVE" THEN streaks ELSE [streaks EXCEPT ![Reviewed] = result.streak]
  /\ reviews' = Noted(reviews, CommandOf[c], result)

CommitReview(c) ==
  /\ call[c].pc = "commit"
  /\ IF CommandOf[c] \in DOMAIN reviews
     THEN ReplayReview(c) /\ UNCHANGED <<streaks, candidates, node, reviews>>
     ELSE IF ~AuthorityHolds(c)
     THEN Ends(c, "authorityConflict") /\ UNCHANGED <<streaks, candidates, node, reviews>>
     ELSE /\ Current < MaxVersions
          /\ Store(c, IF DecisionOf[CommandOf[c]] = "APPROVE" THEN Approved(c) ELSE Rejected(c))
          /\ Ends(c, "applied") \/ call' = [call EXCEPT ![c].pc = "lost"]
  /\ UNCHANGED <<evidence, log, effects, shown>>

\* Somebody edits the element target by hand.
PublishByHand ==
  /\ Current < MaxVersions
  /\ \A k \in 2..Current : node.versions[k].source # "manual"
  /\ node' = [revision |-> node.revision + 1, versions |-> Append(node.versions, Version("manual", Current, Blank))]
  /\ UNCHANGED <<evidence, log, streaks, effects, candidates, shown, call, reviews>>

GovernanceNext ==
  /\ UNCHANGED setting
  /\ \/ \E i \in Instances : Send(i) \/ Transact(i) \/ Rollback(i) \/ Lapse(i)
     \/ \E c \in Calls : Lookup(c) \/ LoadCandidate(c) \/ LoadNode(c) \/ LoadStreak(c) \/ CommitReview(c)
     \/ PublishByHand

GovernanceSpec == GovernanceInit /\ [][GovernanceNext]_governanceVars

-----------------------------------------------------------------------------
Answers == {Blank, "applied", "replayed", "lost", "factLimit", "commitInvalid", "instanceMismatch",
            "payloadTooLarge", "staleFence", "identityConflict", "revisionConflict", "snapshotInvalid",
            "stateInvalid", "observationInvalid", "provenanceConflict", "sequenceConflict", "effectConflict"}

\* The tables hold what the code may put there.
TablesOK ==
  /\ \A i \in Instances : step[i].revision \in 1..(MaxCommits + 1) /\ step[i].live \in BOOLEAN
  /\ \A i \in Instances : worker[i].n \in 0..MaxCommits /\ worker[i].answer \in Answers
  /\ \A b \in Bases : streaks[b].disposition \in Dispositions
  /\ \A b \in Bases : candidates[b].status \in {Blank, "AWAITING_APPROVAL", "PROMOTED", "REJECTED"}
  /\ Current \in 1..MaxVersions /\ node.revision = Current
  /\ \A c \in Calls : call[c].pc \in {"idle", "lost", "load", "node", "streak", "commit", "done"}

\* The facts that the streak of a base counts, as they were accepted.
Counted(b) == {log[streaks[b].contributions[k].sequence] : k \in DOMAIN streaks[b].contributions}
Between(b) ==
  LET cs == streaks[b].contributions
  IN {log[n] : n \in {m \in cs[1].sequence..cs[Len(cs)].sequence : log[m].base = b}}

\* A version published without a person, or put before one, rests on three runs
\* of three instances that healed to the same candidate with the same band
\* while the base was current, with no recovery of the original selector and no
\* other candidate in between.
PublicationIsEarned ==
  \A b \in Bases : streaks[b].disposition \in {"AUTO_PUBLISH", "AWAIT_APPROVAL", "REJECTED"} =>
    /\ Cardinality({f.fact[1] : f \in Counted(b)}) = 3
    /\ \A f \in Counted(b) :
         /\ f.outcome = "SUCCEEDED" /\ f.baseIsCurrent
         /\ f.candidate = streaks[b].candidate /\ f.band = streaks[b].band
    /\ \A f \in Between(b) :
         f.outcome # "ORIGINAL_RECOVERED" /\ f.candidate \in {Blank, streaks[b].candidate}

\* A published version replaces the version it was derived from: nothing that
\* somebody else published in between is overwritten unseen.
VersionsFollowTheirBase ==
  \A k \in 2..Current : node.versions[k].base = k - 1

\* Every version that nobody made by hand answers to exactly one decided streak
\* or one approval, with the candidate that was decided on.
VersionsAnswerToDecisions ==
  LET Made(source, b, candidate) ==
        Cardinality({k \in 2..Current : node.versions[k] = Version(source, b, candidate)})
  IN \A b \in Bases :
       /\ Made("auto", b, streaks[b].candidate) = IF streaks[b].disposition = "AUTO_PUBLISH" THEN 1 ELSE 0
       /\ Made("review", b, candidates[b].hash) = IF candidates[b].status = "PROMOTED" THEN 1 ELSE 0
       /\ candidates[b].status = "REJECTED" <=> streaks[b].disposition = "REJECTED"

\* A worker that lost the answer of an applied commit is never told that the
\* commit failed, as long as its claim lives: it is answered from the record,
\* and the revision moves once per applied commit.
LostReplyIsHarmless ==
  \A i \in Instances :
    /\ step[i].revision = 1 + Cardinality({n \in 1..MaxCommits : <<i, n>> \in DOMAIN replays})
    /\ CommitOf(i) \in DOMAIN replays => worker[i].answer \in {"applied", "replayed", "lost", "staleFence"}

\* Reviewers get one truth: every call that is told "done" was told of the
\* decision that the candidate shows, and a candidate is decided once.
ReviewersAgree ==
  /\ Cardinality(DOMAIN reviews) <= 1
  /\ \A c \in Calls : call[c].answer # "contractViolation"
  /\ \A c \in Calls : call[c].answer \in {"applied", "replayed"} =>
       /\ CommandOf[c] \in DOMAIN reviews
       /\ candidates[Reviewed].status = IF DecisionOf[CommandOf[c]] = "APPROVE" THEN "PROMOTED" ELSE "REJECTED"
       /\ candidates[Reviewed].revision = 2

\* A host that hands out fresh sequences, keeps the last effect of a streak and
\* gives every commit its own identity is never told that they conflict: no
\* later observation falsifies the effect that was recorded.
HostIsNeverBlamed ==
  \A i \in Instances : worker[i].answer \notin {"sequenceConflict", "effectConflict", "identityConflict"}

\* A decided streak does not decide again: only a review moves it, and only from
\* waiting to rejected.
DecisionsStand ==
  [][\A b \in Bases :
       /\ streaks[b].disposition \in {"AUTO_PUBLISH", "STALE", "REJECTED"} =>
            streaks'[b].disposition = streaks[b].disposition
       /\ streaks[b].disposition = "AWAIT_APPROVAL" =>
            streaks'[b].disposition \in {"AWAIT_APPROVAL", "REJECTED"}]_governanceVars

\* The only unreadable streak the planner writes is one that counted nothing
\* yet: no progress towards a decision is lost with it.
UnreadableOnlyFromNothing ==
  \A b \in Bases : ~StreakValid(streaks[b]) => Unstarted(streaks[b])

\* The commits of steps are decided once and answered truly: a lost reply or a
\* later observation never turns an applied commit into a failure.
CommitsAreAnswered == TablesOK /\ LostReplyIsHarmless /\ HostIsNeverBlamed

\* A streak earns its decision, and only one that counted nothing is unreadable.
StreaksAreSound == PublicationIsEarned /\ UnreadableOnlyFromNothing

\* Steps, reviewers and editors agree on the versions: one decision for each
\* candidate, one version for each decision, each on the version it was made of.
ReviewsAreSound == ReviewersAgree /\ VersionsAnswerToDecisions /\ VersionsFollowTheirBase
=============================================================================
