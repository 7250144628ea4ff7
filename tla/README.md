# healix-core: specification and proofs

healix-core is the core library of a UI test product. It holds the rules (what
runs next, what a run came to, what may be written) and leaves processes,
storage, leases and browsers to a host that implements its ports. A host is
free to crash, to retry, to answer late and to lose a lease at any moment, and
the library's ports are written for that: fenced writes, compare-and-swap
predicates, request digests, recorded outcomes. This directory states what
those rules guarantee together, checks it with TLC on small instances and
proves the central parts with TLAPS for every instance.

Where core only states what an adapter must do, the repository carries an
executable reference adapter next to the conformance suites (for example
`application/execution/conformancetest/entry_completion_reference_test.go`).
The modules take an adapter's transitions from there, and mark what only a host
decides (handing out claims, taking them back) as external.

## The system

| component | state it keeps | operations | hard behaviour |
|---|---|---|---|
| status machines (`domain/execution/status.go`, `instance.go`) | an entry's and an instance's status | legal edges | who moves along them, and how often |
| terminal decisions (`application/execution/entry_completion.go`, `abort_request.go`) | none; pure over an observation: entry status, terminal intent, intent revision, cancellation generation | `DecideEntryCompletion`, `DecideAbortRequest` | counters at their ceiling; decisions on stale observations |
| completion and abort transactions (`entry_completion_transaction.go`, `abort_request_transaction.go`) | the entry's row, receipts by digest, the abort-pending gate | `Complete`, `Request`: look up, decide, commit, validate the answer | lost replies, retries, reused identities, a claim that moves, two callers racing |
| scheduling decision (`application/scheduling/decision.go`) | none; pure over the entries' statuses | `DecideAdvance` | its output is its own next input |
| coordinator and claim (`application/scheduling/coordinator.go`, `domain/execution/worker_fence.go`) | the claim on an instance | `ProcessNext`: claim, load, decide, apply, release | a claim lost between read and write; a release that is lost |
| instance commands and queue (`instance_command_services.go`) | instances, queue order and revision, command records | `CancelInstance`, `AbortInstance`, `ReorderQueue` | commit without a reply, signal after the commit, commands against claims |
| entry executor (`application/execution/entry_executor.go`) | one browser session | `Execute` | failures and panics of host ports around the session |
| engine (`application/engine/engine.go`, `coordinator.go`) | a recording and a timeline | `RunProgram` | which of three outcome axes a failure may touch |
| compiler (`application/engine/compiler.go`) | none | `CompilePlan` | pure translation |
| node runtime (`domain/node`) | phases and occurrences of steps, selector overlay | `Run` of each node kind | facts committed whose reply is lost, healing in the middle of a step |
| step transitions (`application/execution/ports.go`, `domain/evidence`) | committed step revisions | `Commit` | duplicates, late commits, stale claims |
| heal governance (`application/execution/heal_governance.go`, `domain/automation/healing.go`) | a streak of consistent heals per target | `PlanHealGovernance`, `Observe`, `Reject` | order and repetition of observations |
| heal review (`application/automation/heal_review_service.go`) | candidates, target versions | `Approve`, `Reject` | a version published in between, replays |
| instance creation (`create_instance_*.go`, `plan_mapper.go`) | instances by idempotency key | `CreateInstance` | retries, another request under the same key |
| snapshot and plan (`domain/execution/instance_snapshot.go`, `plan.go`, `validation.go`) | an immutable value | constructors | none over time |
| sampling (`domain/sampling`, `sampling_publication_*.go`) | a recording session, drafts, publications by id | `Record`, `Pause`, `Resume`, `End`, the edits of a draft, `Publish` | captures out of order, publication retries, edits of a tree by identity |
| automation assets (`domain/automation/lifecycle.go`, `versioning.go`, `assets.go`; the services of `application/automation`) | aggregates with their versions | create, update, delete, restore, publish | optimistic revisions, saves whose reply is lost |
| execution flows (`domain/automation/test_task.go`) | none | `ResolvedExecutionFlow.Validate` | a depth-first walk over a shared graph |
| folders (`domain/automation/folders.go`, `folder_service.go`) | one forest per kind of asset | create, move, delete | cycles, depth, two users on one forest |
| scoring (`domain/heal`) | none | `Decide`, `Assess`, `Samples` | ties, orders, boundaries |
| values (`fault`, `parameter`, `fingerprint`, ...) | none | constructors | none over time |

They interact as follows. The host calls `ProcessNext`; it claims an instance,
reads its entries, asks `DecideAdvance` and writes the decision under the claim.
An entry that becomes RUNNING is run by `EntryExecutor.Execute`, which opens a
browser session and calls the engine; the engine walks the node tree and commits
step transitions. The outcome goes to `EntryCompletionService.Complete`, which
commits the entry's terminal state on what was observed, under the claim.
Operators request an abort of the running entry through the same counters, or
end the whole instance with a command that also ends the claim. All of them
share the instance's rows; the claim is the only mutual exclusion there is.

Before a run, a sampling session turns captures into a draft, a publication
turns the draft into element targets and a flow fragment, editors change these
under optimistic revisions, and `CreateInstance` freezes a resolved execution
flow into a plan that the compiler turns into the node tree. After a run, the
heals that its steps committed feed the streak of their target, which publishes
a selector or puts it before a reviewer: the next instance is frozen from it.

## Modules

| module | models | from |
|---|---|---|
| `Lifecycle` | the two status machines as sets of edges | `status.go`, `instance.go` |
| `TerminalDecision` | the two terminal decisions with their refusals | `entry_completion.go`, `abort_request.go` |
| `TerminationContract` | abstract: one entry's intent escalates, and the entry ends once | the decision types |
| `EntryTermination` | both transaction services against the reference adapter | `entry_completion_transaction.go`, `abort_request_transaction.go`, reference adapters |
| `AdvanceDecision` | `DecideAdvance` as a relation between entries and decisions | `decision.go` |
| `AdvanceScan` | `DecideAdvance` as the loop it is, against that relation | `decision.go` |
| `SerialInstance` | coordinators, executors, abort requests and commands on one instance | `coordinator.go`, `worker_fence.go` and the modules above |
| `InstanceCommands` | the command services and the reference store | `instance_command_services.go`, its conformance test |
| `EntryRun` | one entry from the claim to its outcome: session, recorder, node tree, timeline, clean-up | `entry_executor.go`, `engine.go`, `coordinator.go`, `composite.go`, `step.go`, `lifecycle.go` |
| `NodeRun` | the node tree with every kind of node: occurrences, phases, facts, healing, overlay | `runtime.go`, `step.go`, `lifecycle.go`, `composite.go`, `mechanisms.go` |
| `ValidationGroup` | one group under the poller: rounds, clocks, observations, verdict, facts | `validation.go`, `commits.go` |
| `HealStreak`, `HealGovernance` | the streak of consistent heals; planner, step transitions and reviews around it | `healing.go`, `heal_governance.go`, `ports.go`, `heal_review_service.go` |
| `InstanceCreation` | `CreateInstance` with replay, resolution, freezing, insertion | `create_instance_*.go`, `plan_mapper.go` |
| `InstancePlan` | validation of a plan, its invocations, compilation | `validation.go`, `budget.go`, `instance_snapshot.go`, `compiler.go` |
| `StepShape` | one step judged at publication, at freezing and by the compiler | `assets.go`, `workflow_validation.go`, `step_shape.go`, `compiler.go` |
| `FlowClosure`, `FlowFreezing` | the walk that accepts a resolved execution flow; the plan that is made of it | `test_task.go`, `plan_mapper.go` |
| `SamplingSession` | a recording session | `session.go` |
| `DraftEditing` | the step tree of a draft and its edits | `draft.go`, `workspace.go`, `rewrite.go` |
| `SamplingMatch` | the score between two elements | `matching.go` |
| `PublicationPromise` | abstract: one publication per id, and everybody is told of it | `sampling_publication_transaction.go` |
| `SamplingPublication` | mapping and publishing a draft while targets are edited | `sampling_publication_*.go`, `node_service.go` |
| `AssetVersions`, `AssetOperations` | what the operations on aggregates return | `lifecycle.go`, `versioning.go`, `assets.go`, `test_task.go` |
| `AssetRegister` | abstract: one operation at a time, each on the asset as it is | the services |
| `AssetServices` | the services of environments, fragments and flows under many callers | `environment_service.go`, `workflow_service.go`, `test_task_service.go` |
| `HealDistance`, `HealDecision` | distances and narrowing; scores, order, decision, assessment, samples | `domain/heal` |
| `EntryTermination_proofs`, `InstanceCommands_proofs`, `SerialInstance_proofs`, `InstanceCreation_proofs`, `EntryRun_proofs`, `Automation_proofs`, `Assets_proofs`, `ValidationGroup_proofs` | lemmas and theorems | |
| `MC*` | instances for TLC: inputs, symmetry sets, and the components that one run checks side by side | |

`Lifecycle` is extended by `AdvanceDecision` and `InstanceCommands`;
`TerminalDecision` by `TerminationContract`, `EntryTermination` and `EntryRun`.
`SerialInstance` composes the scheduling decision, the terminal decisions, the
claim and the instance commands. `HealGovernance` composes the commits of steps,
the planner with its streaks and the reviews on one element target;
`SamplingPublication` composes publication with the editors' service on the
operations of `AssetVersions`, and `AssetServices` extends them to the other
kinds. `FlowFreezing` maps a flow that `FlowClosure` accepts to the judgement of
`InstancePlan`. Three modules implement an abstract one under a refinement
mapping: `EntryTermination` (`TerminationContract`), `SamplingPublication`
(`PublicationPromise`) and `AssetServices` (`AssetRegister`).

### How state and actions correspond to the code

**TerminalDecision.** `CompletionDecision` and `CompletionRefused` are
`DecideEntryCompletion`; `AbortDecision` and `AbortRefused` are
`DecideAbortRequest`. An `Observation` is the four fields the decisions read.
The revision has a largest value, `MaxRevision`, standing for the largest
`uint64` the code can still take the successor of.

**EntryTermination.** A call of `Complete` or `Request` is the steps other calls
interleave with: observe and decide; look a receipt up by digest; apply. `entry`
is the authoritative row, `receipts` the idempotency records, `pending` and
`gate` the abort command whose request was recorded and the identity under which
the action gate was terminalized. The adapter's transitions (fence check,
compare-and-swap, receipt, gate) come from the reference adapters in
`application/execution/conformancetest`. Either adapter call may fail before or
after its commit; the client cannot tell which, and may send the same command
again. Digests are injective in the code (length-prefixed fields under a tag), so
`Digest` is the command itself.

**AdvanceDecision, AdvanceScan.** `Decides(states, policy, d)` says of which
decision `DecideAdvance` is the maker, `SerialShape` which vectors it accepts.
`AdvanceScan` has the loop itself as a fold over the answer of
`LoadEntryStates`, the refusals of unknown, missing and duplicate members
included, and drives every answer it accepts through decisions and endings.

**SerialInstance.** `policy`, `states`, `intent`, `revision`, `generation` and
`status` are rows a host stores; `fence` is the claim in force. A coordinator's
`ProcessNext` is `ClaimNext`, `Decide` (load and decide), `ApplyDecision` or
`RefuseDecision`, `ReleaseWorker`; between any two of them anything else may
happen. An executor is `Acquire`, `EndRun` (observe and decide),
`CommitCompletion` or `RefuseCompletion`, `ReleaseExecutor`; an operator
`ObserveAbort`, `CommitAbort`, `DropAbort`. `EndInstance` is the transaction of
`CancelInstance` and `AbortInstance`. Handing out claims, taking them back from
dead processes (`TakeBack`) and losing them (`Lapse`) are the host's. What an
executor does in between is `EntryRun`; here it is one of the four outcomes.

**InstanceCommands.** `call` is a client's call; `Commit`, `Answer` and
`FailStore` are the store's transaction and its reply, `Signal` and `FailSignal`
are `signalIfRequired`, `Retry` the caller that sends the same command again.
`commands` holds what each CommandID stands for. `Claim` and `EndBySchedule` are
scheduling seen from the queue.

**EntryRun.** `pc` walks through `EntryExecutor.Execute` (`Authorize`,
`CreateSession`, `CheckSession`, `CloseSession`), `RunProgram` (`EnterEngine`,
`StartRecorder`, `Outcome`, `StopRecorder`) and the node tree (`BeginRoot`,
`BeginLeaf`, `ActLeaf`, `CompleteLeaf`, `EndRoot`). `errs` is the chain of the Go
error on its way up, as the set of faults that `errors.Is`, `fault.IsCode` and
`LeafExecutionError` can find in it; `panics` what unwinds. `ends` is what the
behaviour of a leaf came to in the world, which the program cannot read back and
the properties compare its reports with.

**NodeRun.** `stack` is the Go call stack of `Run` calls, one frame per node, with
the place in the node's code; the actions are the steps of `Runtime` and of the
leaf lifecycle (take an occurrence number, announce, act, heal, record, release).
`facts` is what the host's sink holds; a write may be refused, or land and
lose its answer, and the sink applies `ValidatePhaseTransition` itself. `overlay`
is the runtime's record of healed selectors. Errors are one bit, as every error
of a child ends every frame above it.

**ValidationGroup.** A round is a run of steps: each reads one member and stages what
changed (`ReadNext`), or gives the round up because a member cannot be read or compared
(`ReadFails`) or the sink refuses (`SinkFails`); `Conclude` moves the stability clocks
(`stableSince`) and lets the first branch that held long enough win. The parent may end
between two reads; the poller looks at it between two rounds and to name an error. `Judge` stages
the finals when the poll failed, `Emit` the phase. Time is in ticks of the poll interval
and is the poller's. `TopologyAccepted` is what the commit of the step demands of the group
facts it carries (`appendGroupTopologyViolations`): the group fact valid in itself, a fitting
final of each of its members, a reason that goes with the phase of the step, and no final
beside those. What the sink refused it is taken not to have, and of a final staged twice it
has the last.

**HealStreak, HealGovernance.** `Observe`, `Reject` and `validate` are the
functions of those names; a streak keeps the identities they compare. In
`HealGovernance` a worker's call is check, transaction and reply
(`StepTransitionService`, `FactCommitter`), and the transaction asks the planner
about every heal it accepts; a reviewer's call reads, verifies and commits. Both
transactions are a host's, taken from the conformance suites. The variable `setting`
says who takes part (instances, reports, reviewers) and within which bounds; it is
chosen at first and stays.

**InstanceCreation.** `call[c].pc` follows `CreateInstance`; the callback of the
transaction may run more than once, and the catalog may move between two runs.
`faithful`, chosen at first, says whether the resolver and the store keep their
promises; otherwise a resolver may be wrong in one respect (`Defects`), a store in one
(`Tampers`: the command, the request, the run, the digest or the entries of its record, or
an identity, the policy, a value or a version of a snapshot that is sealed anew): these are
the answers the code's checks are written against. A result keeps the `record` that the
store told, as its run and entries reach the caller. A failing resolver is answered as a
failing store is, the code returns its error as it is.

**InstancePlan, StepShape, FlowClosure.** Validation, freezing and compilation are
operators on a plan; `Plans` is enumerated by the MC modules. `FlowClosure` keeps
the recursion of `visit` and `walk` as an explicit stack, since its marks
(`visiting`, `usedWorkflows`) and the order of steps are what can go wrong, and it
is judged against graph-theoretic definitions that do not walk. A version's steps
are one list, as the walk visits children and branches in place. `StepShape` has
an editor who fills in one field at a time, leaving behind fields of another kind. Its
texts are told apart by what the judgements ask of them: blank, with variables that cannot
be named (`Interpolates`), an address that may be visited (`Navigable`); a binding is a
literal, a parent's parameter or malformed, under a name that may be blank.

**SamplingSession, DraftEditing.** Each public method is an action; the host keeps
the value that is returned. In `DraftEditing` an answer is the new draft or the
refusal; steps are trees, searched by id the way `rewrite.go` searches them.

**SamplingPublication, AssetServices.** A call is load, operation,
save, as in the services; saves are conditional on the revision a caller expects,
which is the host's part of the contract (external). A save may land and lose its
answer. `AssetOperations` has the operations of environments and flows, and those
of element targets stand for the flow fragments' as well, being the same text with
other types.

**HealDistance, HealDecision.** The two distances are told row by row as the code
computes them, the narrowing with the buffer it reuses. Scores are exact fractions over
a common denominator. A page is a sequence of candidates of a small pool.

## Runs

Ten runs hold and two show a disagreement. A run that names *parts* or *scenes*
checks several components side by side: a variable says which of them moves, the
others rest in a first state, and nothing is shared, so that each part has exactly
the states it has alone. They are together because they answer one question, or
tell one story, of the system.

| run | question | parts and instance |
|---|---|---|
| `entry_termination` | Does an entry end once, under the intent in force, with replays, lost replies, identity conflicts and a moving claim? | 2 callers, 2 abort ids, 2 claims, revisions to 2 |
| `serial_instance` | With crashes, lapses, stale owners, aborts and commands: serial execution, no lost write, decisions that still fit when written; and does a claimed instance finish? | 2 entries, 2 coordinators, 2 executors, 1 operator, 5 tokens, 1 fault |
| `instance_commands` | Do commands, retried and racing with claims, end each instance once, keep one queue, answer truthfully, and stop what they end? | 2 instances, 2 callers, 2 command ids, 2 faults |
| `entry_run` | Does the run of an entry return what it holds, and is what it reports and records true? | parts `entry` (3 leaves, every choice of optional ports) and `nodes` (a tree with every kind of node, 2 attempts) |
| `validation_group` | Does a verdict rest on one branch read true together, do its facts fit, and does polling end? | branches of 1 and 2 members, horizon of 2 ticks |
| `heal_governance` | Is what publishes earned, is a commit repeated after a lost answer harmless, and do reviewers, steps and editors agree? | four settings: streaks (4 instances, 1 commit each), commits (2 instances, 2 commits, 2 losses, 1 lapse), refusals (every payload at and above a limit), reviews (3 calls, 4 instances, 3 versions) |
| `instance_creation` | Do retries share one instance, is every lie of a resolver or a store caught, and do calls end? | one scene `faithful` (3 calls under one identity, 1 retry, 1 fault, 2 versions), one not (8 defects, 5 tamperings, 3 calls) |
| `elements` | Is an element recorded, matched, edited, judged and healed as it should be? | parts `record` (3 captures of 2 elements), `match` (lists of up to 3 selectors), `draft` (up to 3 steps), `shape` (every kind in every place, 1 foreign field), `heal` (pages of up to 3 of 9 candidates, 3 targets, 5 contexts), `distance` (texts and paths of up to 3) |
| `plans` | Is what is resolved, frozen, sealed and compiled exactly what the graph of calls asks for, and is it driven to its end? | parts `flow` (every graph over 3 versions of 2 fragments, and some spoilt in up to 2 respects), `graph` (every graph of 3 workflows), `tree` (two plans spoilt in one respect, forged invocations), `scan` (3 entries, both policies) |
| `assets` | Do services under many callers act one at a time and answer truthfully, and is a recording published once, on what exists? | parts `services` (2 callers, 3 requests, an environment, a fragment, a flow) and `publication` (2 publishers, 1 editor, 2 publications, 2 targets) |
| `carried_intent` | Does an abort that lost to a success stop the next entry? (it does not) | 2 entries, no faults, no commands |
| `entry_run_effects` | Does SUCCEEDED mean every leaf ran? (it does not) | 3 leaves |

### What each property says

A property is a conjunction of named parts, each with its own comment in its module.

| property | parts |
|---|---|
| `TerminatedAsOneBatch` | `TypeOK`, `TerminatedOnce`, `GateNamesTheAbort`, `TerminalAnswerStands`: an entry ends once; status, cause, gate and receipt change together and stand |
| `AnswersAreFinal` | `ConflictIsFinal`, `AppliedIsExclusive`, `AdapterHonoursContract`: nobody is told CONFLICT of a command that is committed, one caller is told APPLIED |
| `ImplementsContract` | `EntryTermination` refines `TerminationContract` |
| `SerialContract` | `TypeOK`, `NeverUndecidable`, `SerialExecution`, `PendingDecisionStillFits`, `EveryWriteIsCounted`, `FinalStatusIsEarned` |
| `RowsMoveAsAllowed` | `EntriesFollowTheMachine`, `IntentInForceDecides`, `FinalInstanceIsFrozen` |
| `Finishes` | whatever crashes, lapses and failures happen, the instance ends |
| `RowsAgree`, `RowsChangeVisibly` | `EndingsAreExclusive`, `QueueHasOneOrder`; `QueueNeverChangesSilently`, `EndedIsOver` |
| `SignalsAnswerToEndings`, `AnswersAreTrue` (`InstanceCommands`) | `SignalFollowsCommit`, `OKMeansSignaled`; `ConflictMeansNotDone`, `StoreIsNeverBlamed` |
| `ResourcesReturned`, `NothingRunsOutside` | session and recorder are given back on every path; no leaf acts outside them |
| `ReportIsTrue` | `TypeOK`, `StopsAtTheFirstError`, `NotStartedMeansUntouched`, `TelemetryNeverFailsARun`, `SuccessIsUntarnished`, `EvidenceIsTold` |
| `NumbersAreSound`, `FactsAreTrue`, `OverlayIsSound` | `NumbersFollowFrames`, `NumbersAreNeverReused`; `OnlyALostSuccessIsContradicted`, `SuccessIsEarned`, `EffectsAreAnnounced`, `CanceledMeansTheRunWas`; `OverlayIsBacked`, `OverlayKeepsFallbacks` |
| `WinnerHeldTogether`, `RecordIsTrue`, `PollingEnds` | the verdict; `VerdictIsAccepted` (refused by the commit exactly where finding 4 says), `SatisfiedInTheSameRound`, `ObservationsTellTheChanges`, `PhaseIsGrounded`; the end |
| `CommitsAreAnswered`, `StreaksAreSound`, `ReviewsAreSound`, `DecisionsStand` | `LostReplyIsHarmless`, `HostIsNeverBlamed`; `PublicationIsEarned`, `UnreadableOnlyFromNothing`; `ReviewersAgree`, `VersionsAnswerToDecisions`, `VersionsFollowTheirBase`; what was decided |
| `RetriesShareOneInstance`, `DefectsAreContained`, `CallsEnd` | `RetriesAgree`, `AnswerIsWhatIsStored`, `SpellingIsNoConflict`, `HonestStoreIsNeverBlamed`; `FrozenAsAsked`, `LiesAreCaught` (each success holds a record for the caller's own command, digest, run, entries and values included), `RefusalStoresNothing` (what is stored was admitted, and told to its creator unless a reply was lost); the end |
| `MatchIsAShare` | the score of two elements is a share, whatever they list twice |
| `HealingIsSound` | `DecisionsAreValid`, `OrderDecidesNothing`, `UnchangedIsFound`, `SamplesAgree`, `AppliedIsSafe`, `ContradictedIsRejected`; `DistancesAreTrue` with `NarrowingKeepsTheNearest` |
| `ShapesAgree` | `NothingLeftBehind`, `PublishedRuns` (a published step is refused when frozen exactly for what is `LeftToThePlan`), `FrozenCompiles`, `NormalizedFits` |
| `CapturesAreSound`, `DraftsAreSound`, `StepsAreKept` | `RetriesAgree`, `OneActionPerCapture`, `ActionsNameTheirNode`, `UUIDsFindTheirNode`, `OneNodePerKey`; `StepsAreFoundByID`, `ReferencesAreTheTree`, `StaleMappingsAreRefused`; `RecordedStays`, `MovesKeepEveryStep`, `DeletionTakesTheSubtree` |
| `VerdictsAreReal` | `CycleIsReal`, `AcceptedIsOrdered` |
| `PlansAreExact` | `VerdictIsClosure`, `FrozenPlanHolds`; `AcceptedIsAcyclic`, `DepthIsReal`, `BudgetIsExact`, `ResolutionsAreExact`, `InvocationsAreTheExpansion`, `CompileRefusesOnlyDepth`, `IdentitiesAreDistinct` |
| `ScanMeansShape`, `AcceptedIsDrivenToTheEnd` | the loop of `DecideAdvance` accepts the serial vectors and makes the decision of the relation; each is driven to its end |
| `HistoriesAreKept` (`AssetServices`) | `Whole`, `FlowsAreLines`: what is stored loads again; `HistoryIsPermanent`: a published version is never changed or lost |
| `PublicationsAreSound` | the same of `SamplingPublication`: `HistoriesStayWhole`, `ReferencesResolve`, `MapperMeetsItsContract`; `EveryWriteCounts`, `ReferencesAreLiveWhenPublished`, `PromiseKept` (refinement of `PublicationPromise`) |
| `AnswersAreTrue`, `ChangesAreAtomic` (`AssetServices`) | a request takes effect once and nobody is told otherwise; refinement of `AssetRegister` |

**What they show.** All passing runs hold as stated. Beyond that:

- The completion's compare-and-swap covers the whole observation, the abort
  request's only the three counters. That the second suffices rests on every
  ending of an entry moving the revision; `EveryWriteIsCounted`,
  `TerminalAnswerStands` and `GateNamesTheAbort` are the properties about it.
- `ApplyDecision` compares no entry. `PendingDecisionStillFits` says why it need
  not: while a claim is in force nobody else writes what `DecideAdvance` read,
  and a token that is handed out again while somebody remembers it breaks this.
- A store that repeats results from the rows as they are, instead of as they were
  committed, is blamed by the service although it did nothing wrong
  (`StoreIsNeverBlamed`); one that compares before it recognizes a replay turns a
  command that was carried out into a CONFLICT (`ConflictMeansNotDone`).
- The order in which `runProgram` reads the error of the tree matters:
  `NotStartedMeansUntouched`, `TelemetryNeverFailsARun` and
  `SuccessIsUntarnished` pull `LeafExecutionError` in three directions.
- A fact that was committed and whose answer was lost is the one case in which a
  step goes on record as succeeded and as failed (`OnlyALostSuccessIsContradicted`);
  no other path does that, and the overlay never names a selector that no committed
  heal backs (`OverlayIsBacked`).
- The revision an asset is saved under is what makes three steps of a service one
  (`ChangesAreAtomic`), and what keeps a repeated request from being applied twice
  (`AnswersAreTrue`): the caller is told a conflict of its own change and must read
  to find out.
- The graph of a flow is judged twice by different code, when it is resolved and when
  it is frozen. On every graph of the instance the second accepts what the first did
  (`FrozenPlanHolds`), given that a target version belongs to one target and that two
  resolutions of one fragment agree, neither of which the first checks.

**Bounds, and why they are enough.** In `serial_instance` a plan of two entries has
one that is decided upon and one that follows it; what three entries add (one that
ended before) is in `plans`, whose part `scan` has every vector of three, and in the
proofs. Three leaves of a program are one before, one at and one after a fault. Two
coordinators and two executors give a live owner and a stale one of each kind; a claim
that finds no fresh token would be a behaviour that is missed: with a sixth token the
run has exactly the same states, so within one fault five are enough. `MaxFaults` counts crashes, lapses and failed adapter calls (for
commands: failed calls, lost replies, failed signals): one is enough for a stale owner
and its successor, and `TakeBack`, `EndInstance` and retries are not counted.
`MaxRevision` 2 in `entry_termination` makes the ceiling reachable: an abort and a
completion fit, and an observation at the ceiling is refused; in `SerialInstance` 3
suffices for two endings and an abort. `MaxClaims` 2 is a claim and its successor. Two
callers with the same command identity are a call and its racing retry. The theorems
below remove the bounds for `EntryTermination`, `SerialInstance`, `InstanceCommands`,
`EntryRun`, `NodeRun`, `InstanceCreation`, `HealGovernance`, `FlowClosure`, `SamplingMatch`,
`AssetServices`, `SamplingPublication`, `StepShape` and `ValidationGroup`.

- *Nodes and validation.* One node of each kind in one tree lets each be the one
  that fails and each stand before and after another; two attempts are a failure
  and its retry. `Horizon`, `MaxWait` 2 and `Stability` 1 are the
  least in which a clock starts, is interrupted and starts again before the end.
- *Heals.* A streak needs three agreeing runs, so four instances give one more than
  publishes. The fields `commits`, `versions`, `lapses` and `losses` of a setting bound
  commits per instance, versions of the target, lapsed claims and lost answers; each
  setting raises the ones that its question needs. Limits on facts and bytes are 1, so that
  payloads at the limit and above are both tried.
- *Creation.* `MaxRetries` calls repeated by their caller, `MaxFaults` failed or lost
  transactions, `MaxVersions` 2 a version published while a call is under way.
- *Plans.* `MaxDepth`, `MaxNesting`, `MaxReachable`, `MaxEdges`, `MaxExecutions`,
  `MaxWait` stand for the code's limits and are small enough that some plan of three
  workflows exceeds each. In `StepShape` the limits are the code's, `MaxForeign` 1
  field is left over from another kind, and `MaxComparisons` 1 is what a step may declare. In `FlowClosure` three versions of two fragments give self references,
  cycles of two and three, diamonds, and two versions of one fragment.
- *Sampling.* Three captures of two elements give a first, a repeated and a confused
  one; `MaxClock` 1 has two captures in one millisecond and one in another. Drafts of
  `MaxSteps` 3 have a step, a group with a step in a branch, and take what replaces
  or moves them; a draft grows no further. In publication two publishers share ids and
  `MaxIssued` 2 commands are a publication and its repetition or its rival.
- *Assets.* `MaxSent` 3 requests are a race and a repetition; `MaxRevision` and
  `MaxVersion` 3, of services and publication alike, are reached.
- *Scores.* Texts and paths of three over two letters contain every pattern of
  equal, replaced and missing; `Scale` 12 is a multiple of every denominator that
  the pool's similarities have.

**Symmetry** is used over interchangeable processes, callers, captures, keys and ids, in
runs without liveness properties only.

**Fairness, and why it is justified.** In `serial_instance` the host keeps
calling `ProcessNext` and an executor that has begun goes on (weak fairness of
each process); it gives the claim of a started entry to an executor in the end
(strong fairness of `Acquire`: coordinators also claim the instance, find nothing
to do and release, so `Acquire` is not continuously enabled); it takes back the
claim of a process that is gone (`TakeBack`). Leases are the host's, so the last
two are requirements on it, not facts about this code: without either, an entry
whose executor died stays RUNNING and its instance waits forever. Nothing is
assumed of operators, commands and faults. `instance_creation` assumes that a call
that has begun goes on (`CallsEnd`), `validation_group` that the poller's goroutine
and the clock do (`PollingEnds`), and the part `scan` of `plans` that something
possible happens: the next decision or the running entry's end
(`AcceptedIsDrivenToTheEnd`).

**Deadlock** is checked in `entry_termination`, where a caller can always call
again, in `entry_run`, whose executor stops in an explicit last state and whose tree
restarts, and in `validation_group`, where a finished poll stutters explicitly. The
others say `CHECK_DEADLOCK FALSE` since they really stop: an instance that is over,
instances that are all ended, a plan that is refused, a bound on requests that is
used up.

**Mutants.** Each property of each passing run has a definition of the model that
stands for code and a plausible wrong form of it, kept beside it under a comment
"Mutant"; the property fails with the wrong one in place.

## Disagreements

Two runs show a program that does something else than its texts say.

1. *An abort that lost to a success* (`carried_intent`). A comment of
   `DecideEntryCompletion` says of an entry that succeeds although an abort was
   requested that the intent "still travels intact into the Next* fields so
   DecideAdvance stops the next entry" (`entry_completion.go`). `DecideAdvance`
   (`decision.go:51`) receives entry statuses and the failure policy only; it
   starts the next entry. Whether a host folds the intent into what it loads is
   nowhere required.
2. *A completion write that fails after a success* (`entry_run_effects`). When
   the FINISHED mark or the completion observation of a leaf that succeeded
   fails, the workflow sees an error and runs no further leaf (`composite.go`).
   `runProgram` then strips this error (`LeafExecutionError`) and reports
   SUCCEEDED (`coordinator.go:110`), so an entry whose later leaves never ran is
   committed as succeeded; `entry_completion.go` takes that outcome to mean that
   "the external side effects already landed".

Others were met while modelling. The models have these paths; the passing properties
are stated so that they hold beside them, and say how far the effect reaches.

3. *A branch that was true throughout*. The clock of a branch runs on through a round
   that a retryable error cut short, although in that round the branch was read false
   or not at all (`validation.go:554`); `docs/domains/node.md:41` asks for one branch
   that is continuously true. `WinnerHeldTogether` speaks of complete rounds.
4. *Reason and phase of a group*. The reason is made of the poll's error alone
   (`validation.go:750`), the phase later and of the parent context (`validation.go:801`);
   the commit of the step refuses a pair that does not match (`commits.go:206` and `:268`).
   Such pairs are: a bare context error of a driver while the parent lives (canceled,
   FAILED); a deadline of the parent, which is always called a timeout (CANCELED); a
   timeout or a failure of the poll after which the parent ends (CANCELED); and a group
   that passed and whose SUCCEEDED was refused (FAILED or CANCELED). The commit also
   refuses finals whose group fact the sink had refused (`commits.go:246`). A step so
   refused has no terminal phase on record. `VerdictIsAccepted` says that these are
   refused and no others.
5. *A streak its planner cannot read*. A failure or an undecided success as the first
   observation leaves an empty streak with state, which `validate` calls corrupt
   (`healing.go:307` and `:364`). `UnreadableOnlyFromNothing`: no progress is lost.
6. *A state a review leaves*. Approval promotes a candidate whose streak still awaits
   approval; the planner accepts a promoted candidate only with a published streak
   (`heal_review_service.go:289`, `heal_governance.go:229`).
7. *An identity key that moves*. `Record` binds a capture's key before it validates the
   specification (`session.go:273`), so that a refused capture rebinds the key of
   another element. `ActionsNameTheirNode`: no recorded action is affected.
8. *Short ids*. The id of a target is the millisecond of its version-7 UUID
   (`session.go:260`): two in one millisecond share it, and the draft refuses them.
9. *A plan that is sealed and does not compile*. The depth of a chain is not looked at
   below a workflow that is already done (`domain/execution/validation.go:680`); the
   compiler counts it. `CompileRefusesOnlyDepth`: it refuses for nothing else.
10. *Captured ids of deleted steps*: deletion drops the id it was asked for and not
    those of the steps below (`draft.go:81`). `DeletionTakesTheSubtree` is about steps.
11. *An update without end*: a replacement that holds its own id further down is
    replaced inside itself (`draft.go:39`). `DraftEditing` has the call
    answer `NeverReturns`.
12. *The order of look-alikes*: the key that "serialises every field" leaves out the
    framework (`order.go:37`). `OrderDecidesNothing` is checked on pages whose
    candidates differ in another field.
13. *Samples of a repeated candidate*: both are marked as selected and the list is
    invalid (`sample.go:44` and `:75`). `SamplesAgree` is checked on pages without
    repetition.
14. *A published step that cannot be frozen*. Publication looks neither at the address of a
    navigate step nor at the bindings of a reference (`assets.go:518` and `:594`);
    the plan refuses an address that is not absolute HTTP(S) or carries credentials
    (`step_shape.go:172`) and a binding with a blank name or one that does not resolve by
    itself (`step_shape.go:287`). So do the variables of a text, the longest wait and the
    highest count differ. Instances of such a flow are refused when they are created.
    `LeftToThePlan` lists these differences and `PublishedRuns` says that there are no others.

## Proofs

TLAPS checks, for every value of the constants:

- `SerialInstance_proofs`: `TypesHold`, `NeverStuck`, `DecisionsFit`,
  `RunsSerially`, `OverIsOver`, `EntriesMoveForward`, `IntentNamesTheEnd`,
  `FinalStatusHolds`, `WritesAreCounted`, and of them `ContractHolds` (`SerialContract`)
  and `RowsAreGuarded` (`RowsMoveAsAllowed`): every safety and action property of the
  run `serial_instance`, for any plan length, any sets of processes and tokens and
  any bound on faults and revisions.
- `EntryTermination_proofs`: `BatchTheorem` (`TerminatedAsOneBatch`), `AnswersTheorem`
  (`AnswersAreFinal`) and `ContractTheorem` (`ImplementsContract`): both safety
  properties and the refinement of the run `entry_termination`, for any number of
  clients, claims and abort commands, any ceiling of the revision and any number of
  faults.
- `InstanceCommands_proofs`: `RowsTheorem` (`RowsAgree`), `SignalsTheorem`
  (`SignalsAnswerToEndings`), `AnswersTheorem` (`AnswersAreTrue`) and `ChangesTheorem`
  (`RowsChangeVisibly`): the safety and action properties of the run
  `instance_commands`, for any finite set of instances, any callers and any command
  identities.
- `EntryRun_proofs`: `TypesHold`, `EverythingIsReturned`, `FirstErrorStops`,
  `NotStartedIsTrue`, `TelemetryIsHarmless`, `SuccessIsTrue`, `EvidenceIsTrue`,
  `NothingIsOutside`, and of them `ReportsAreTrue` (`ReportIsTrue`): every property of
  the executor in the run `entry_run`, for any number of leaves. About `NodeRun`:
  `NumbersTheorem` (`NumbersAreSound`), `FactsTheorem` (`FactsAreTrue`)
  and `OverlayTheorem` (`OverlayIsSound`): every property of the node tree in the run
  `entry_run`, for every tree the compiler makes (`Compiled`) of whatever size, depth and
  sharing of identities, any repetitions, attempts and lists of selectors, and whatever
  the sink refuses or leaves unanswered.
- `InstanceCreation_proofs`: `RetriesShareTheorem` (`RetriesShareOneInstance`) and
  `ContainmentTheorem` (`DefectsAreContained`): both safety properties of the run
  `instance_creation`, for any calls and commands, any task version and catalog, any
  number of retries, faults and published versions, and a store that answers anything
  whatever (`Tampers` is not constrained).
- `Automation_proofs`, about `FlowClosure`: `OrderTheorem`, `CycleTheorem`, together
  `VerdictTheorem`: for flows of any size, what is accepted can be put in an order,
  references last, in which every version that was supplied occurs; and a flow is
  refused for a cycle only when there is one. About `SamplingMatch`: `OverlapTheorem`,
  `MatchTheorem`: for lists of any length, the loop counts common selectors once, and
  the score is a share. About `SamplingSession`: `CapturesTheorem` (`CapturesAreSound`) and
  `RecordedTheorem` (`RecordedStays`, the part of `StepsAreKept` that is about sessions):
  for any captures, capture ids, keys and specifications, without bound on their number.
  About `HealGovernance`: `CommitsTheorem` (`CommitsAreAnswered`), `StreaksTheorem`
  (`StreaksAreSound`), `ReviewsTheorem` (`ReviewsAreSound`) and `DecisionsTheorem`
  (`DecisionsStand`): every property of the run `heal_governance`, for any settings: any
  number of instances, reports of any number of facts, reviewers, commands and bounds.
- `Assets_proofs`, about `AssetServices`: `AtomicTheorem`, `AnswersTheorem`,
  `HistoriesTheorem`: for any callers, assets, requests and bounds, the services
  implement `AssetRegister`, no request takes effect twice, and `HistoriesAreKept`. About
  `SamplingPublication`: `PublicationTheorem` (`PublicationsAreSound`, its invariants, both
  action properties and the refinement of `PublicationPromise`), for any publishers,
  editors, plans, stored targets and bounds. Together: every property of the run `assets`.
  About `StepShape`: `ShapesTheorem` (`ShapesAgree`), for any number of fields of other
  kinds that an editor leaves behind, of comparisons it fills in, and any limits.
- `ValidationGroup_proofs`: `VerdictTheorem` (`WinnerHeldTogether`) and `RecordTheorem`
  (`RecordIsTrue`): both safety properties of the run `validation_group`, for any
  branches, members, waits and clock bound.

They assume the named assumptions of the modules and nothing else:
`SerialAssumption` (a plan has an entry, `NoToken` is no token, the commands are
the two there are), `TerminationAssumption`, `CommandAssumption` (there are finitely
many instances, as a queue with an order has), the assumption of `TerminalDecision` on `MaxRevision`, `LeafCountAssumption` (a program has a leaf), `FlowsAssumption` (a resolved flow is
made of lists), `ProfilesAssumption`, in `NodeRun` the hypothesis `Compiled` (which the run
`entry_run` evaluates of its tree), `TicksAssumption` and `RoundAssumption` (waits are positive, no
branch and no member is listed twice), and in `AssetServices` that requests name assets
and operations of their kind and that what is stored first is what the services could
have stored: an asset with a revision and, where it has versions, a history that loads
(`FirstAssumption`). In `SamplingPublication`: what is asked of a node is one of the four
resolutions of a known target and times are numbers (`PlanAssumption`), and a target is
at first not there or one that can be loaded (`TargetsAssumption`). In `StepShape` the limits
are numbers (`LimitsAssumption`) and an empty text is no kind of a wait and no action
(`EmptyAssumption`). In `InstanceCreation`: the items of a version have distinct identities
and one of two policies (`ItemsAssumption`, checked by `test_task.go:83`), a command has
its fields (`CommandAssumption`), and a resolver is wrong in one of the listed ways
(`DefectAssumption`). In `SamplingSession` the clock ends at a number (`ClockAssumption`).
In `HealGovernance`: what is sent is a report, bounds are numbers, and a reviewer's call
has a command that decides (`SettingsAssumption`), one way or the other
(`DecisionAssumption`); the hash of a candidate is not blank (`HashAssumption`).

**SerialInstance.** Serial execution is a fact about the entries alone, and
`NeverUndecidable` (the vector has serial shape) implies it; but that a *write*
keeps the shape needs to know that the decision written was made on the same
entries, long ago, by a process that has slept since. The inductive invariant
adds what makes that so:

- `Exclusive`: the claim in force is carried by one process only; needs that a
  new token is nobody's, whether or not its owner still matters.
- `PendingDecisionStillFits`: what the owner decided is what it would decide now.
  It survives the steps of others because by `Exclusive` none of them writes
  entries, and it survives an abort request since that writes no entry.
- `EndingDecidable`, `RequestDecidable`: what was decided on an observation is
  not refused, so the counters it writes stay within `MaxRevision`.
- `ClaimedRuns`, `ClaimedFinalIsEmpty`: the owner of a claim works on an
  instance that is RUNNING, or on one that its own decision has just ended and
  in which nothing runs. This freezes an instance that is over although its rows
  can be reached by an old claim.
- `RequestsAreFresh`: the revision an abort request saw is either gone or is the
  one under which its entry still runs. This replaces the comparison of the
  entry's status that `RequestAbort` does not make.

The first part of `SerialInstance_proofs` has the two facts on data that the
induction rests on: a vector of serial shape keeps it when the decision made on it is written, and
when its RUNNING entry ends. The counting property `EveryWriteIsCounted` has an
invariant step of its own, with a lemma on what one ending adds to the
cardinality of a set of entries.

**EntryTermination.** Neither property is inductive: that a row was ended in one batch
depends on what the call that commits it was built from, long ago. `Built` says that
a command whose revision the row still has saw the row as it is, together with the
abort on record; this is the one fact that makes comparing revisions enough, since a
command of an older revision can no longer commit (`ReceiptsAreTrue`: a receipt's
command was built before the present revision). `RunningIsBare` and `EndedIsWhole`
are the two sides of the batch: nothing of it before, all of it after, with the abort
on record named by the gate. A call answered CONFLICT is `Overtaken`, one answered
APPLIED has its receipt, and both survive whatever the others do since revisions only
rise and receipts stay. The refinement then follows step by step: an abort that
commits is the contract's escalation, a completion its ending, and everything else,
replays and lost replies among it, is a stutter.

**InstanceCommands.** The rows alone are inductive in `RowsFit` (fence, status and
revision of an instance move together) and `QueueHasOneOrder` (no two members of the
queue have the same position), which needs the lemmas on orders: an order of a finite
set names every member (`OrderCovers`), the positions it gives tell its members apart
(`PositionsAlong`), and instances with different positions have an order
(`SortedOrder`), which is the one a reorder is validated against. The records are
tied to the rows by `RecordsHold`: what is recorded as an end is what the row says and
the revision it reached. As above, `Built` and `Overtaken` carry what a call read over
the steps of the others; for a reorder the revision is the queue's, which must
therefore move with every change of membership (`QueueMovesByRevision`). `Told` says
that a caller who got OK for an end has had the execution signalled; `SignalFollowsCommit`
that no signal reaches an execution without a recorded end.

**EntryRun.** `Holding` ties the session and the recorder to the place of the
call; `InOrder` says that the leaves before the one in turn have landed and those
after it are untouched; `Accounted` that the error on its way up accounts for
everything that went wrong, and holds nothing but completion writes when the leaf
landed; `Recorded` ties the timeline's axis to the marks; `Judged` the execution
axis to what happened. The two last ones follow from the others at the one place
where `runProgram` reads the error. Each action has a lemma with one step per
conjunct.

**NodeRun.** None of the three properties is inductive. A frame releases a number by value,
from the end of the list of its identity; that this is its own, and that the list is the
frames' again afterwards, needs the order in `NumbersFollowFrames`, and that a nested frame
of the same identity gets a higher number needs `Counted`: what is on the stack was counted
before, and what was counted is on record, one fact for each number while the run goes on.
From `Counted` follows that a number is never asked for twice; when the first write of an
occurrence is refused, the number is counted and not on record, and it is the error then
on its way up that keeps the next one from being taken. `Placed` ties the place of a frame
to the phase it recorded last and `OnRecord` that phase to what the sink has, except for a
SUCCEEDED that landed without its answer; so every write but the one after it is legal.
`OnRecord` also names the frame below as the fact's parent: the facts under an occurrence
that ends are then those of children that ended before, and `SuccessIsEarned` carries their
success upwards. `HealersAreLeaves` says that a healer still running is the frame on top,
so that it succeeds or the run fails before anybody leans on its heal.

Two lemmas are inductions over a number, had from the least member of a set
(`EveryNumber`): the places of a list that satisfy a condition can be listed in their order
(`PlacesInOrder`), which is what `promoteSelector` does with the other selectors. From it
follows that the list it returns keeps every selector and lists none twice that was not
listed twice before (`OverlayKeepsFallbacks`).

**InstanceCreation.** `Fits` is what the checks of `BuildInstanceSnapshot` establish
together: no single one of them compares a snapshot with its command. `BuildIsSound`
shows that a resolution for which they all pass gives a snapshot that fits, whatever its
dependencies and root invocations are; that every item is there follows by counting, since the
construction refuses a command with another number of entries than the resolution has
items. `HonestResolutionIsNotBlamed` is the converse for a faithful resolver: the first
dependency of a flow fragment that followed the pointer has the version that the pointer
had, as all of them have. `Records` says that everything stored is the record of an
admitted call and fits it, so a retry in another spelling finds a valid answer
(`StoredIsValid`). `AnswerHolds` says of a success that its record passed the checks of the call
that got it, whatever was stored, and of one that claims to have created the instance that its
record is the stored one. `UntoldAreFew` counts the records whose creator was not told: only
a commit that fails adds one (`FewMore`), and it uses up a fault. `ResultHolds` carries what a call holds between its callback and its
commit, over the steps of the others. A result that was found is stored and stays so
(`Grows`), one that is to be written fits; and the commit that says *applied* is made
where nothing was stored under the identity, while all earlier answers are about stored
records: so at most one answer to an identity says so. A call whose reply was lost after
the write is no exception, since its callback runs again and finds the record.

**FlowClosure.** `Taken` says of every visit under way that the steps before its next
one hold and lead to versions that are completed or are the next visit; `Completed`
that everything a completed version refers to was completed before it; `Path` that
the visits under way are a path. `Taken` and `Path` carry a version over to
`Completed` when its visit ends; acceptance then needs every version to be in
`finished`, and a reference to a visit under way closes the path into a cycle.

**SamplingMatch.** The loop's count is the cardinality of the common selectors seen
so far; it is an induction over the steps of the loop, not over data.

**SamplingSession.** `ToldAsIndexed` ties every answer ever given to the index of captures,
and `PlacedInOrder` that index to the actions: as many captures as actions behind the
opening navigation, at their places. A UUID's part that no other has is the place of its
node (`NodesByUUID`), so a new node's UUID is in no index. That nodes and keys keep step
(`NodesByKey`) needs no more than this: a node is made only under a key that led nowhere
(`IndexFound`), and every other capture binds its key to a node that is there, a refused one too
(`KeyBound`). `ActionsPlaced` survives an update since it keeps both names of a node.

**HealGovernance.** The inductive invariant is `GovernanceSound`; TLC has checked it in the
four settings of the run before it was proved. Its heart is `BaseSound`, on the tables of
one base version. That what is published was earned (`PublicationIsEarned`) is not
inductive: a streak that publishes is the last of several that only observed, so the same
must be said of those. `Evident` says that each contribution is a success in the log, of
the instance it names, and `Quiet` that nothing in the log since the first contribution
spoke against the candidate: up to now while the streak observes, and up to its last
contribution once it is decided (`Horizon`), since later facts only lengthen the log.
`Readable` is what the planner's checks find of every streak, so that no stored one is
refused as corrupt (but the empty ones of finding 5); `CandidateFits` and `VersionsFit`
tie the candidate under review and the versions of the target to the disposition of their
streak. `ObservedKept`, `ObserveKept` and `DecisionFits` show this of one fact, with a
lemma for each way in which `Observe` answers.

A commit hands several facts to the planner, one after the other, on the tables that the
one before left. `FactsInTurn` unfolds that recursive function by `EveryNumber`,
an induction on numbers with the property given as a set; `AcceptedSound` and `GovernedSound` are one
fact, `CommitSound` all of them. A fact's sequence is the next of the log, and no streak
knows a later one (`lastSequence`), which is why a planner that meets every fact in
its order never answers `sequenceConflict`. `Follows` says what a commit may do to decisions and to
candidates, and composes (`FollowsOn`): what is decided stays, and a candidate under review
is touched by no commit (`Asks`). By this a reviewer's call keeps what it read over the
commits of the workers (`CallHolds`), and only other reviewers can come between.
`WorkerHolds` ties the record of a commit to what its worker sent, so that a commit
repeated after a lost answer finds its own; `ReviewHolds` ties a recorded review to the status
of the candidate and to the versions of the target.

**AssetServices.** `Ready` says that what a caller is about to save is the operation's
result on the asset it loaded, and that the store has that asset still or is past its
revision. It survives the saves of others because every operation takes the revision
one further (`ChangeCounts`, with a lemma for each operation), so that an equal
revision means an equal asset: this is what makes a comparison of revisions enough.
`Spent` says that the store is past what a request that took effect was asked of,
which is why repeating it is refused.

That a history stays whole is not checked where it grows: publishing a fragment's version
calls `Validate` on the result and not `ValidateLoadedHistory`, and no later load of the
asset would succeed if the history were broken; of a flow it is checked that the source
of a version is an earlier one, not that it is the one before. `AllKept` says that every
stored history is whole and every flow a line. The operations keep it because the number
a new version is given is one more than there are versions (`NumberFollows`) while its
identity is new (`HistoryGrows`), and because the current version of a flow is the last of
its line (`LastIsCurrent`); a save keeps it because by `Ready` what is saved is the
operation's result on the asset that is still stored. The same step shows `Follows`:
versions are appended, never changed or dropped.

**SamplingPublication.** `PublicationSound` is the inductive invariant; TLC has checked it
in the setting of the run before it was proved. Its parts speak of a store `S` and a
ledger `L` rather than of the variables, so that each can be said of what a step finds and
of what it leaves. Every step `Grows` the store: a target is left as it is, made, or
replaced by a `WriteOf` it, which is one revision on and keeps the identity and number of
each version. From this follow the properties of writes and references, and that what was
read stays readable: `Seen` says that a target that was read is the stored one if the
revisions are equal, and that the stored one has `Reached` at least it otherwise.
`NodeFits` says the like of each node of the command that is sent (`CommandFits`), which no
longer carries what was read, and `Edits` of an editor's save. As
with the services, one comparison of revisions is then enough: a command that is applied
writes what it was mapped from, and the version that it references without writing is live,
because a deletion would have moved the revision (`Applied`).

`Mapped` shows that a publication the mapper makes passes the content checks of the domain,
from what the mapper checks itself and from the wholeness of what was read. That a history stays whole is
shown of each way to write one: `PublishFacts` of a publication, which the code leaves
unchecked, `DeletionGrows` of a version that the host deletes, after which the pointer
must lead to the highest that is left. `Holds` ties a
publisher to the ledger and `LedgerHolds` the ledger to itself: the result that is recorded
is that of the command beside it. A host that mixes its answers up can therefore only be
believed when what it says is the result of what was sent (`Answered`), and every step is one of
`PublicationPromise` or a stutter (`PromisedSteps`).

**StepShape.** `StepTyped` says what an editor can make of a step; what publication, plan
and compiler say of each other follows from it for every such step, kind by kind
(`ActionAgrees`, `WaitAgrees`, `ReferenceAgrees` and so on, `FrozenIsCompiled`). That a
published step is frozen exactly when nothing of it is left to the plan takes both directions:
`PublishedFreezes` and `LeftIsRefused`. `NormalizedFields` tells what the
normalisation of an assertion keeps; that doing it twice changes nothing, and that the result
is refused for its own texts alone, follow for every assertion that can be filled in.

**ValidationGroup.** `ClocksAreTrue` says of every clock that runs that it started in a
complete round which read its branch true, as did every complete round since that has
been looked at: a round that is given up neither stops a clock nor counts, and a round
under way is not looked at yet, which is why `Looked` depends on the place of the poll.
`SeenIsRead` ties what is known of a member to what this round read of it, so that a
verdict made in `Conclude` speaks of one round. The finals are staged again when the
sink refuses them: `VerdictFits` says that those of the verdict which the sink did
take are the last facts staged, and the evidence's judgement of the facts, which looks at the
last final of each member, follows from it: `VerdictIsTopology` says that they fit the group fact and are all there is.
`EndsFit` ties the group fact to the cause and `JudgementIs` leaves of the judgement what
cause and parent make of reason and phase. `RecordIsTold` ties the recorder's state of a
member to the last observation staged of it while the poll goes on; a refused
observation breaks that tie and, by `SinkErrors`, ends the poll.

**Only model-checked.** The liveness properties (`Finishes`,
`AcceptedIsDrivenToTheEnd`, `CallsEnd`, `PollingEnds`), which rest on fairness; that the fold in
`AdvanceScan` computes the relation `Decides` (an induction over data);
`HealDecision`, whose scores are sums over the dimensions and whose order is a sort of any
length, both inductions over data; the modules with recursive operators (`InstancePlan`,
`DraftEditing` and what uses them), which are beyond the prover.

## What is abstracted, and what is not modelled

- Identities, tokens, digests and timestamps are model values or left out; the
  recording and timeline outcomes do not enter a terminal decision. Canonical
  encodings are taken to be injective, and byte limits on encodings are left out.
- `EntryRun` has one sequence of leaves for a tree, `NodeRun` one bit for an error:
  the first is about the outcome axes, the second about occurrences and facts.
- Panics are modelled where the driver acts and where `Close` runs; one of
  another port takes the same deferred path. A panic of the driver inside the node
  runtime leaves marks that say SUCCEEDED; no text says what they shall say.
- The engine verifies its claim before the run and not during it. What two
  engines of the same entry do to the outside world is not fenced by this code
  and not modelled; what they may commit is.
- An instance command leaves the entry that was RUNNING as it is: its row is
  never completed. The models show it and no property forbids it.
- The compiler's parameter bindings and the collision of an environment variable
  with a parameter named `env.x` are left out; that parameters agree is one boolean
  in `FlowClosure`. `equalBindings` has no caller. A binding to a parent's parameter is
  resolved against the parent in `validateBindings`, which is left out likewise.
- The content of versions (fingerprints, properties, URLs, parameters) is compared
  and never looked into. Start URLs are not checked here; of a navigation URL `StepShape`
  knows whether the plan accepts it.
- Refusals of data that is malformed in itself are left out in three places, which only
  admits more: the selector and fingerprint of a heal candidate (`heal.go:101`); a task
  version that is invalid and a value set that is incomplete (`plan_mapper.go:33` and `:110`);
  and, in the mapping of a recording, an authority that is missing or too much, references
  that cannot be rewritten and a flow that cannot be built
  (`sampling_publication_mapper.go:106`–`139`), as the authority of a node is
  here the aggregate that was read for it.
- A deleted element target whose version stands can be reused by a publication; a
  target version that two targets share passes the execution flow and is refused by
  the plan; nothing compares two latest resolutions of one fragment; a navigate or
  press step with a target of blanks passes both judgements of its shape and is
  refused for its dependency. The models have these paths and no property forbids
  them, as no text says what should happen.
- Scores are exact: rounding of floating point is left out, and so are hashes and the
  evidence of heal samples.
- A failing entropy source of a recording session ends the process in the Go release
  of `go.mod` and is left out.
- Folders (`folders.go`, `folder_service.go`) are being moved to the host: the files are
  marked deprecated and `docs/contracts/retirement-plan.md` announces their removal.
- An abort accepted at the largest representable revision leaves its entry without a
  successor to complete with (`abort_request.go:134`); the models reach it at their
  bound and no text says what a host shall do. A moved step of a draft loses its
  captured mark (`draft.go:98`); no text says that it keeps it.
- Value objects, error wrapping and text substitution are pure and have no order of
  steps; they are not modelled.

## Plan

What is left, in this order:

1. Parameter bindings along references, with what the compiler and the plan each
   demand of them.
2. The refinement of one contract by the three idempotent transactions (completion,
   creation, publication).
