------------------------------- MODULE NodeRun -------------------------------
(***************************************************************************)
(* The node runtime (domain/node): a tree of workflows, calls, repeats and *)
(* leaves run by one executor, the occurrence numbers and the selector     *)
(* overlay that Runtime keeps, and what the fact sink of the host holds.   *)
(*                                                                         *)
(* The Go call stack is `stack`.  A fact write may be refused, or land and *)
(* lose its answer.  The sink applies ValidatePhaseTransition, the guard   *)
(* that the package exports for it.  Errors are one bit: every error of a  *)
(* child ends every frame above it.  Timelines and completion chains are   *)
(* in EntryRun; a validation's polling is in ValidationGroup.              *)
(***************************************************************************)
EXTENDS Integers, SequencesExt

CONSTANTS
  Nodes,      \* the nodes of the compiled tree
  Root,
  KindOf,     \* node -> "workflow", "repeat", "call", "step", "direct", "wait", "validation"
  IdOf,       \* node -> Node.ID(); a call without an ID answers its target's
  ChildrenOf, \* node -> sequence of nodes
  TimesOf,    \* node -> RepeatNode.Times, 1 elsewhere
  Optional,   \* steps that may be skipped
  SpecOf,     \* leaf -> the element target it locates
  Selectors,  \* what a healer may propose
  Canonical,  \* the compiled selectors of every target
  Attempts    \* RetryPolicy.Attempts, a positive number

Ids == {IdOf[n] : n \in Nodes}
Specs == {SpecOf[n] : n \in DOMAIN SpecOf}
Containers == {"workflow", "repeat", "call"}
LeafNodes == {n \in Nodes : KindOf[n] \in {"step", "direct", "wait", "validation"}}

\* What the compiler makes: containers list nodes, a repeat runs at least once,
\* and what looks for an element names a target that has a list of selectors,
\* which may hold one twice.  (compiler.go, compileSteps; errors.go, normalized)
Compiled ==
  /\ Root \in Nodes
  /\ \A n \in Nodes :
       /\ n \notin LeafNodes => KindOf[n] \in Containers /\ ChildrenOf[n] \in Seq(Nodes)
       /\ TimesOf[n] \in Nat \ {0}
       /\ KindOf[n] \in {"step", "validation"} => n \in DOMAIN SpecOf
  /\ \A s \in Specs : Canonical[s] \in Seq(ToSet(Canonical[s]))
  /\ Attempts \in Nat \ {0}

VARIABLES
  canceled,    \* the context of the run has ended
  failing,     \* an error is on its way up
  stack,       \* frames: [node, occ, phase, at, kid, round, tries]
  occurrences, \* Runtime.occurrences
  active,      \* Runtime.activeOccurrences
  overlay,     \* Runtime.SelectorOverlay; <<>> where there is none
  facts,       \* the sink: id -> sequence over occurrences of [phase, under]
  staged,      \* the sink: the heal decisions staged for an occurrence
  lost,        \* occurrences whose SUCCEEDED landed without its answer
  healer,      \* who put the overlay of a target in force
  effects,     \* what was done to the page, and the phase on record then
  asked        \* the last fact write: what was asked, by whom, and was it legal

nodeVars == <<canceled, failing, stack, occurrences, active, overlay, facts,
              staged, lost, healer, effects, asked>>

Terminal == {"SUCCEEDED", "FAILED", "CANCELED"}
Phases == {"RUNNING", "HEALING", "TRANSITIONING", "VALIDATING"} \cup Terminal
FramePlaces == {"child", "locate", "recover", "found", "act", "judge", "finish"}
Answers == {"ok", "refused", "lost"}
NoOne == <<>>

Top == stack[Len(stack)]
Running == stack # <<>> /\ ~failing
At(kinds, place) == Running /\ KindOf[Top.node] \in kinds /\ Top.at = place
Moved(frame) == [stack EXCEPT ![Len(stack)] = frame]

NodeInit ==
  /\ canceled = FALSE /\ failing = FALSE
  /\ stack = <<>>
  /\ occurrences = [i \in Ids |-> 0]
  /\ active = [i \in Ids |-> <<>>]
  /\ overlay = [s \in Specs |-> <<>>]
  /\ facts = [i \in Ids |-> <<>>]
  /\ staged = {} /\ lost = {}
  /\ healer = [s \in Specs |-> NoOne]
  /\ effects = {}
  /\ asked = [id |-> IdOf[Root], occ |-> 1, own |-> 1, phase |-> "", legal |-> TRUE]

-----------------------------------------------------------------------------
(* Facts.                                                                  *)

\* stepPhaseTransitions.
NextPhases(phase) ==
  CASE phase = "" -> {"RUNNING"}
    [] phase = "RUNNING" -> {"HEALING", "TRANSITIONING", "VALIDATING"} \cup Terminal
    [] phase = "HEALING" -> {"TRANSITIONING", "FAILED", "CANCELED"}
    [] phase = "TRANSITIONING" -> {"VALIDATING"} \cup Terminal
    [] phase = "VALIDATING" -> Terminal
    [] OTHER -> {}

Stored(id, occ) == IF occ \in DOMAIN facts[id] THEN facts[id][occ].phase ELSE ""

ValidatePhaseTransition(id, occ, next) == next \in NextPhases(Stored(id, occ))

Under == IF stack = <<>> THEN NoOne ELSE <<IdOf[Top.node], Top.occ>>

\* RecordProgress and CommitTerminal of the host: one guarded write.
Sink(id, occ, phase, answer) ==
  /\ answer = "refused" \/ ValidatePhaseTransition(id, occ, phase)
  /\ IF answer = "refused" THEN UNCHANGED facts
     ELSE facts' =
       IF phase = "RUNNING"
       THEN [facts EXCEPT ![id] = Append(@, [phase |-> phase, under |-> Under])]
       ELSE [facts EXCEPT ![id][occ].phase = phase]
  /\ lost' = IF answer = "lost" /\ phase = "SUCCEEDED"
             THEN lost \cup {<<id, occ>>} ELSE lost

\* releaseOccurrence: the number of one invocation, at the last place it sits.
releaseOccurrence(seq, occ) ==
  LET at == {k \in DOMAIN seq : seq[k] = occ}
  IN IF at = {} THEN seq ELSE RemoveAt(seq, CHOOSE k \in at : \A j \in at : j <= k)

\* `defer rt.releaseOccurrence`, and the release inside emit when the write
\* succeeded: after the frame is gone its number is too.
Released(id, occ, ok) == [active EXCEPT ![id] = releaseOccurrence(@, occ)]

\* emit for a frame that has an occurrence: the newest one of the identity.
EmitOccurrence(id) == active[id][Len(active[id])]

Ask(id, occ, own, phase) ==
  asked' = [id |-> id, occ |-> occ, own |-> own, phase |-> phase,
            legal |-> ValidatePhaseTransition(id, occ, phase)]

\* emit of a phase that is not the last: the frame goes on or fails.
EmitProgress(phase, place, answer) ==
  LET id == IdOf[Top.node]
      occ == EmitOccurrence(id)
  IN /\ Ask(id, occ, Top.occ, phase)
     /\ Sink(id, occ, phase, answer)
     /\ failing' = (answer # "ok")
     /\ stack' = IF answer = "ok"
                 THEN Moved([Top EXCEPT !.phase = phase, !.at = place])
                 ELSE stack

\* emit of a terminal phase, and the return of the frame with `error`.
EmitAndReturn(phase, answer, error) ==
  LET id == IdOf[Top.node]
      occ == EmitOccurrence(id)
  IN /\ Ask(id, occ, Top.occ, phase)
     /\ Sink(id, occ, phase, answer)
     /\ active' = Released(id, Top.occ, answer = "ok")
     /\ stack' = Front(stack)
     /\ failing' = error

-----------------------------------------------------------------------------
(* Entering a node.                                                        *)

FirstPlace(n) ==
  CASE KindOf[n] \in Containers -> "child"
    [] KindOf[n] = "step" -> "locate"
    [] KindOf[n] = "direct" -> "act"
    [] KindOf[n] \in {"wait", "validation"} -> "judge"

\* Mutant: the number in force is taken from the stack and never counted.
EnterUncounted(n, answer) ==
  LET id == IdOf[n]
      occ == Len(active[id]) + 1
  IN /\ Ask(id, occ, occ, "RUNNING")
     /\ Sink(id, occ, "RUNNING", answer)
     /\ UNCHANGED occurrences
     /\ IF answer = "ok"
        THEN /\ active' = [active EXCEPT ![id] = Append(@, occ)]
             /\ stack' = Append(stack, [node |-> n, occ |-> occ, phase |-> "RUNNING",
                          at |-> FirstPlace(n), kid |-> 1, round |-> 1, tries |-> 0])
             /\ failing' = FALSE
        ELSE failing' = TRUE /\ UNCHANGED <<active, stack>>

\* beginOccurrence, and the transition to RUNNING of a leaf.
Enter(n, answer) ==
  LET id == IdOf[n]
      occ == occurrences[id] + 1
  IN /\ Ask(id, occ, occ, "RUNNING")
     /\ Sink(id, occ, "RUNNING", answer)
     /\ IF answer = "ok"
        THEN /\ occurrences' = [occurrences EXCEPT ![id] = occ]
             /\ active' = [active EXCEPT ![id] = Append(@, occ)]
             /\ stack' = Append(stack, [node |-> n, occ |-> occ, phase |-> "RUNNING",
                          at |-> FirstPlace(n), kid |-> 1, round |-> 1, tries |-> 0])
             /\ failing' = FALSE
        ELSE /\ failing' = TRUE
             /\ UNCHANGED <<occurrences, active, stack>>

\* RunProgram calls Root.Run once.
Start ==
  /\ asked.phase = "" /\ stack = <<>> /\ ~failing
  /\ \E answer \in Answers : Enter(Root, answer)
  /\ UNCHANGED <<canceled, overlay, staged, healer, effects>>

InContainer == At(Containers, "child")
HasChild == Top.kid <= Len(ChildrenOf[Top.node])

\* Run of the containers: the next child.
EnterChild ==
  /\ InContainer /\ HasChild
  /\ LET n == ChildrenOf[Top.node][Top.kid]
     IN \/ \E answer \in Answers : Enter(n, answer)
        \/ /\ n \in LeafNodes /\ canceled      \* waitBeforeStep
           /\ failing' = TRUE
           /\ UNCHANGED <<stack, occurrences, active, facts, lost, asked>>
  /\ UNCHANGED <<canceled, overlay, staged, healer, effects>>

\* RepeatNode.Run: the next iteration.
NextRound ==
  /\ InContainer /\ ~HasChild
  /\ Top.round < TimesOf[Top.node]
  /\ stack' = Moved([Top EXCEPT !.kid = 1, !.round = @ + 1])
  /\ UNCHANGED <<canceled, failing, occurrences, active, overlay, facts,
                 staged, lost, healer, asked, effects>>

\* A frame that returned nil: its parent turns to the next child.
Resumed(rest) ==
  IF rest = <<>> THEN rest
  ELSE [rest EXCEPT ![Len(rest)].kid = @ + 1]

\* A container, a wait: a SUCCEEDED that is not recorded is the error of the
\* node, and no FAILED is tried.
FinishPlainly ==
  /\ \/ InContainer /\ ~HasChild /\ Top.round = TimesOf[Top.node]
     \/ At({"wait"}, "finish")
  /\ \E answer \in Answers :
       LET id == IdOf[Top.node]
           occ == EmitOccurrence(id)
       IN /\ Ask(id, occ, Top.occ, "SUCCEEDED")
          /\ Sink(id, occ, "SUCCEEDED", answer)
          /\ active' = Released(id, Top.occ, answer = "ok")
          /\ failing' = (answer # "ok")
          /\ stack' = IF answer = "ok" THEN Resumed(Front(stack)) ELSE Front(stack)
  /\ UNCHANGED <<canceled, occurrences, overlay, staged, healer, effects>>

\* Mutant: a step whose SUCCEEDED is not recorded is taken for done.
FinishStepAnyway ==
  /\ At({"step", "direct", "validation"}, "finish")
  /\ \E answer \in Answers : EmitAndReturn("SUCCEEDED", answer, FALSE)
  /\ UNCHANGED <<canceled, occurrences, overlay, staged, healer, effects>>

\* StepNode.finish and the end of ValidationNode.Run: a SUCCEEDED that is not
\* recorded goes through fail().
FinishStep ==
  /\ At({"step", "direct", "validation"}, "finish")
  /\ \E answer \in Answers :
       LET id == IdOf[Top.node]
           occ == EmitOccurrence(id)
       IN /\ Ask(id, occ, Top.occ, "SUCCEEDED")
          /\ Sink(id, occ, "SUCCEEDED", answer)
          /\ failing' = (answer # "ok")
          /\ IF answer = "ok"
             THEN /\ active' = Released(id, Top.occ, TRUE)
                  /\ stack' = Resumed(Front(stack))
             ELSE UNCHANGED <<active, stack>>
  /\ UNCHANGED <<canceled, occurrences, overlay, staged, healer, effects>>

\* failurePhase, and the same test on parentCtx in StepNode.fail.
failurePhase(ended) == IF ended THEN "CANCELED" ELSE "FAILED"

\* fail, validationFail, and `emitTerminal(failurePhase(ctx))` of the others:
\* the frame returns an error whatever the write answers.
Fail ==
  /\ failing /\ stack # <<>>
  /\ \E answer \in Answers :
       EmitAndReturn(failurePhase(canceled), answer, TRUE)
  /\ UNCHANGED <<canceled, occurrences, overlay, staged, healer, effects>>

\* Everything of a leaf that fails before its terminal: a variable, a
\* timeline mark, a driver, a bad decision, its own timeout.
LeafFails ==
  /\ Running /\ Top.node \in LeafNodes /\ Top.at # "finish"
  /\ failing' = TRUE
  /\ UNCHANGED <<canceled, stack, occurrences, active, overlay, facts, staged,
                 lost, healer, effects, asked>>

Cancel ==
  /\ ~canceled /\ stack # <<>> /\ canceled' = TRUE
  /\ UNCHANGED <<failing, stack, occurrences, active, overlay, facts, staged,
                 lost, healer, effects, asked>>

-----------------------------------------------------------------------------
(* A step.                                                                 *)

\* effectiveSpec: the overlay over the canonical selectors.
effectiveSpec(s) == IF overlay[s] = <<>> THEN Canonical[s] ELSE overlay[s]

\* The element is found: TRANSITIONING is recorded, then the action runs.
Located ==
  /\ At({"step"}, "locate") \/ At({"step"}, "found")
  /\ \E answer \in Answers : EmitProgress("TRANSITIONING", "act", answer)
  /\ UNCHANGED <<canceled, occurrences, active, overlay, staged, healer, effects>>

\* Nothing matches an optional step: it succeeds without acting.
SkipOptional ==
  /\ At({"step"}, "locate") /\ Top.node \in Optional
  /\ stack' = Moved([Top EXCEPT !.at = "finish"])
  /\ UNCHANGED <<canceled, failing, occurrences, active, overlay, facts,
                 staged, lost, healer, effects, asked>>

\* Nothing matches: HEALING is recorded.
StartHealing ==
  /\ At({"step"}, "locate") /\ Top.node \notin Optional
  /\ \E answer \in Answers : EmitProgress("HEALING", "recover", answer)
  /\ UNCHANGED <<canceled, occurrences, active, overlay, staged, healer, effects>>

Healing ==
  \/ At({"step"}, "recover")
  \/ At({"validation"}, "judge") /\ Top.phase = "VALIDATING"

Decision(outcome, selector) ==
  [id |-> IdOf[Top.node], occ |-> Top.occ, outcome |-> outcome,
   spec |-> SpecOf[Top.node], selector |-> selector]

\* promoteSelector: the healed selector first, and only once; then the others in
\* their order.
promoteSelector(base, healed) ==
  LET others == {k \in DOMAIN base : base[k] # healed}
      order == CHOOSE o \in Surjection(1..Cardinality(others), others) :
                 \A i, j \in DOMAIN o : i < j => o[i] < o[j]
  IN <<healed>> \o [i \in DOMAIN order |-> base[order[i]]]

\* heal and ValidationNode.locate, a decision that is not applied: it is
\* staged, and a step refuses while a validation takes "no candidate" for absence.
RefuseHealing ==
  /\ Healing
  /\ \E outcome \in {"NO_CANDIDATE", "SAFETY_REJECTED", "REVIEW"},
        answer \in Answers :
       /\ staged' = IF answer = "refused" THEN staged
                    ELSE staged \cup {Decision(outcome, NoOne)}
       /\ failing' = ~(answer = "ok" /\ outcome = "NO_CANDIDATE"
                       /\ KindOf[Top.node] = "validation")
  /\ UNCHANGED <<canceled, stack, occurrences, active, overlay, facts, lost,
                 healer, effects, asked>>

\* Mutant: the overlay is set before the decision is staged.
OverlayBeforeStaging(s, sel, answer) ==
  /\ overlay' = [overlay EXCEPT ![s] = promoteSelector(effectiveSpec(s), sel)]
  /\ healer' = [healer EXCEPT ![s] = <<IdOf[Top.node], Top.occ>>]
  /\ failing' = (answer # "ok")

\* setSelectorOverlay, after StageHealDecision succeeded.
InstallOverlay(s, sel, answer) ==
  /\ IF answer = "ok"
     THEN /\ overlay' = [overlay EXCEPT ![s] = promoteSelector(effectiveSpec(s), sel)]
          /\ healer' = [healer EXCEPT ![s] = <<IdOf[Top.node], Top.occ>>]
     ELSE UNCHANGED <<overlay, healer>>
  /\ failing' = (answer # "ok")

\* heal and ValidationNode.locate: the candidate was found again on the page.
ApplyHealing ==
  /\ Healing
  /\ \E sel \in Selectors, answer \in Answers :
       /\ staged' = IF answer = "refused" THEN staged
                    ELSE staged \cup {Decision("HEALED", sel)}
       /\ InstallOverlay(SpecOf[Top.node], sel, answer)
       /\ stack' = IF answer = "ok" /\ KindOf[Top.node] = "step"
                   THEN Moved([Top EXCEPT !.at = "found"])
                   ELSE stack
  /\ UNCHANGED <<canceled, occurrences, active, facts, lost, effects, asked>>

Effect == [id |-> IdOf[Top.node], occ |-> Top.occ, kind |-> KindOf[Top.node],
           phase |-> Stored(IdOf[Top.node], Top.occ)]

\* RetryWithAttempts: another attempt is left.
MayRetry(tries) == tries + 1 < Attempts

\* applyAction, Navigate, Press: the page may have changed whatever the
\* driver answers; only an explicitly transient fault is tried again.
Act ==
  /\ At({"step", "direct"}, "act")
  /\ effects' = effects \cup {Effect}
  /\ \/ stack' = Moved([Top EXCEPT !.at = "finish"]) /\ failing' = FALSE
     \/ MayRetry(Top.tries) /\ stack' = Moved([Top EXCEPT !.tries = @ + 1])
        /\ failing' = FALSE
     \/ failing' = TRUE /\ UNCHANGED stack
  /\ UNCHANGED <<canceled, occurrences, active, overlay, facts, staged, lost,
                 healer, asked>>

\* WaitNode.Run and Poller.Run: the condition holds in time.
WaitHolds ==
  /\ At({"wait"}, "judge")
  /\ stack' = Moved([Top EXCEPT !.at = "finish"])
  /\ UNCHANGED <<canceled, failing, occurrences, active, overlay, facts,
                 staged, lost, healer, effects, asked>>

\* ValidationNode.Run: VALIDATING is recorded before the first poll ...
StartValidating ==
  /\ At({"validation"}, "judge") /\ Top.phase = "RUNNING"
  /\ \E answer \in Answers : EmitProgress("VALIDATING", "judge", answer)
  /\ UNCHANGED <<canceled, occurrences, active, overlay, staged, healer, effects>>

\* ... and the assertion held through its stability window.
ValidationHolds ==
  /\ At({"validation"}, "judge") /\ Top.phase = "VALIDATING"
  /\ stack' = Moved([Top EXCEPT !.at = "finish"])
  /\ UNCHANGED <<canceled, failing, occurrences, active, overlay, facts,
                 staged, lost, healer, effects, asked>>

Done == stack = <<>> /\ asked.phase # "" /\ UNCHANGED nodeVars

NodeNext ==
  \/ Start \/ EnterChild \/ NextRound \/ FinishPlainly \/ FinishStep \/ Fail
  \/ LeafFails \/ Cancel \/ Located \/ SkipOptional \/ StartHealing
  \/ RefuseHealing \/ ApplyHealing \/ Act \/ WaitHolds \/ StartValidating
  \/ ValidationHolds \/ Done

NodeSpec == NodeInit /\ [][NodeNext]_nodeVars

-----------------------------------------------------------------------------
(* Properties.                                                             *)

\* The shape of the state.
NodeTypeOK ==
  /\ canceled \in BOOLEAN /\ failing \in BOOLEAN
  /\ \A k \in DOMAIN stack :
       /\ stack[k].node \in Nodes /\ stack[k].at \in FramePlaces
       /\ stack[k].phase \in Phases /\ stack[k].tries \in 0..(Attempts - 1)
       /\ stack[k].round \in 1..TimesOf[stack[k].node]
  /\ occurrences \in [Ids -> Nat]
  /\ \A i \in Ids : \A k \in DOMAIN facts[i] : facts[i][k].phase \in Phases
  /\ asked.id \in Ids

\* The frames of one identity.
FramesOf(id) == {k \in DOMAIN stack : IdOf[stack[k].node] = id}

\* Every occurrence number in force belongs to a frame that is still running, in
\* the order of the frames, and a frame writes under its own number: no error
\* path leaks one, and a nested frame of the same identity never takes another's.
\* (runtime.go, releaseOccurrence and the deferred calls of it)
NumbersFollowFrames ==
  /\ \A id \in Ids :
       /\ ToSet(active[id]) = {stack[k].occ : k \in FramesOf(id)}
       /\ \A j, k \in DOMAIN active[id] : j < k => active[id][j] < active[id][k]
       /\ \A j, k \in FramesOf(id) : j < k => stack[j].occ < stack[k].occ
  /\ asked.occ = asked.own

\* An occurrence number is never reused: RUNNING is asked for a number the
\* sink knows nothing of, in whatever way earlier writes were answered.
\* (docs/domains/node.md, the numbers of node occurrences)
NumbersAreNeverReused == asked.phase = "RUNNING" => asked.legal

\* The only write the guard of the sink ever has to refuse is the FAILED that
\* follows a SUCCEEDED whose answer was lost.  (step.go, finish and fail)
OnlyALostSuccessIsContradicted ==
  asked.legal \/ <<asked.id, asked.occ>> \in lost

\* Success is earned from below: an occurrence on record as SUCCEEDED has
\* only SUCCEEDED occurrences under it; while the run goes on all that ended
\* are SUCCEEDED; and a run that failed left a SUCCEEDED behind on its way up
\* only where the answer of the sink was lost.
\* (composite.go, Run of the containers)
SuccessIsEarned ==
  \A i \in Ids : \A o \in DOMAIN facts[i] :
    LET fact == facts[i][o]
        open == \E k \in DOMAIN stack : IdOf[stack[k].node] = i /\ stack[k].occ = o
    IN /\ fact.under # NoOne
            => \/ Stored(fact.under[1], fact.under[2]) # "SUCCEEDED"
               \/ fact.phase = "SUCCEEDED"
       /\ ~open /\ ~failing => fact.phase = "SUCCEEDED"
       /\ open /\ fact.phase = "SUCCEEDED" => failing /\ <<i, o>> \in lost

\* A step acts on the page only after the sink holds its TRANSITIONING, a
\* navigation or a key press only after its RUNNING; nothing acts after its
\* terminal.  (step.go, Run)
EffectsAreAnnounced ==
  \A e \in effects : e.phase = IF e.kind = "step" THEN "TRANSITIONING" ELSE "RUNNING"

\* A canceled occurrence means that the run itself was canceled: a step or a
\* wait that runs into its own timeout has failed.  (step.go, fail)
CanceledMeansTheRunWas ==
  \A i \in Ids : \A o \in DOMAIN facts[i] : facts[i][o].phase = "CANCELED" => canceled

\* A healed selector that is in force was staged as evidence, by the frame
\* that is running or by an occurrence the sink has as SUCCEEDED: no step of a
\* run that goes on leans on a heal without a record.
\* (runtime.go, setSelectorOverlay; step.go, heal)
OverlayIsBacked ==
  \A s \in Specs : overlay[s] # <<>> =>
    LET by == healer[s]
    IN /\ \E d \in staged : /\ d.id = by[1] /\ d.occ = by[2] /\ d.spec = s
                            /\ d.outcome = "HEALED" /\ d.selector = overlay[s][1]
       /\ \/ failing
          \/ Stored(by[1], by[2]) = "SUCCEEDED"
          \/ stack # <<>> /\ IdOf[Top.node] = by[1] /\ Top.occ = by[2]

\* Two places of a list of selectors hold the same.
Twice(list, x) == \E i, j \in DOMAIN list : i # j /\ list[i] = x /\ list[j] = x

\* However often a target is healed, no selector is listed twice that was not
\* compiled twice, and none of the compiled ones is lost.
\* (runtime.go, promoteSelector)
OverlayKeepsFallbacks ==
  \A s \in Specs : overlay[s] # <<>> =>
    /\ \A x \in ToSet(overlay[s]) : Twice(overlay[s], x) => Twice(Canonical[s], x)
    /\ ToSet(Canonical[s]) \subseteq ToSet(overlay[s])

\* An occurrence number names one occurrence: the frame that owns it, once.
NumbersAreSound == NodeTypeOK /\ NumbersFollowFrames /\ NumbersAreNeverReused

\* The facts on record tell the run: what they announce happened after them,
\* success is earned from below, and the sink refuses no write but the one that
\* follows a lost answer.
FactsAreTrue ==
  OnlyALostSuccessIsContradicted /\ SuccessIsEarned /\ EffectsAreAnnounced /\ CanceledMeansTheRunWas

\* A healed selector in force is on record and shadows no compiled one.
OverlayIsSound == OverlayIsBacked /\ OverlayKeepsFallbacks
=============================================================================
