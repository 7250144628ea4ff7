------------------------------ MODULE EntryRun ------------------------------
(***************************************************************************)
(* One top-level entry, from the claim to the outcome that                 *)
(* DecideEntryCompletion receives: EntryExecutor.Execute                   *)
(* (application/execution/entry_executor.go) around RunProgram             *)
(* (application/engine) around a sequence of leaves (domain/node).         *)
(*                                                                         *)
(* The three layers hold resources of a host that may refuse, answer with  *)
(* half a result, or panic: a browser session, a recorder, a fact sink and *)
(* a step timeline.  A Go error is the set of faults its chain carries,    *)
(* which is what errors.Is, fault.IsCode and LeafExecutionError read from  *)
(* it.  Nested workflows, calls and repeats run their children in order    *)
(* and stop at the first error, as the one workflow modelled here does.    *)
(***************************************************************************)
EXTENDS Integers, TerminalDecision

CONSTANT LeafCount     \* leaves of the program, in the order the tree runs them

ASSUME LeafCountAssumption == LeafCount \in Nat \ {0}

Leaves == 1..LeafCount

VARIABLES
  pc,        \* where the call stands
  setup,     \* engine.Config: which optional ports the host supplied
  session,   \* the host's browser: "none", "open", "closed"
  recorder,  \* the host's recorder: "idle", "running", "stopped", "lost"
  leaf,      \* the leaf in turn
  ends,      \* what the behaviour of each leaf came to, in the world
  marks,     \* the timeline boundaries written for each leaf
  begun,     \* Runtime.leafExecutionStarted
  factLost,  \* some execution fact could not be written
  errs,      \* the faults of the error on its way up
  result,    \* engine.EntryResult
  panics     \* panics on their way up

vars == <<pc, setup, session, recorder, leaf, ends, marks, begun, factLost,
          errs, result, panics>>

Faults ==
  {"REFUSED",    \* fence, authority, identity, configuration, session contract
   "RECORDER",   \* Recorder.Start or Stop
   "NODE",       \* the behaviour of a leaf
   "CANCEL",     \* context.Canceled or DeadlineExceeded anywhere in the chain
   "EVIDENCE",   \* an execution fact could not be recorded
   "START",      \* CodeStepTimelineStartFailed
   "FINISH",     \* CodeStepTimelineFinishFailed, inside a leafCompletionError
   "OBSERVE",    \* CodeNodeCompletionObservation, inside a leafCompletionError
   "CLOSE"}      \* BrowserSession.Close

Places == {"authorize", "create", "check", "run", "record", "root", "leaf",
           "act", "complete", "terminal", "outcome", "stop", "close", "done"}

Ends == {"none", "landed", "failed", "canceled", "panicked"}

NotStarted ==
  [execution |-> "NOT_STARTED", recording |-> "DISABLED", timeline |-> "DISABLED"]

Results ==
  [execution: ExecutionOutcomes \ {"INTERRUPTED"},
   recording: {"DISABLED", "SUCCEEDED", "START_FAILED", "STOP_FAILED"},
   timeline: {"DISABLED", "COMPLETE", "START_FAILED", "FINISH_FAILED"}]

Init ==
  /\ pc = "authorize"
  /\ setup \in [recorder: BOOLEAN, timeline: BOOLEAN, observer: BOOLEAN]
  /\ session = "none" /\ recorder = "idle"
  /\ leaf = 1
  /\ ends = [l \in Leaves |-> "none"]
  /\ marks = [l \in Leaves |-> {}]
  /\ begun = FALSE /\ factLost = FALSE
  /\ errs = {} /\ panics = {}
  /\ result = NotStarted

-----------------------------------------------------------------------------

\* Mutant: the filter drops the whole completion error, the leaf's own one with it.
DropWholeCompletionError(faults) ==
  IF faults \cap {"FINISH", "OBSERVE"} = {} THEN faults ELSE {}

\* LeafExecutionError: a failed completion write of a leaf is stripped from
\* the error, wherever in the chain it sits.
LeafExecutionError(faults) == faults \ {"FINISH", "OBSERVE"}

\* executionOutcome: any end of a context counts as canceled.
executionOutcome(faults) ==
  CASE faults = {} -> "SUCCEEDED"
    [] "CANCEL" \in faults -> "CANCELED"
    [] OTHER -> "FAILED"

\* runProgram, after Root.Run returned: the execution axis ...
ExecutionOf(faults) ==
  IF "START" \in faults /\ ~begun
  THEN "NOT_STARTED"
  ELSE executionOutcome(LeafExecutionError(faults))

\* ... and the timeline axis.
TimelineOf(faults) ==
  CASE "FINISH" \in faults -> "FINISH_FAILED"
    [] "START" \in faults /\ "FINISH" \notin faults -> "START_FAILED"
    [] OTHER -> result.timeline

-----------------------------------------------------------------------------
(* EntryExecutor, up to the runner.                                        *)

\* fence.Validate, then AuthorizeEntry; either refusal returns at once.
Authorize ==
  /\ pc = "authorize"
  /\ \/ pc' = "create" /\ UNCHANGED errs
     \/ pc' = "done" /\ errs' = {"REFUSED"}
  /\ UNCHANGED <<setup, session, recorder, leaf, ends, marks, begun, factLost,
                 result, panics>>

\* factory.Create.  A session that comes with an error is closed here and
\* now; the deferred close is not yet in place.
CreateSession ==
  /\ pc = "create"
  /\ \/ pc' = "check" /\ session' = "open" /\ UNCHANGED <<errs, panics>>
     \/ pc' = "done" /\ errs' = {"REFUSED"} /\ UNCHANGED <<session, panics>>
     \/ /\ pc' = "done" /\ session' = "closed"
        /\ errs' \in {{"REFUSED"}, {"REFUSED", "CLOSE"}}
        /\ panics' \in {{}, {"CLOSE"}}
  /\ UNCHANGED <<setup, recorder, leaf, ends, marks, begun, factLost, result>>

\* session.Valid.
CheckSession ==
  /\ pc = "check"
  /\ \/ pc' = "run" /\ UNCHANGED errs
     \/ pc' = "close" /\ errs' = {"REFUSED"}
  /\ UNCHANGED <<setup, session, recorder, leaf, ends, marks, begun, factLost,
                 result, panics>>

-----------------------------------------------------------------------------
(* RunProgram, called by the host's EntryRunner.                           *)

\* The runner's own preparation, the identity and authority checks and
\* validateConfig all precede the first port that has an effect.
EnterEngine ==
  /\ pc = "run"
  /\ \/ pc' = "close" /\ errs' = {"REFUSED"}
     \/ /\ setup.timeline => setup.recorder
        /\ pc' = "record" /\ UNCHANGED errs
  /\ UNCHANGED <<setup, session, recorder, leaf, ends, marks, begun, factLost,
                 result, panics>>

\* Mutant: a recorder that does not start no longer ends the run.
StartFailsAndGoesOn ==
  /\ setup.recorder
  /\ result' = [result EXCEPT !.recording = "START_FAILED"]
  /\ errs' = {}
  /\ pc' = "root"
  /\ UNCHANGED recorder

\* Recorder.Start and the timeline it must return.
StartFails ==
  /\ setup.recorder
  /\ result' = [result EXCEPT
       !.recording = "START_FAILED",
       !.timeline = IF setup.timeline THEN "START_FAILED" ELSE @]
  /\ errs' = {"RECORDER"}
  /\ pc' = "close"
  /\ UNCHANGED recorder

StartsWithoutTimeline ==
  /\ setup.recorder /\ setup.timeline
  /\ recorder' = "running"
  /\ result' = [result EXCEPT !.recording = "SUCCEEDED",
                              !.timeline = "START_FAILED"]
  /\ errs' = {"REFUSED"}
  /\ pc' = "stop"

Starts ==
  /\ recorder' = IF setup.recorder THEN "running" ELSE recorder
  /\ result' = [result EXCEPT
       !.recording = IF setup.recorder THEN "SUCCEEDED" ELSE @,
       !.timeline = IF setup.timeline THEN "COMPLETE" ELSE @]
  /\ pc' = "root"
  /\ UNCHANGED errs

StartRecorder ==
  /\ pc = "record"
  /\ StartFails \/ StartsWithoutTimeline \/ Starts
  /\ UNCHANGED <<setup, session, leaf, ends, marks, begun, factLost, panics>>

-----------------------------------------------------------------------------
(* The node tree: one workflow and its leaves.                             *)

\* A fact write succeeds, or its loss joins the error; a host may report the
\* end of the context as the reason.
WritesFact(faults) ==
  \/ errs' = faults /\ UNCHANGED factLost
  \/ /\ errs' \in {faults \cup {"EVIDENCE"}, faults \cup {"EVIDENCE", "CANCEL"}}
     /\ factLost' = TRUE

\* The workflow's own RUNNING fact.
BeginRoot ==
  /\ pc = "root"
  /\ WritesFact({})
  /\ pc' = IF errs' = {} THEN "leaf" ELSE "outcome"
  /\ UNCHANGED <<setup, session, recorder, leaf, ends, marks, begun, result,
                 panics>>

\* waitBeforeStep, the leaf's RUNNING fact, and the STARTED mark: nothing of
\* the leaf runs unless all three succeed.  The first leaf is not paced.
PaceCanceled ==
  /\ leaf > 1
  /\ errs' = {"CANCEL"} /\ pc' = "terminal"
  /\ UNCHANGED <<marks, begun, factLost>>

RunningFactLost ==
  /\ errs' \in {{"EVIDENCE"}, {"EVIDENCE", "CANCEL"}}
  /\ factLost' = TRUE /\ pc' = "terminal"
  /\ UNCHANGED <<marks, begun>>

StartMarkLost ==
  /\ setup.timeline
  /\ WritesFact({"START"}) \/ WritesFact({"START", "CANCEL"})
  /\ pc' = "terminal"
  /\ UNCHANGED <<marks, begun>>

LeafBegins ==
  /\ marks' = [marks EXCEPT ![leaf] = IF setup.timeline THEN {"STARTED"} ELSE {}]
  /\ begun' = TRUE /\ pc' = "act"
  /\ UNCHANGED <<errs, factLost>>

BeginLeaf ==
  /\ pc = "leaf"
  /\ PaceCanceled \/ RunningFactLost \/ StartMarkLost \/ LeafBegins
  /\ UNCHANGED <<setup, session, recorder, leaf, ends, result, panics>>

\* The behaviour of the leaf and its terminal fact.  A success whose fact is
\* lost is a failure of the node (StepNode.finish), though it has landed.
ActLeaf ==
  /\ pc = "act"
  /\ \/ /\ ends' = [ends EXCEPT ![leaf] = "landed"]
        /\ WritesFact({}) /\ UNCHANGED panics
     \/ /\ ends' = [ends EXCEPT ![leaf] = "failed"]
        /\ WritesFact({"NODE"}) /\ UNCHANGED panics
     \/ /\ ends' = [ends EXCEPT ![leaf] = "canceled"]
        /\ WritesFact({"NODE", "CANCEL"}) /\ UNCHANGED panics
     \/ /\ ends' = [ends EXCEPT ![leaf] = "panicked"]
        /\ panics' = {"RUNNER"} /\ UNCHANGED <<errs, factLost>>
  /\ pc' = "complete"
  /\ UNCHANGED <<setup, session, recorder, leaf, marks, begun, result>>

\* leafLifecycle.Complete, deferred by every leaf: the FINISHED mark and the
\* completion observation, whose failures join the error.
CompletionFaults(finished, observed) ==
  (IF finished THEN {} ELSE {"FINISH"}) \cup (IF observed THEN {} ELSE {"OBSERVE"})

\* Mutant: a panic unwinds past the recorder's deferred Stop.
AfterLeafPanicEscapes(faults) ==
  CASE panics # {} -> "close"
    [] panics = {} /\ faults # {} -> "terminal"
    [] panics = {} /\ faults = {} /\ leaf < LeafCount -> "leaf"
    [] OTHER -> "terminal"

\* The workflow runs its children in order and returns at the first error.
AfterLeaf(faults) ==
  CASE panics # {} -> "stop"
    [] panics = {} /\ faults # {} -> "terminal"
    [] panics = {} /\ faults = {} /\ leaf < LeafCount -> "leaf"
    [] OTHER -> "terminal"

CompleteLeaf ==
  /\ pc = "complete"
  /\ \E finished, observed \in BOOLEAN :
       /\ ~finished => setup.timeline
       /\ ~observed => setup.observer
       /\ marks' = [marks EXCEPT ![leaf] =
            IF setup.timeline /\ finished THEN @ \cup {"FINISHED"} ELSE @]
       /\ errs' = errs \cup CompletionFaults(finished, observed)
       /\ pc' = AfterLeaf(errs')
       /\ leaf' = IF pc' = "leaf" THEN leaf + 1 ELSE leaf
  /\ UNCHANGED <<setup, session, recorder, ends, begun, factLost, result, panics>>

\* The workflow's terminal fact, which a failing leaf does not prevent.
EndRoot ==
  /\ pc = "terminal"
  /\ WritesFact(errs)
  /\ pc' = "outcome"
  /\ UNCHANGED <<setup, session, recorder, leaf, ends, marks, begun, result,
                 panics>>

\* runProgram reads two of its outcome axes from the error of the tree.
Outcome ==
  /\ pc = "outcome"
  /\ result' = [result EXCEPT !.execution = ExecutionOf(errs),
                              !.timeline = TimelineOf(errs)]
  /\ pc' = "stop"
  /\ UNCHANGED <<setup, session, recorder, leaf, ends, marks, begun, factLost,
                 errs, panics>>

-----------------------------------------------------------------------------
(* The deferred clean-up, innermost first.                                 *)

\* Recorder.Stop, under a context of its own.
StopRecorder ==
  /\ pc = "stop"
  /\ \/ recorder # "running" /\ UNCHANGED <<recorder, result, errs>>
     \/ /\ recorder = "running" /\ recorder' = "stopped"
        /\ UNCHANGED <<result, errs>>
     \/ /\ recorder = "running" /\ recorder' = "lost"
        /\ result' = [result EXCEPT !.recording = "STOP_FAILED"]
        /\ errs' = errs \cup {"RECORDER"}
  /\ pc' = "close"
  /\ UNCHANGED <<setup, session, leaf, ends, marks, begun, factLost, panics>>

\* BrowserSession.Close, under a context of its own; a panic of the runner or
\* of Close goes on upwards afterwards.
CloseSession ==
  /\ pc = "close"
  /\ session' = "closed"
  /\ \/ UNCHANGED <<errs, panics>>
     \/ errs' = errs \cup {"CLOSE"} /\ UNCHANGED panics
     \/ panics' = panics \cup {"CLOSE"} /\ UNCHANGED errs
  /\ pc' = "done"
  /\ UNCHANGED <<setup, recorder, leaf, ends, marks, begun, factLost, result>>

Next ==
  \/ Authorize \/ CreateSession \/ CheckSession
  \/ EnterEngine \/ StartRecorder
  \/ BeginRoot \/ BeginLeaf \/ ActLeaf \/ CompleteLeaf \/ EndRoot \/ Outcome
  \/ StopRecorder \/ CloseSession

Spec == Init /\ [][Next]_vars

-----------------------------------------------------------------------------
(* Properties.                                                             *)

\* Every variable keeps its type; in particular the result is always one
\* that EngineOutcome.Validate accepts and RunProgram may return, which is
\* what Execute promises DecideEntryCompletion ("always decidable").
TypeOK ==
  /\ pc \in Places
  /\ setup \in [recorder: BOOLEAN, timeline: BOOLEAN, observer: BOOLEAN]
  /\ session \in {"none", "open", "closed"}
  /\ recorder \in {"idle", "running", "stopped", "lost"}
  /\ leaf \in Leaves
  /\ ends \in [Leaves -> Ends]
  /\ marks \in [Leaves -> SUBSET {"STARTED", "FINISHED"}]
  /\ begun \in BOOLEAN /\ factLost \in BOOLEAN
  /\ errs \subseteq Faults /\ panics \subseteq {"RUNNER", "CLOSE"}
  /\ result \in Results

\* Execute has returned to its caller, and not panicked.
Returned == pc = "done" /\ panics = {}

\* However Execute ends -- refusals, a half-made session, errors, panics of
\* the driver or of Close -- it leaves no browser open and no recorder
\* running (the deferred Stop and Close, closeSession for a partial session).
ResourcesReturned ==
  pc = "done" => session # "open" /\ recorder # "running"

\* The behaviour of a leaf runs only inside an open session and, where a
\* recorder is configured, inside its recording.
NothingRunsOutside ==
  [][ends' # ends =>
       session = "open" /\ (setup.recorder => recorder = "running")]_vars

\* NOT_STARTED is said only of a run of which no leaf touched the page, also
\* when it is the timeline of a later leaf that failed
\* (LeafExecutionStarted in runProgram).
NotStartedMeansUntouched ==
  Returned /\ result.execution = "NOT_STARTED" =>
    \A l \in Leaves : ends[l] = "none"

\* Recorder, timeline, observer and browser clean-up never fail a run all of
\* whose leaves landed and all of whose facts are written
\* (LeafExecutionError, and the named results of the deferred clean-ups).
TelemetryNeverFailsARun ==
  Returned /\ ~factLost /\ (\A l \in Leaves : ends[l] = "landed") =>
    result.execution = "SUCCEEDED"

\* SUCCEEDED is never said of a run in which a leaf failed, was canceled or
\* lost a fact, also when a completion write of that same leaf failed.
SuccessIsUntarnished ==
  Returned /\ result.execution = "SUCCEEDED" =>
    ~factLost /\ \A l \in Leaves : ends[l] \in {"none", "landed"}

\* A leaf acts only after all its predecessors landed: the tree stops at the
\* first error, whoever raised it.
StopsAtTheFirstError ==
  \A l \in Leaves : ends[l] # "none" =>
    \A k \in 1..(l - 1) : ends[k] = "landed"

\* The evidence axes tell the truth: a recording called SUCCEEDED is one
\* whose recorder was stopped, and a timeline called COMPLETE has both marks
\* of every leaf that acted.
EvidenceIsTold ==
  Returned =>
    /\ result.recording = "SUCCEEDED" <=> recorder = "stopped"
    /\ result.timeline = "COMPLETE" =>
         \A l \in Leaves : ends[l] # "none" => marks[l] = {"STARTED", "FINISHED"}

\* "An engine that reached SUCCEEDED means the external side effects already
\* landed" (entry_completion.go): every leaf of the program ran.
SuccessMeansEveryLeafRan ==
  Returned /\ result.execution = "SUCCEEDED" =>
    \A l \in Leaves : ends[l] = "landed"

\* What Execute reports is what happened: the tree stopped at its first error,
\* an untouched page is the only NOT_STARTED, telemetry fails no run, a failure or a lost fact is never a
\* success, and the evidence axes say what was recorded.
ReportIsTrue ==
  /\ TypeOK
  /\ StopsAtTheFirstError
  /\ NotStartedMeansUntouched
  /\ TelemetryNeverFailsARun
  /\ SuccessIsUntarnished
  /\ EvidenceIsTold
=============================================================================
