--------------------------- MODULE EntryRun_proofs ---------------------------
(***************************************************************************)
(* Proofs about one entry's run.  First, that the safety properties of     *)
(* EntryRun hold for a program of any number of leaves, under every choice *)
(* of optional ports.  Then, that the numbers, the facts and the selector  *)
(* overlay of NodeRun are sound, for every compiled tree of any size and   *)
(* depth, any number of repetitions and attempts, and every list of        *)
(* selectors.                                                              *)
(***************************************************************************)
EXTENDS EntryRun, NodeRun, FiniteSetTheorems, SequenceTheorems, WellFoundedInduction, TLAPS

Early == {"authorize", "create", "check", "run", "record"}
InTree == {"root", "leaf", "act", "complete", "terminal", "outcome"}
Late == {"stop", "close", "done"}

RunnerPanic == "RUNNER" \in panics

\* Which host resources the call holds at each of its places.
Holding ==
  /\ pc \in {"authorize", "create"} => session = "none"
  /\ pc \in {"check", "run", "record", "stop", "close"} \cup InTree => session = "open"
  /\ pc = "done" => session # "open"
  /\ pc \in Early => recorder = "idle"
  /\ pc \in InTree => recorder = IF setup.recorder THEN "running" ELSE "idle"
  /\ pc \in {"close", "done"} => recorder # "running"

\* The leaves before the one in turn have landed, the ones after it are
\* untouched, and the one in turn is touched by ActLeaf only.
InOrder ==
  /\ \A l \in Leaves : l < leaf => ends[l] = "landed"
  /\ \A l \in Leaves : l > leaf => ends[l] = "none"
  /\ pc \in Early \cup {"root", "leaf", "act"} => ends[leaf] = "none"
  /\ pc = "complete" => ends[leaf] # "none"
  /\ pc \in Early \cup {"root"} => leaf = 1
  /\ leaf > 1 \/ ends[leaf] # "none" \/ pc \in {"act", "complete"} => begun

\* The error on its way up accounts for everything that went wrong, and where
\* the leaf in turn landed it holds nothing but completion writes.
Accounted ==
  /\ panics = {} \/ RunnerPanic \/ pc = "done"
  /\ RunnerPanic => pc \in {"complete"} \cup Late
  /\ RunnerPanic <=> ends[leaf] = "panicked"
  /\ pc \in Early \cup {"root", "leaf", "act"} => errs = {} /\ ~factLost
  /\ factLost => "EVIDENCE" \in errs
  /\ ends[leaf] \in {"failed", "canceled"} => "NODE" \in errs
  /\ pc \in {"complete", "terminal", "outcome"} /\ ends[leaf] = "landed" /\ ~factLost
       => errs \subseteq {"FINISH", "OBSERVE"}

\* The evidence axes follow the recorder and the marks.
Recorded ==
  /\ result.recording = "SUCCEEDED" <=> recorder \in {"running", "stopped"}
  /\ result.timeline = "COMPLETE" => setup.timeline
  /\ setup.timeline =>
       /\ \A l \in Leaves : l < leaf => marks[l] = {"STARTED", "FINISHED"}
       /\ pc \in {"act", "complete"} => marks[leaf] = {"STARTED"}
       /\ pc \in {"terminal", "outcome"} /\ ends[leaf] # "none"
            => "FINISH" \in errs \/ marks[leaf] = {"STARTED", "FINISHED"}
       /\ pc \in Late /\ ~RunnerPanic /\ ends[leaf] # "none"
            => result.timeline # "COMPLETE" \/ marks[leaf] = {"STARTED", "FINISHED"}

\* The execution axis, before and after runProgram reads it off the error.
Judged ==
  /\ pc \in Early \cup InTree => result.execution = "NOT_STARTED"
  /\ pc \in Late /\ ~RunnerPanic =>
       /\ result.execution = "NOT_STARTED" => leaf = 1 /\ ends[leaf] = "none"
       /\ result.execution = "SUCCEEDED" => ~factLost /\ ends[leaf] \in {"none", "landed"}
       /\ ends[leaf] = "landed" /\ ~factLost => result.execution = "SUCCEEDED"

IInv ==
  /\ TypeOK
  /\ Holding
  /\ InOrder
  /\ Accounted
  /\ Recorded
  /\ Judged

-----------------------------------------------------------------------------
(* Each step preserves the inductive invariant.                            *)

\* What a fact write leaves in the error.
LEMMA WritesFactTyped ==
  ASSUME NEW faults \in SUBSET Faults, factLost \in BOOLEAN, WritesFact(faults)
  PROVE  errs' \subseteq Faults /\ factLost' \in BOOLEAN
<1>1. "EVIDENCE" \in Faults /\ "CANCEL" \in Faults
  BY DEF Faults
<1> QED
  BY <1>1 DEF WritesFact

\* A refusal of fence or authority returns before anything is touched.
LEMMA AuthorizeKeeps ==
  ASSUME IInv, Authorize
  PROVE  IInv'
<1>1. TypeOK'
  BY DEF IInv, TypeOK, Places, Faults, Authorize
<1>2. Holding'
  BY DEF IInv, Holding, Early, InTree, Authorize
<1>3. InOrder'
  BY DEF IInv, InOrder, Early, Authorize
<1>4. Accounted'
  BY DEF IInv, Accounted, Early, Late, RunnerPanic, Authorize
<1>5. Recorded'
  BY DEF IInv, InOrder, Recorded, Early, Authorize
<1>6. Judged'
  BY DEF IInv, InOrder, Judged, Early, Authorize
<1> QED
  BY <1>1, <1>2, <1>3, <1>4, <1>5, <1>6 DEF IInv

\* A session is handed to the deferred close, or closed at once.
LEMMA CreateSessionKeeps ==
  ASSUME IInv, CreateSession
  PROVE  IInv'
<1>1. TypeOK'
  BY DEF IInv, TypeOK, Places, Faults, CreateSession
<1>2. Holding'
  BY DEF IInv, Holding, Early, InTree, CreateSession
<1>3. InOrder'
  BY DEF IInv, InOrder, Early, CreateSession
<1>4. Accounted'
  BY DEF IInv, Accounted, Early, Late, RunnerPanic, CreateSession
<1>5. Recorded'
  BY DEF IInv, InOrder, Recorded, Early, CreateSession
<1>6. Judged'
  BY DEF IInv, InOrder, Judged, Early, CreateSession
<1> QED
  BY <1>1, <1>2, <1>3, <1>4, <1>5, <1>6 DEF IInv

\* An invalid session goes to the deferred close.
LEMMA CheckSessionKeeps ==
  ASSUME IInv, CheckSession
  PROVE  IInv'
<1>1. TypeOK'
  BY DEF IInv, TypeOK, Places, Faults, CheckSession
<1>2. Holding'
  BY DEF IInv, Holding, Early, InTree, CheckSession
<1>3. InOrder'
  BY DEF IInv, InOrder, Early, CheckSession
<1>4. Accounted'
  BY DEF IInv, Accounted, Early, Late, RunnerPanic, CheckSession
<1>5. Recorded'
  BY DEF IInv, InOrder, Recorded, Early, CheckSession
<1>6. Judged'
  BY DEF IInv, InOrder, Judged, Early, CheckSession
<1> QED
  BY <1>1, <1>2, <1>3, <1>4, <1>5, <1>6 DEF IInv

\* Nothing that precedes the recorder has an effect.
LEMMA EnterEngineKeeps ==
  ASSUME IInv, EnterEngine
  PROVE  IInv'
<1>1. TypeOK'
  BY DEF IInv, TypeOK, Places, Faults, EnterEngine
<1>2. Holding'
  BY DEF IInv, Holding, Early, InTree, EnterEngine
<1>3. InOrder'
  BY DEF IInv, InOrder, Early, EnterEngine
<1>4. Accounted'
  BY DEF IInv, Accounted, Early, Late, RunnerPanic, EnterEngine
<1>5. Recorded'
  BY DEF IInv, InOrder, Recorded, Early, EnterEngine
<1>6. Judged'
  BY DEF IInv, InOrder, Judged, Early, EnterEngine
<1> QED
  BY <1>1, <1>2, <1>3, <1>4, <1>5, <1>6 DEF IInv

\* The tree runs only inside a recording, where one is configured.
LEMMA StartRecorderKeeps ==
  ASSUME IInv, StartRecorder
  PROVE  IInv'
<1>1. TypeOK'
  <2>1. result \in Results
    BY DEF IInv, TypeOK
  <2>2. result' \in Results
    <3>1. CASE StartFails
      BY <2>1, <3>1 DEF Results, StartFails
    <3>2. CASE StartsWithoutTimeline
      BY <2>1, <3>2 DEF Results, StartsWithoutTimeline
    <3>3. CASE Starts
      BY <2>1, <3>3 DEF Results, Starts
    <3> QED
      BY <3>1, <3>2, <3>3 DEF StartRecorder
  <2>3. /\ pc' \in Places /\ errs' \subseteq Faults
        /\ recorder' \in {"idle", "running", "stopped", "lost"}
    BY DEF IInv, TypeOK, Places, Faults, StartRecorder, StartFails,
        StartsWithoutTimeline, Starts
  <2> QED
    BY <2>2, <2>3 DEF IInv, TypeOK, StartRecorder
<1>2. Holding'
  BY DEF IInv, Holding, Early, InTree, StartRecorder, StartFails,
      StartsWithoutTimeline, Starts
<1>3. InOrder'
  BY DEF IInv, InOrder, Early, StartRecorder, StartFails, StartsWithoutTimeline, Starts
<1>4. Accounted'
  BY DEF IInv, Accounted, Early, Late, RunnerPanic, StartRecorder, StartFails,
      StartsWithoutTimeline, Starts
<1>5. Recorded'
  <2>1. /\ pc = "record" /\ recorder = "idle" /\ result \in Results
        /\ result.recording # "SUCCEEDED"
        /\ UNCHANGED <<setup, leaf, ends, marks, panics>>
    BY DEF IInv, TypeOK, Holding, Recorded, Early, StartRecorder
  <2>2. CASE StartFails
    BY <2>1, <2>2 DEF IInv, Recorded, Late, Results, StartFails
  <2>3. CASE StartsWithoutTimeline
    BY <2>1, <2>3 DEF IInv, Recorded, Late, Results, StartsWithoutTimeline
  <2>4. CASE Starts
    BY <2>1, <2>4 DEF IInv, Recorded, Late, Results, Starts
  <2> QED
    BY <2>2, <2>3, <2>4 DEF StartRecorder
<1>6. Judged'
  BY DEF IInv, TypeOK, InOrder, Judged, Results, Early, StartRecorder, StartFails,
      StartsWithoutTimeline, Starts
<1> QED
  BY <1>1, <1>2, <1>3, <1>4, <1>5, <1>6 DEF IInv

\* Without its RUNNING fact the workflow runs no leaf.
LEMMA BeginRootKeeps ==
  ASSUME IInv, BeginRoot
  PROVE  IInv'
<1>1. TypeOK'
  BY DEF IInv, TypeOK, Places, Faults, BeginRoot, WritesFact
<1>2. Holding'
  BY DEF IInv, Holding, Early, InTree, BeginRoot
<1>3. InOrder'
  BY DEF IInv, InOrder, BeginRoot
<1>4. Accounted'
  BY DEF IInv, Accounted, Early, Late, RunnerPanic, BeginRoot, WritesFact
<1>5. Recorded'
  BY DEF IInv, InOrder, Recorded, BeginRoot
<1>6. Judged'
  BY DEF IInv, Judged, InTree, Late, BeginRoot
<1> QED
  BY <1>1, <1>2, <1>3, <1>4, <1>5, <1>6 DEF IInv

\* A leaf acts only after its RUNNING fact and its STARTED mark.
LEMMA BeginLeafKeeps ==
  ASSUME IInv, BeginLeaf
  PROVE  IInv'
<1>1. TypeOK'
  <2>1. {} \subseteq Faults /\ {"CANCEL"} \subseteq Faults /\ {"START"} \subseteq Faults
        /\ {"START", "CANCEL"} \subseteq Faults /\ {"EVIDENCE"} \subseteq Faults
        /\ {"EVIDENCE", "CANCEL"} \subseteq Faults
    BY DEF Faults
  <2>2. /\ pc' \in {"terminal", "act"}
        /\ errs' \subseteq Faults /\ begun' \in BOOLEAN /\ factLost' \in BOOLEAN
    BY <2>1, WritesFactTyped DEF IInv, TypeOK, BeginLeaf, PaceCanceled, RunningFactLost,
        StartMarkLost, LeafBegins
  <2>3. marks' \in [Leaves -> SUBSET {"STARTED", "FINISHED"}]
    BY DEF IInv, TypeOK, BeginLeaf, PaceCanceled, RunningFactLost, StartMarkLost,
        LeafBegins
  <2> QED
    BY <2>2, <2>3 DEF IInv, TypeOK, Places, BeginLeaf
<1>2. Holding'
  BY DEF IInv, Holding, Early, InTree, BeginLeaf, PaceCanceled, RunningFactLost,
      StartMarkLost, LeafBegins
<1>3. InOrder'
  BY DEF IInv, InOrder, Early, BeginLeaf, PaceCanceled, RunningFactLost, StartMarkLost,
      LeafBegins
<1>4. Accounted'
  BY DEF IInv, InOrder, Accounted, Early, RunnerPanic, BeginLeaf, PaceCanceled,
      RunningFactLost, StartMarkLost, LeafBegins, WritesFact
<1>5. Recorded'
  BY LeafCountAssumption
  DEF IInv, TypeOK, InOrder, Recorded, BeginLeaf, PaceCanceled, RunningFactLost,
      StartMarkLost, LeafBegins
<1>6. Judged'
  BY DEF IInv, Judged, InTree, Late, BeginLeaf, PaceCanceled, RunningFactLost,
      StartMarkLost, LeafBegins
<1> QED
  BY <1>1, <1>2, <1>3, <1>4, <1>5, <1>6 DEF IInv

\* The error of a leaf says whether it failed or lost its fact.
LEMMA ActLeafKeeps ==
  ASSUME IInv, ActLeaf
  PROVE  IInv'
<1>1. TypeOK'
  <2>1. {} \subseteq Faults /\ {"NODE"} \subseteq Faults /\ {"NODE", "CANCEL"} \subseteq Faults
    BY DEF Faults
  <2>2. errs' \subseteq Faults /\ factLost' \in BOOLEAN
    BY <2>1, WritesFactTyped DEF IInv, TypeOK, ActLeaf
  <2>3. ends' \in [Leaves -> Ends] /\ panics' \subseteq {"RUNNER", "CLOSE"}
    BY DEF IInv, TypeOK, Ends, ActLeaf
  <2> QED
    BY <2>2, <2>3 DEF IInv, TypeOK, Places, ActLeaf
<1>2. Holding'
  BY DEF IInv, Holding, Early, InTree, ActLeaf
<1>3. InOrder'
  BY LeafCountAssumption DEF IInv, TypeOK, InOrder, Early, ActLeaf
<1>4. Accounted'
  <2>1. /\ pc' = "complete" /\ leaf' = leaf
        /\ panics = {} /\ errs = {} /\ ~factLost
    BY DEF IInv, Accounted, RunnerPanic, Late, ActLeaf
  <2>2. CASE ends' = [ends EXCEPT ![leaf] = "landed"] /\ WritesFact({}) /\ UNCHANGED panics
    BY <2>1, <2>2 DEF IInv, TypeOK, Accounted, RunnerPanic, Early, Late, WritesFact
  <2>3. CASE ends' = [ends EXCEPT ![leaf] = "failed"] /\ WritesFact({"NODE"}) /\ UNCHANGED panics
    BY <2>1, <2>3 DEF IInv, TypeOK, Accounted, RunnerPanic, Early, Late, WritesFact
  <2>4. CASE /\ ends' = [ends EXCEPT ![leaf] = "canceled"]
             /\ WritesFact({"NODE", "CANCEL"}) /\ UNCHANGED panics
    BY <2>1, <2>4 DEF IInv, TypeOK, Accounted, RunnerPanic, Early, Late, WritesFact
  <2>5. CASE /\ ends' = [ends EXCEPT ![leaf] = "panicked"]
             /\ panics' = {"RUNNER"} /\ UNCHANGED <<errs, factLost>>
    BY <2>1, <2>5 DEF IInv, TypeOK, Accounted, RunnerPanic, Early, Late
  <2> QED
    BY <2>2, <2>3, <2>4, <2>5 DEF ActLeaf
<1>5. Recorded'
  BY DEF IInv, Recorded, Late, ActLeaf
<1>6. Judged'
  BY DEF IInv, Judged, InTree, Late, ActLeaf
<1> QED
  BY <1>1, <1>2, <1>3, <1>4, <1>5, <1>6 DEF IInv

\* The workflow goes on to the next leaf only without an error.
LEMMA CompleteLeafKeeps ==
  ASSUME IInv, CompleteLeaf
  PROVE  IInv'
<1>1. TypeOK'
  BY LeafCountAssumption
  DEF IInv, TypeOK, Places, Faults, Leaves, CompleteLeaf, CompletionFaults,
      AfterLeaf
<1>2. Holding'
  BY DEF IInv, Holding, Early, InTree, CompleteLeaf, AfterLeaf
<1>3. InOrder'
  <2>1. /\ pc' \in {"stop", "terminal", "leaf"}
        /\ UNCHANGED <<ends, begun, panics>>
    BY DEF CompleteLeaf, AfterLeaf
  <2>2. CASE pc' # "leaf"
    BY <2>1, <2>2 DEF IInv, InOrder, CompleteLeaf, Early
  <2>3. CASE pc' = "leaf"
    <3>1. leaf' = leaf + 1 /\ leaf < LeafCount /\ errs' = {} /\ panics = {}
      BY <2>3 DEF CompleteLeaf, AfterLeaf
    <3>2. errs = {}
      BY <3>1 DEF CompleteLeaf
    <3>3. ends[leaf] = "landed" /\ begun
      BY <3>1, <3>2 DEF IInv, TypeOK, Ends, InOrder, Accounted, RunnerPanic, CompleteLeaf
    <3> QED
      BY <2>1, <2>3, <3>1, <3>3, LeafCountAssumption
      DEF IInv, TypeOK, Leaves, InOrder, Early
  <2> QED
    BY <2>2, <2>3
<1>4. Accounted'
  <2>1. /\ pc = "complete" /\ UNCHANGED <<ends, panics, factLost>>
        /\ errs \subseteq errs' /\ errs' \subseteq errs \cup {"FINISH", "OBSERVE"}
        /\ pc' = AfterLeaf(errs') /\ leaf' = IF pc' = "leaf" THEN leaf + 1 ELSE leaf
    BY DEF CompleteLeaf, CompletionFaults
  <2>2. CASE pc' # "leaf"
    <3>1. pc' \in {"stop", "terminal"} /\ leaf' = leaf /\ (panics # {} => pc' = "stop")
      BY <2>1, <2>2 DEF AfterLeaf
    <3> QED
      BY <2>1, <3>1 DEF IInv, Accounted, RunnerPanic, Early, Late
  <2>3. CASE pc' = "leaf"
    <3>1. leaf' = leaf + 1 /\ leaf < LeafCount /\ errs' = {} /\ panics = {}
      BY <2>1, <2>3 DEF AfterLeaf
    <3>2. leaf \in Nat /\ leaf + 1 \in Leaves /\ leaf + 1 > leaf
      BY <3>1, LeafCountAssumption DEF IInv, TypeOK, Leaves
    <3>3. ends[leaf + 1] = "none"
      BY <3>2 DEF IInv, InOrder
    <3>4. ~factLost /\ errs = {}
      BY <2>1, <3>1 DEF IInv, Accounted
    <3> QED
      BY <2>1, <2>3, <3>1, <3>3, <3>4 DEF Accounted, RunnerPanic, Early, Late
  <2> QED
    BY <2>2, <2>3
<1>5. Recorded'
  BY DEF IInv, TypeOK, Accounted, Recorded, Leaves, Late, RunnerPanic, CompleteLeaf,
      CompletionFaults, AfterLeaf
<1>6. Judged'
  BY DEF IInv, Accounted, Judged, InTree, Late, RunnerPanic, CompleteLeaf, AfterLeaf
<1> QED
  BY <1>1, <1>2, <1>3, <1>4, <1>5, <1>6 DEF IInv

\* The workflow's terminal fact adds to the error and takes nothing away.
LEMMA EndRootKeeps ==
  ASSUME IInv, EndRoot
  PROVE  IInv'
<1>1. TypeOK'
  BY DEF IInv, TypeOK, Places, Faults, EndRoot, WritesFact
<1>2. Holding'
  BY DEF IInv, Holding, Early, InTree, EndRoot
<1>3. InOrder'
  BY DEF IInv, InOrder, Early, EndRoot
<1>4. Accounted'
  BY DEF IInv, Accounted, Early, Late, RunnerPanic, EndRoot, WritesFact
<1>5. Recorded'
  BY DEF IInv, Recorded, Late, EndRoot, WritesFact
<1>6. Judged'
  BY DEF IInv, Judged, InTree, Late, EndRoot
<1> QED
  BY <1>1, <1>2, <1>3, <1>4, <1>5, <1>6 DEF IInv

\* The outcome axes are read off an error that accounts for every leaf.
LEMMA OutcomeKeeps ==
  ASSUME IInv, Outcome
  PROVE  IInv'
<1>1. TypeOK'
  <2>1. ExecutionOf(errs) \in ExecutionOutcomes \ {"INTERRUPTED"}
    BY DEF ExecutionOf, executionOutcome, ExecutionOutcomes
  <2>2. result \in Results
    BY DEF IInv, TypeOK
  <2>3. TimelineOf(errs) \in {"DISABLED", "COMPLETE", "START_FAILED", "FINISH_FAILED"}
    BY <2>2 DEF TimelineOf, Results
  <2>4. [result EXCEPT !.execution = ExecutionOf(errs), !.timeline = TimelineOf(errs)] \in Results
    BY <2>1, <2>2, <2>3 DEF Results
  <2> QED
    BY <2>4 DEF IInv, TypeOK, Places, Outcome
<1>2. Holding'
  BY DEF IInv, Holding, Early, InTree, Outcome
<1>3. InOrder'
  BY DEF IInv, InOrder, Early, Outcome
<1>4. Accounted'
  BY DEF IInv, Accounted, Early, Late, RunnerPanic, Outcome
<1>5. Recorded'
  BY DEF IInv, Recorded, Outcome, TimelineOf
<1>6. Judged'
  <2>1. /\ panics = {} /\ panics' = {} /\ pc' = "stop"
        /\ UNCHANGED <<leaf, ends, factLost>>
        /\ result'.execution = ExecutionOf(errs)
    BY DEF IInv, TypeOK, Results, Accounted, RunnerPanic, Late, Outcome
  <2>2. ExecutionOf(errs) = "NOT_STARTED" => leaf = 1 /\ ends[leaf] = "none"
    BY DEF IInv, TypeOK, InOrder, Leaves, ExecutionOf, executionOutcome
  <2>3. ExecutionOf(errs) = "SUCCEEDED" => LeafExecutionError(errs) = {}
    BY DEF ExecutionOf, executionOutcome
  <2>4. LeafExecutionError(errs) = {} => ~factLost /\ ends[leaf] \in {"none", "landed"}
    BY <2>1 DEF IInv, TypeOK, Accounted, RunnerPanic, Ends, LeafExecutionError
  <2>5. ASSUME ends[leaf] = "landed", ~factLost
        PROVE  ExecutionOf(errs) = "SUCCEEDED"
    <3>1. errs \subseteq {"FINISH", "OBSERVE"}
      BY <2>5 DEF IInv, Accounted, Outcome
    <3>2. LeafExecutionError(errs) = {} /\ "START" \notin errs
      BY <3>1 DEF LeafExecutionError
    <3> QED
      BY <3>2 DEF ExecutionOf, executionOutcome
  <2> QED
    BY <2>1, <2>2, <2>3, <2>4, <2>5 DEF Judged, Early, InTree
<1> QED
  BY <1>1, <1>2, <1>3, <1>4, <1>5, <1>6 DEF IInv

\* The deferred Stop touches the recording axis only.
LEMMA StopRecorderKeeps ==
  ASSUME IInv, StopRecorder
  PROVE  IInv'
<1>1. TypeOK'
  BY DEF IInv, TypeOK, Places, Faults, Results, StopRecorder
<1>2. Holding'
  BY DEF IInv, Holding, Early, InTree, StopRecorder
<1>3. InOrder'
  BY DEF IInv, InOrder, Early, StopRecorder
<1>4. Accounted'
  BY DEF IInv, Accounted, Early, Late, RunnerPanic, StopRecorder
<1>5. Recorded'
  BY DEF IInv, TypeOK, Recorded, Results, Late, RunnerPanic, StopRecorder
<1>6. Judged'
  BY DEF IInv, TypeOK, Judged, Results, Early, InTree, Late, RunnerPanic, StopRecorder
<1> QED
  BY <1>1, <1>2, <1>3, <1>4, <1>5, <1>6 DEF IInv

\* The deferred Close touches no axis.
LEMMA CloseSessionKeeps ==
  ASSUME IInv, CloseSession
  PROVE  IInv'
<1>1. TypeOK'
  BY DEF IInv, TypeOK, Places, Faults, CloseSession
<1>2. Holding'
  BY DEF IInv, Holding, Early, InTree, CloseSession
<1>3. InOrder'
  BY DEF IInv, InOrder, Early, CloseSession
<1>4. Accounted'
  BY DEF IInv, Accounted, Early, Late, RunnerPanic, CloseSession
<1>5. Recorded'
  BY DEF IInv, Recorded, Late, RunnerPanic, CloseSession
<1>6. Judged'
  BY DEF IInv, Judged, Early, InTree, Late, RunnerPanic, CloseSession
<1> QED
  BY <1>1, <1>2, <1>3, <1>4, <1>5, <1>6 DEF IInv

-----------------------------------------------------------------------------
(* The invariant and what follows from it.                                 *)

\* A call that has not begun holds nothing and has touched nothing.
LEMMA InitEstablishes == Init => IInv
<1> SUFFICES ASSUME Init PROVE IInv
  OBVIOUS
<1>1. 1 \in Leaves /\ leaf = 1
  BY LeafCountAssumption DEF Leaves, Init
<1>2. result.execution = "NOT_STARTED" /\ result.recording = "DISABLED"
      /\ result.timeline = "DISABLED" /\ result \in Results
  BY DEF Init, NotStarted, Results, ExecutionOutcomes
<1>3. TypeOK
  BY <1>1, <1>2 DEF Init, TypeOK, Places, Ends
<1>4. Holding /\ InOrder /\ Accounted
  BY <1>1, LeafCountAssumption
  DEF Init, Holding, InOrder, Accounted, RunnerPanic, Leaves, Early, InTree, Late
<1>5. Recorded /\ Judged
  BY <1>1, <1>2, LeafCountAssumption
  DEF Init, Recorded, Judged, Leaves, Early, InTree, Late
<1> QED
  BY <1>3, <1>4, <1>5 DEF IInv

\* Every step of the call preserves the invariant.
LEMMA StepPreserves == IInv /\ [Next]_vars => IInv'
<1> SUFFICES ASSUME IInv, [Next]_vars PROVE IInv'
  OBVIOUS
<1>1. CASE UNCHANGED vars
  BY <1>1 DEF vars, IInv, TypeOK, Holding, InOrder, Accounted, Recorded, Judged, RunnerPanic
<1>2. CASE Authorize \/ CreateSession \/ CheckSession \/ EnterEngine \/ StartRecorder
  BY <1>2, AuthorizeKeeps, CreateSessionKeeps, CheckSessionKeeps, EnterEngineKeeps,
     StartRecorderKeeps
<1>3. CASE BeginRoot \/ BeginLeaf \/ ActLeaf \/ CompleteLeaf \/ EndRoot
  BY <1>3, BeginRootKeeps, BeginLeafKeeps, ActLeafKeeps, CompleteLeafKeeps, EndRootKeeps
<1>4. CASE Outcome \/ StopRecorder \/ CloseSession
  BY <1>4, OutcomeKeeps, StopRecorderKeeps, CloseSessionKeeps
<1> QED
  BY <1>1, <1>2, <1>3, <1>4 DEF Next

\* The inductive invariant holds in every execution of an entry.
THEOREM InvariantHolds == Spec => []IInv
<1> QED
  BY InitEstablishes, StepPreserves, PTL DEF Spec

\* What the call holds and reports keeps its type; the outcome is always one
\* that RunProgram may report.
THEOREM TypesHold == Spec => []TypeOK
<1>1. IInv => TypeOK
  BY DEF IInv
<1> QED
  BY <1>1, InvariantHolds, PTL

\* However the call ends, no browser is left open and no recorder running.
THEOREM EverythingIsReturned == Spec => []ResourcesReturned
<1>1. IInv => ResourcesReturned
  BY DEF IInv, Holding, ResourcesReturned
<1> QED
  BY <1>1, InvariantHolds, PTL

\* The tree stops at the first error, with any number of leaves.
THEOREM FirstErrorStops == Spec => []StopsAtTheFirstError
<1>1. ASSUME IInv PROVE StopsAtTheFirstError
  <2> SUFFICES ASSUME NEW l \in Leaves, ends[l] # "none", NEW k \in 1..(l - 1)
               PROVE  ends[k] = "landed"
    BY DEF StopsAtTheFirstError
  <2>1. l <= leaf
    BY <1>1, LeafCountAssumption DEF IInv, TypeOK, InOrder, Leaves
  <2>2. k \in Leaves /\ k < leaf
    BY <1>1, <2>1, LeafCountAssumption DEF IInv, TypeOK, Leaves
  <2> QED
    BY <1>1, <2>2 DEF IInv, InOrder
<1> QED
  BY <1>1, InvariantHolds, PTL

\* NOT_STARTED is reported of untouched pages only.
THEOREM NotStartedIsTrue == Spec => []NotStartedMeansUntouched
<1>1. ASSUME IInv PROVE NotStartedMeansUntouched
  <2> SUFFICES ASSUME Returned, result.execution = "NOT_STARTED", NEW l \in Leaves
               PROVE  ends[l] = "none"
    BY DEF NotStartedMeansUntouched
  <2>1. leaf = 1 /\ ends[leaf] = "none"
    BY <1>1 DEF IInv, Judged, Returned, RunnerPanic, Late
  <2> QED
    BY <1>1, <2>1, LeafCountAssumption DEF IInv, InOrder, Leaves
<1> QED
  BY <1>1, InvariantHolds, PTL

\* A run whose leaves all landed and whose facts are written is SUCCEEDED,
\* whatever became of recorder, timeline, observer and browser.
THEOREM TelemetryIsHarmless == Spec => []TelemetryNeverFailsARun
<1>1. ASSUME IInv PROVE TelemetryNeverFailsARun
  BY <1>1 DEF IInv, TypeOK, Judged, Returned, RunnerPanic, Late, TelemetryNeverFailsARun
<1> QED
  BY <1>1, InvariantHolds, PTL

\* SUCCEEDED hides no leaf that failed and no fact that was lost.
THEOREM SuccessIsTrue == Spec => []SuccessIsUntarnished
<1>1. ASSUME IInv PROVE SuccessIsUntarnished
  <2> SUFFICES ASSUME Returned, result.execution = "SUCCEEDED"
               PROVE  ~factLost /\ \A l \in Leaves : ends[l] \in {"none", "landed"}
    BY DEF SuccessIsUntarnished
  <2>1. ~factLost /\ ends[leaf] \in {"none", "landed"}
    BY <1>1 DEF IInv, Judged, Returned, RunnerPanic, Late
  <2> QED
    BY <1>1, <2>1, LeafCountAssumption DEF IInv, TypeOK, InOrder, Leaves
<1> QED
  BY <1>1, InvariantHolds, PTL

\* The recording and timeline axes say what was recorded.
THEOREM EvidenceIsTrue == Spec => []EvidenceIsTold
<1>1. ASSUME IInv PROVE EvidenceIsTold
  <2> SUFFICES ASSUME Returned
               PROVE  /\ result.recording = "SUCCEEDED" <=> recorder = "stopped"
                      /\ result.timeline = "COMPLETE" =>
                           \A l \in Leaves :
                             ends[l] # "none" => marks[l] = {"STARTED", "FINISHED"}
    BY DEF EvidenceIsTold
  <2>1. result.recording = "SUCCEEDED" <=> recorder = "stopped"
    BY <1>1 DEF IInv, Holding, Recorded, Returned
  <2>2. ASSUME result.timeline = "COMPLETE", NEW l \in Leaves, ends[l] # "none"
        PROVE  marks[l] = {"STARTED", "FINISHED"}
    <3>1. l <= leaf
      BY <1>1, <2>2, LeafCountAssumption DEF IInv, TypeOK, InOrder, Leaves
    <3>2. CASE l = leaf
      BY <1>1, <2>2, <3>2 DEF IInv, Recorded, Returned, RunnerPanic, Late
    <3>3. CASE l < leaf
      BY <1>1, <2>2, <3>3 DEF IInv, Recorded
    <3> QED
      BY <1>1, <3>1, <3>2, <3>3, LeafCountAssumption DEF IInv, TypeOK, Leaves
  <2> QED
    BY <2>1, <2>2
<1> QED
  BY <1>1, InvariantHolds, PTL

\* No leaf acts outside an open session or outside a configured recording.
THEOREM NothingIsOutside == Spec => NothingRunsOutside
<1>1. ASSUME IInv, Next, ends' # ends
      PROVE  session = "open" /\ (setup.recorder => recorder = "running")
  <2>1. ActLeaf
    BY <1>1 DEF Next, Authorize, CreateSession, CheckSession, EnterEngine,
       StartRecorder, BeginRoot, BeginLeaf, CompleteLeaf, EndRoot, Outcome,
       StopRecorder, CloseSession
  <2> QED
    BY <1>1, <2>1 DEF IInv, Holding, InTree, ActLeaf
<1>2. IInv /\ [Next]_vars =>
        [ends' # ends => session = "open" /\ (setup.recorder => recorder = "running")]_vars
  BY <1>1 DEF vars
<1> QED
  BY <1>2, InvariantHolds, PTL DEF Spec, NothingRunsOutside

\* What Execute reports of a run is what happened in it (Executor.Execute, runProgram).
THEOREM ReportsAreTrue == Spec => []ReportIsTrue
<1> QED
  BY TypesHold, FirstErrorStops, NotStartedIsTrue, TelemetryIsHarmless, SuccessIsTrue, EvidenceIsTrue,
     PTL
  DEF ReportIsTrue

-----------------------------------------------------------------------------
(* The tree of nodes.                                                      *)

Known == Selectors \cup UNION {ToSet(Canonical[s]) : s \in Specs}
Live == {"RUNNING", "HEALING", "TRANSITIONING", "VALIDATING"}
Names == Ids \X (Nat \ {0})
Frames == [node : Nodes, occ : Nat \ {0}, phase : Live, at : FramePlaces,
           kid : Nat \ {0}, round : Nat, tries : Nat]
FactSet == [phase : Phases, under : Names \cup {NoOne}]

Name(k) == <<IdOf[stack[k].node], stack[k].occ>>

\* The shape of the state, in full.
Typed ==
  /\ canceled \in BOOLEAN /\ failing \in BOOLEAN
  /\ stack \in Seq(Frames)
  /\ occurrences \in [Ids -> Nat]
  /\ active \in [Ids -> Seq(Nat)]
  /\ overlay \in [Specs -> Seq(Known)]
  /\ healer \in [Specs -> Names \cup {NoOne}]
  /\ facts \in [Ids -> Seq(FactSet)]
  /\ asked.id \in Ids

\* A repetition or another attempt is made only where one is left.
WithinLimits(f) == f.tries < Attempts /\ f.round \in 1..TimesOf[f.node]

\* Where a frame is tells what it recorded last.
PlaceFits(kind, at, phase) ==
  /\ at = "child" => kind \in Containers /\ phase = "RUNNING"
  /\ at = "locate" => kind = "step" /\ phase = "RUNNING"
  /\ at \in {"recover", "found"} => kind = "step" /\ phase = "HEALING"
  /\ at = "act" =>
       <<kind, phase>> \in {<<"step", "TRANSITIONING">>, <<"direct", "RUNNING">>}
  /\ at = "judge" =>
       <<kind, phase>> \in {<<"wait", "RUNNING">>, <<"validation", "RUNNING">>,
                           <<"validation", "VALIDATING">>}
  /\ at = "finish" => phase # "HEALING"
PlacedAt(f) == PlaceFits(KindOf[f.node], f.at, f.phase)

Placed == \A k \in DOMAIN stack : WithinLimits(stack[k]) /\ PlacedAt(stack[k])

\* A number was counted before a frame had it, and was on record before it was counted.
Counted ==
  /\ \A k \in DOMAIN stack : stack[k].occ <= occurrences[IdOf[stack[k].node]]
  /\ \A i \in Ids : /\ occurrences[i] <= Len(facts[i])
                    /\ ~failing => occurrences[i] = Len(facts[i])

\* What is on record of a frame.
OnRecord ==
  \A k \in DOMAIN stack :
    LET name == Name(k)
        fact == facts[name[1]][name[2]]
    IN /\ fact.phase \notin Live => fact.phase = "SUCCEEDED" /\ name \in lost
       /\ ~failing => fact.phase = stack[k].phase
       /\ fact.under = IF k = 1 THEN NoOne ELSE Name(k - 1)

HealersAreLeaves ==
  \A s \in Specs : overlay[s] # <<>> =>
    /\ healer[s] \in Names
    /\ \A k \in DOMAIN stack :
         Name(k) = healer[s] => KindOf[stack[k].node] \in {"step", "validation"}

NodeIInv == /\ Typed /\ NumbersFollowFrames /\ Counted /\ Placed /\ OnRecord
        /\ SuccessIsEarned /\ HealersAreLeaves /\ OverlayIsSound /\ EffectsAreAnnounced
        /\ CanceledMeansTheRunWas /\ NumbersAreNeverReused /\ OnlyALostSuccessIsContradicted

-----------------------------------------------------------------------------
(* promoteSelector.                                                        *)

\* What holds of 0, and of n + 1 where it holds of n, holds of every number.
LEMMA EveryNumber ==
  ASSUME NEW P, 0 \in P, \A n \in Nat : n \in P => n + 1 \in P
  PROVE  \A n \in Nat : n \in P
<1> DEFINE R == OpToRel(<, Nat)
           T == Nat \ P
<1>1. IsWellFoundedOn(R, Nat)
  BY NatLessThanWellFounded
<1>2. \A x, y \in Nat : <<y, x>> \in R <=> y < x
  BY DEF OpToRel
<1> HIDE DEF R
<1>3. SUFFICES ASSUME T # {} PROVE FALSE
  OBVIOUS
<1>4. PICK x \in T : \A y \in T : ~(<<y, x>> \in R)
  BY <1>1, <1>3, WFMin
<1>5. x \in Nat /\ x \notin P /\ x # 0
  BY <1>4
<1>6. PICK y \in Nat : x = y + 1
  <2>1. x = (x - 1) + 1 /\ x - 1 \in Nat
    BY <1>5
  <2> QED
    BY <2>1
<1>7. y \in T
  BY <1>5, <1>6
<1>8. <<y, x>> \in R
  BY <1>2, <1>5, <1>6
<1> QED
  BY <1>4, <1>7, <1>8

\* The members of a set of places can be listed from the lowest to the highest.
LEMMA PlacesInOrder ==
  ASSUME NEW n \in Nat, NEW S \in SUBSET (1..n)
  PROVE  /\ Cardinality(S) \in Nat
         /\ \E o \in Surjection(1..Cardinality(S), S) :
              \A i, j \in DOMAIN o : i < j => o[i] < o[j]
<1> DEFINE Low(m) == S \cap (1..m)
           Good(m) == /\ IsFiniteSet(Low(m))
                      /\ Cardinality(Low(m)) \in Nat
                      /\ \E o \in Surjection(1..Cardinality(Low(m)), Low(m)) :
                           \A i, j \in 1..Cardinality(Low(m)) : i < j => o[i] < o[j]
           P == {m \in Nat : Good(m)}
<1>1. 0 \in P
  <2>1. Low(0) = {}
    OBVIOUS
  <2>2. IsFiniteSet(Low(0)) /\ Cardinality(Low(0)) = 0
    BY <2>1, FS_EmptySet
  <2>3. <<>> \in Surjection(1..0, {})
    BY DEF Surjection
  <2>4. \A i, j \in 1..0 : i < j => <<>>[i] < <<>>[j]
    OBVIOUS
  <2> QED
    BY <2>1, <2>2, <2>3, <2>4
<1>2. ASSUME NEW m \in Nat, m \in P PROVE m + 1 \in P
  <2>1. CASE m + 1 \notin S
    <3>1. Low(m + 1) = Low(m)
      BY <2>1
    <3>2. Good(m)
      BY <1>2
    <3> HIDE DEF Low
    <3>3. Good(m + 1)
      BY <3>1, <3>2, Zenon
    <3> QED
      BY <3>3
  <2>2. CASE m + 1 \in S
    <3>1. Low(m + 1) = Low(m) \cup {m + 1} /\ m + 1 \notin Low(m) /\ \A x \in Low(m) : x < m + 1
      BY <2>2
    <3>2. \A x \in Low(m) : x \in Int
      OBVIOUS
    <3> DEFINE c == Cardinality(Low(m))
               d == Cardinality(Low(m + 1))
    <3> HIDE DEF Low
    <3>3. c \in Nat /\ IsFiniteSet(Low(m))
      BY <1>2
    <3>4. IsFiniteSet(Low(m + 1)) /\ d = c + 1
      BY <3>1, <3>3, FS_AddElement
    <3>5. PICK o \in Surjection(1..c, Low(m)) : \A i, j \in 1..c : i < j => o[i] < o[j]
      BY <1>2
    <3> HIDE DEF c, d
    <3>6. o \in [1..c -> Low(m)] /\ \A x \in Low(m) : \E i \in 1..c : o[i] = x
      BY <3>5 DEF Surjection
    <3> DEFINE q == [i \in 1..d |-> IF i = d THEN m + 1 ELSE o[i]]
    <3>7. q \in [1..d -> Low(m + 1)]
      BY <3>1, <3>3, <3>4, <3>6
    <3>8. \A x \in Low(m + 1) : \E i \in 1..d : q[i] = x
      <4>1. TAKE x \in Low(m + 1)
      <4>2. CASE x = m + 1
        BY <4>2, <3>3, <3>4
      <4>3. CASE x \in Low(m)
        <5>1. PICK i \in 1..c : o[i] = x
          BY <4>3, <3>6
        <5> QED
          BY <5>1, <3>3, <3>4
      <4> QED
        BY <4>1, <4>2, <4>3, <3>1
    <3>9. \A i, j \in 1..d : i < j => q[i] < q[j]
      <4>1. SUFFICES ASSUME NEW i \in 1..d, NEW j \in 1..d, i < j PROVE q[i] < q[j]
        OBVIOUS
      <4>2. i \in 1..c /\ q[i] = o[i] /\ o[i] \in Low(m)
        BY <4>1, <3>3, <3>4, <3>6
      <4>3. CASE j = d
        BY <4>2, <4>3, <3>1
      <4>4. CASE j # d
        BY <4>1, <4>2, <4>4, <3>3, <3>4, <3>5
      <4> QED
        BY <4>3, <4>4
    <3>10. q \in Surjection(1..d, Low(m + 1))
      BY <3>7, <3>8 DEF Surjection
    <3>11. \E f \in Surjection(1..d, Low(m + 1)) : \A i, j \in 1..d : i < j => f[i] < f[j]
      BY <3>9, <3>10
    <3>12. Good(m + 1)
      BY <3>3, <3>4, <3>11 DEF d
    <3> QED
      BY <3>12
  <2> QED
    BY <2>1, <2>2
<1> HIDE DEF P
<1>3. n \in P
  BY <1>1, <1>2, EveryNumber
<1> USE DEF P
<1>4. Low(n) = S
  OBVIOUS
<1>5. PICK o \in Surjection(1..Cardinality(S), S) :
        \A i, j \in 1..Cardinality(S) : i < j => o[i] < o[j]
  BY <1>3, <1>4
<1>6. DOMAIN o = 1..Cardinality(S)
  BY <1>5 DEF Surjection
<1> QED
  BY <1>3, <1>4, <1>5, <1>6

\* The healed selector comes first and is listed once; the others keep their
\* order, and as often as they were listed (promoteSelector).
LEMMA Promoted ==
  ASSUME NEW S, NEW base \in Seq(S), NEW healed
  PROVE  LET p == promoteSelector(base, healed)
         IN /\ p \in Seq(S \cup {healed}) /\ p # <<>> /\ p[1] = healed
            /\ ToSet(p) = ToSet(base) \cup {healed}
            /\ \A x : Twice(p, x) => Twice(base, x)
<1> DEFINE others == {k \in DOMAIN base : base[k] # healed}
           Fits(o) == \A i, j \in DOMAIN o : i < j => o[i] < o[j]
           order == CHOOSE o \in Surjection(1..Cardinality(others), others) : Fits(o)
           rest == [i \in DOMAIN order |-> base[order[i]]]
           n == Cardinality(others)
<1>1. Len(base) \in Nat /\ DOMAIN base = 1..Len(base) /\ \A k \in DOMAIN base : base[k] \in S
  BY LenProperties, ElementOfSeq
<1>2. n \in Nat /\ \E o \in Surjection(1..n, others) : Fits(o)
  BY <1>1, PlacesInOrder
<1>3. order \in Surjection(1..n, others) /\ Fits(order)
  BY <1>2
<1>4. promoteSelector(base, healed) = <<healed>> \o rest
  BY DEF promoteSelector
<1> HIDE DEF order, n
<1>5. /\ order \in [1..n -> others] /\ DOMAIN order = 1..n
      /\ \A k \in others : \E i \in 1..n : order[i] = k
  BY <1>3 DEF Surjection
<1>6. rest \in Seq(S) /\ Len(rest) = n /\ DOMAIN rest = 1..n
  BY <1>1, <1>2, <1>5
<1>7. \A i \in 1..n : rest[i] = base[order[i]] /\ rest[i] # healed /\ order[i] \in DOMAIN base
  BY <1>5
<1>8. ToSet(base) \subseteq {rest[i] : i \in 1..n} \cup {healed}
  <2>1. SUFFICES ASSUME NEW k \in DOMAIN base, base[k] # healed
                 PROVE  \E i \in 1..n : rest[i] = base[k]
    BY DEF ToSet
  <2> QED
    BY <2>1, <1>5, <1>7
<1> HIDE DEF rest
<1> DEFINE p == <<healed>> \o rest
<1>9. /\ p \in Seq(S \cup {healed}) /\ Len(p) = n + 1 /\ p[1] = healed
      /\ \A i \in 2..n + 1 : p[i] = rest[i - 1]
  <2>1. rest \in Seq(S \cup {healed}) /\ <<healed>> \in Seq(S \cup {healed}) /\ Len(<<healed>>) = 1
    BY <1>6
  <2> QED
    BY <2>1, <1>2, <1>6, ConcatProperties
<1> HIDE DEF p
<1>10. DOMAIN p = 1..n + 1
  BY <1>9, LenProperties
<1>11. ToSet(p) = ToSet(base) \cup {healed}
  <2>1. ASSUME NEW i \in DOMAIN p PROVE p[i] \in ToSet(base) \cup {healed}
    <3>1. CASE i = 1
      BY <3>1, <1>9
    <3>2. CASE i # 1
      <4>1. i - 1 \in 1..n /\ p[i] = rest[i - 1]
        BY <3>2, <2>1, <1>2, <1>9, <1>10
      <4> QED
        BY <4>1, <1>7 DEF ToSet
    <3> QED
      BY <3>1, <3>2
  <2>2. healed \in ToSet(p)
    BY <1>2, <1>9, <1>10 DEF ToSet
  <2>3. ASSUME NEW i \in 1..n PROVE rest[i] \in ToSet(p)
    <3>1. i + 1 \in DOMAIN p /\ p[i + 1] = rest[i]
      BY <1>2, <1>9, <1>10
    <3> QED
      BY <3>1 DEF ToSet
  <2>4. ToSet(p) \subseteq ToSet(base) \cup {healed}
    BY <2>1 DEF ToSet
  <2> QED
    BY <2>2, <2>3, <2>4, <1>8
<1>12. ASSUME NEW x, Twice(p, x) PROVE Twice(base, x)
  <2>1. PICK i, j \in 1..n + 1 : i # j /\ p[i] = x /\ p[j] = x
    BY <1>10, <1>12 DEF Twice
  <2>2. \A k \in 1..n + 1 : k # 1 => k \in 2..n + 1 /\ k - 1 \in 1..n /\ p[k] # p[1]
    <3>1. SUFFICES ASSUME NEW k \in 1..n + 1, k # 1
                   PROVE  k \in 2..n + 1 /\ k - 1 \in 1..n /\ p[k] # p[1]
      OBVIOUS
    <3>2. k \in 2..n + 1 /\ k - 1 \in 1..n
      BY <3>1, <1>2
    <3>3. p[k] = rest[k - 1] /\ rest[k - 1] # healed
      BY <3>2, <1>7, <1>9
    <3> QED
      BY <3>2, <3>3, <1>9
  <2> DEFINE a == i - 1
             b == j - 1
  <2>3. a \in 1..n /\ b \in 1..n /\ a # b /\ rest[a] = x /\ rest[b] = x
    <3>1. i # 1 /\ j # 1
      BY <2>1, <2>2
    <3> QED
      BY <3>1, <2>1, <2>2, <1>2, <1>9
  <2> HIDE DEF a, b
  <2>4. a < b \/ b < a
    BY <2>3, <1>2
  <2>5. order[a] \in 1..Len(base) /\ order[b] \in 1..Len(base) /\ order[a] # order[b]
    BY <2>3, <2>4, <1>1, <1>3, <1>5, <1>7
  <2> QED
    BY <2>3, <2>5, <1>1, <1>7 DEF Twice
<1>13. p # <<>>
  BY <1>9, <1>2
<1>14. promoteSelector(base, healed) = p
  BY <1>4 DEF p
<1> QED
  BY <1>9, <1>11, <1>12, <1>13, <1>14

-----------------------------------------------------------------------------
(* The stack of frames.                                                    *)

\* A list and one more.
LEMMA Longer ==
  ASSUME NEW S, NEW s \in Seq(S), NEW x \in S
  PROVE  /\ Append(s, x) \in Seq(S) /\ Len(Append(s, x)) = Len(s) + 1
         /\ DOMAIN Append(s, x) = 1..Len(s) + 1
         /\ \A k \in 1..Len(s) : Append(s, x)[k] = s[k]
         /\ Append(s, x)[Len(s) + 1] = x
BY AppendProperties, LenProperties

\* A list without its last.
LEMMA Shorter ==
  ASSUME NEW S, NEW s \in Seq(S), s # <<>>
  PROVE  /\ Front(s) \in Seq(S) /\ Len(Front(s)) = Len(s) - 1
         /\ DOMAIN Front(s) = 1..Len(s) - 1
         /\ \A k \in 1..Len(s) - 1 : Front(s)[k] = s[k]
<1>1. PICK n \in Nat : n = Len(s) /\ n >= 1
  BY LenProperties, EmptySeq
<1>2. \A k \in 1..n - 1 : s[k] \in S
  BY <1>1, ElementOfSeq
<1> DEFINE t == SubSeq(s, 1, n - 1)
<1>3. /\ t \in Seq(S) /\ Len(t) = IF 1 <= n - 1 THEN n - 1 ELSE 0
      /\ \A k \in 1..n - 1 : t[k] = s[k]
  BY <1>1, <1>2, SubSeqProperties
<1>4. Front(s) = t
  BY <1>1 DEF Front
<1> HIDE DEF t
<1>5. Len(t) = n - 1 /\ DOMAIN t = 1..n - 1
  BY <1>1, <1>3, LenProperties
<1> QED
  BY <1>1, <1>3, <1>4, <1>5

\* A list of which one changes.
LEMMA Replaced ==
  ASSUME NEW S, NEW s \in Seq(S), NEW i \in 1..Len(s), NEW x \in S
  PROVE  LET t == [s EXCEPT ![i] = x]
         IN /\ t \in Seq(S) /\ Len(t) = Len(s) /\ DOMAIN t = 1..Len(s)
            /\ \A k \in 1..Len(s) : t[k] = IF k = i THEN x ELSE s[k]
BY ExceptSeq, LenProperties

\* The stack, its frames, and the one that runs.
LEMMA StackIs ==
  ASSUME Typed
  PROVE  /\ Len(stack) \in Nat /\ DOMAIN stack = 1..Len(stack)
         /\ \A k \in 1..Len(stack) : stack[k] \in Frames /\ Name(k) \in Names
         /\ stack # <<>> => /\ Len(stack) \in 1..Len(stack) /\ Top \in Frames
                            /\ Top = stack[Len(stack)] /\ Name(Len(stack)) = <<IdOf[Top.node], Top.occ>>
<1>1. /\ Len(stack) \in Nat /\ DOMAIN stack = 1..Len(stack)
      /\ \A k \in 1..Len(stack) : stack[k] \in Frames
  BY LenProperties, ElementOfSeq DEF Typed
<1>2. stack # <<>> => Len(stack) >= 1
  BY <1>1, EmptySeq DEF Typed
<1>3. \A k \in 1..Len(stack) : Name(k) \in Names
  BY <1>1 DEF Name, Names, Frames, Ids
<1> QED
  BY <1>1, <1>2, <1>3 DEF Top, Name

\* The frame that runs has the newest number in force of its identity, which is the
\* last of the list (activeOccurrence, releaseOccurrence).
LEMMA Newest ==
  ASSUME Typed, NumbersFollowFrames, stack # <<>>
  PROVE  LET id == IdOf[Top.node]
         IN /\ id \in Ids /\ Len(stack) \in FramesOf(id)
            /\ active[id] # <<>> /\ active[id] \in Seq(Nat)
            /\ active[id][Len(active[id])] = Top.occ
            /\ EmitOccurrence(id) = Top.occ
            /\ releaseOccurrence(active[id], Top.occ) = Front(active[id])
<1> DEFINE id == IdOf[Top.node]
           a == active[id]
           n == Len(active[id])
<1>1. /\ Len(stack) \in 1..Len(stack) /\ Top = stack[Len(stack)] /\ Top \in Frames
      /\ Len(stack) \in Nat /\ DOMAIN stack = 1..Len(stack)
  BY StackIs
<1>2. id \in Ids /\ Len(stack) \in FramesOf(id)
  BY <1>1 DEF Ids, Frames, FramesOf
<1>3. a \in Seq(Nat) /\ n \in Nat /\ DOMAIN a = 1..n /\ \A k \in 1..n : a[k] \in Nat
  BY <1>2, LenProperties, ElementOfSeq DEF Typed
<1>4. /\ ToSet(a) = {stack[k].occ : k \in FramesOf(id)}
      /\ \A j, k \in DOMAIN a : j < k => a[j] < a[k]
      /\ \A j, k \in FramesOf(id) : j < k => stack[j].occ < stack[k].occ
  BY <1>2 DEF NumbersFollowFrames
<1>5. \A k \in FramesOf(id) : k \in 1..Len(stack) /\ stack[k].occ \in Nat
  BY <1>1, StackIs DEF FramesOf, Frames
<1>6. PICK m \in 1..n : a[m] = Top.occ
  <2>1. Top.occ \in ToSet(a)
    BY <1>1, <1>2, <1>4
  <2> HIDE DEF a
  <2> QED
    BY <2>1, <1>3 DEF ToSet
<1>7. PICK last \in FramesOf(id) : stack[last].occ = a[n]
  <2>1. a[n] \in ToSet(a)
    <3>1. n \in DOMAIN a
      BY <1>3, <1>6
    <3> HIDE DEF a, n
    <3> QED
      BY <3>1 DEF ToSet
  <2> QED
    BY <2>1, <1>4
<1> HIDE DEF id, a, n
<1>8. m = n
  <2>1. a[m] <= a[n]
    BY <1>3, <1>4, <1>6
  <2>2. a[n] <= a[m]
    BY <1>1, <1>2, <1>4, <1>5, <1>6, <1>7
  <2> QED
    BY <2>1, <2>2, <1>3, <1>4, <1>6
<1>9. a # <<>> /\ n >= 1
  BY <1>3, <1>6 DEF n
<1>10. EmitOccurrence(id) = Top.occ
  BY <1>6, <1>8 DEF EmitOccurrence, a, n
<1>11. {k \in DOMAIN a : a[k] = Top.occ} = {n}
  BY <1>3, <1>4, <1>6, <1>8, <1>9
<1>12. releaseOccurrence(a, Top.occ) = RemoveAt(a, n)
  <2>1. (CHOOSE k \in {n} : \A j \in {n} : j <= k) = n
    BY <1>3
  <2> QED
    BY <2>1, <1>11 DEF releaseOccurrence
<1>13. RemoveAt(a, n) = Front(a)
  <2>1. RemoveAt(a, n) = Front(a) \o SubSeq(a, n + 1, n)
    BY DEF RemoveAt, Front, a, n
  <2>2. SubSeq(a, n + 1, n) = <<>>
    BY <1>3, SubSeqProperties, EmptySeq
  <2> QED
    BY <2>1, <2>2, <1>3, <1>9, Shorter, ConcatEmptySeq
<1> QED
  BY <1>2, <1>3, <1>6, <1>8, <1>9, <1>10, <1>12, <1>13 DEF id, a, n

-----------------------------------------------------------------------------
(* The steps: what each action does to the stack, the numbers and the facts. *)

\* Another frame of the same name takes the place of the one that runs.
Turns(phase) ==
  \E f \in Frames :
    /\ f.node = Top.node /\ f.occ = Top.occ /\ f.phase = phase
    /\ WithinLimits(f) /\ PlacedAt(f)
    /\ stack' = Moved(f)

\* No fact is written.
Quiet ==
  /\ UNCHANGED <<occurrences, active, facts, lost, asked>>
  /\ failing => failing'
  /\ stack' = stack \/ (~failing /\ stack # <<>> /\ Turns(Top.phase))

\* An occurrence begins, or the write of its RUNNING fails.
Enters(n, answer) ==
  /\ n \in Nodes /\ answer \in Answers /\ ~failing
  /\ stack # <<>> => KindOf[Top.node] \in Containers
  /\ Enter(n, answer)
  /\ UNCHANGED <<canceled, overlay, staged, healer, effects>>

\* The frame that runs writes another fact, under its own number.
Writes(phase, answer) ==
  /\ stack # <<>> /\ answer \in Answers
  /\ Ask(IdOf[Top.node], Top.occ, Top.occ, phase)
  /\ Sink(IdOf[Top.node], Top.occ, phase, answer)
  /\ IF failing THEN phase = failurePhase(canceled) ELSE phase \in NextPhases(Top.phase)
  /\ failing => failing'
  /\ UNCHANGED <<canceled, occurrences, overlay, staged, healer, effects>>

Pops ==
  /\ active' = [active EXCEPT ![IdOf[Top.node]] = Front(@)]
  /\ stack' \in {Front(stack), Resumed(Front(stack))}

\* It goes on, it does not know whether it may, or it returns.
GoesOn(phase, answer) ==
  ~failing /\ ~failing' /\ answer = "ok" /\ phase \in Live /\ Turns(phase) /\ UNCHANGED active
Sticks(phase, answer) ==
  /\ ~failing /\ failing' /\ answer # "ok" /\ phase \in Live \cup {"SUCCEEDED"}
  /\ UNCHANGED <<active, stack>>
EndsWell(phase, answer) ==
  ~failing /\ ~failing' /\ answer = "ok" /\ phase = "SUCCEEDED" /\ Pops
EndsBadly(phase, answer) ==
  failing' /\ (~failing => phase = "SUCCEEDED" /\ answer # "ok") /\ Pops

Moves(phase, answer) ==
  /\ Writes(phase, answer)
  /\ \/ GoesOn(phase, answer) \/ Sticks(phase, answer)
     \/ EndsWell(phase, answer) \/ EndsBadly(phase, answer)

\* The frame goes to another place, having recorded a phase or not.
LEMMA TurnsTo ==
  ASSUME Compiled, Typed, Placed, stack # <<>>, NEW at \in FramePlaces, NEW phase \in Live,
         stack' = Moved([Top EXCEPT !.phase = phase, !.at = at]),
         PlaceFits(KindOf[Top.node], at, phase)
  PROVE  Turns(phase)
<1>1. Top \in Frames /\ Top = stack[Len(stack)] /\ Len(stack) \in DOMAIN stack
  BY StackIs
<1>2. WithinLimits(Top) /\ PlacedAt(Top)
  BY <1>1 DEF Placed
<1>3. PICK f \in Frames : f = Top
  BY <1>1
<1>4. PICK g : g = [f EXCEPT !.phase = phase, !.at = at]
  OBVIOUS
<1>5. /\ g.node = f.node /\ g.occ = f.occ
      /\ g.phase = phase /\ g.at = at /\ g.tries = f.tries /\ g.round = f.round
  BY <1>4 DEF Frames
<1>6. g \in Frames
  BY <1>4 DEF Frames
<1>7. stack' = Moved(g)
  BY <1>3, <1>4, Zenon
<1>8. WithinLimits(g) /\ PlacedAt(g)
  BY <1>2, <1>3, <1>5 DEF WithinLimits, PlacedAt, Compiled, MayRetry, Frames
<1> QED
  BY <1>3, <1>5, <1>6, <1>7, <1>8 DEF Turns

LEMMA TurnsAt ==
  ASSUME Compiled, Typed, Placed, stack # <<>>, NEW at \in FramePlaces,
         stack' = Moved([Top EXCEPT !.at = at]),
         PlaceFits(KindOf[Top.node], at, Top.phase)
  PROVE  Turns(Top.phase)
<1>1. Top \in Frames /\ Top = stack[Len(stack)] /\ Len(stack) \in DOMAIN stack
  BY StackIs
<1>2. WithinLimits(Top) /\ PlacedAt(Top)
  BY <1>1 DEF Placed
<1>3. PICK f \in Frames : f = Top
  BY <1>1
<1>4. PICK g : g = [f EXCEPT !.at = at]
  OBVIOUS
<1>5. /\ g.node = f.node /\ g.occ = f.occ
      /\ g.phase = f.phase /\ g.at = at /\ g.tries = f.tries /\ g.round = f.round
  BY <1>4 DEF Frames
<1>6. g \in Frames
  BY <1>4 DEF Frames
<1>7. stack' = Moved(g)
  BY <1>3, <1>4, Zenon
<1>8. WithinLimits(g) /\ PlacedAt(g)
  BY <1>2, <1>3, <1>5 DEF WithinLimits, PlacedAt, Compiled, MayRetry, Frames
<1> QED
  BY <1>3, <1>5, <1>6, <1>7, <1>8 DEF Turns

\* It tries once more, or begins another round, where one is left.
LEMMA TurnsToTry ==
  ASSUME Compiled, Typed, Placed, stack # <<>>,
         stack' = Moved([Top EXCEPT !.tries = Top.tries + 1]),
         MayRetry(Top.tries)
  PROVE  Turns(Top.phase)
<1>1. Top \in Frames /\ Top = stack[Len(stack)] /\ Len(stack) \in DOMAIN stack
  BY StackIs
<1>2. WithinLimits(Top) /\ PlacedAt(Top)
  BY <1>1 DEF Placed
<1>3. PICK f \in Frames : f = Top
  BY <1>1
<1>4. PICK g : g = [f EXCEPT !.tries = f.tries + 1]
  OBVIOUS
<1>5. /\ g.node = f.node /\ g.occ = f.occ
      /\ g.phase = f.phase /\ g.at = f.at /\ g.tries = f.tries + 1 /\ g.round = f.round
  BY <1>4 DEF Frames
<1>6. g \in Frames
  <2>1. f.tries + 1 \in Nat
    BY DEF Frames
  <2> QED
    BY <2>1, <1>4, Zenon DEF Frames
<1>7. stack' = Moved(g)
  BY <1>3, <1>4, Zenon
<1>8. WithinLimits(g) /\ PlacedAt(g)
  BY <1>2, <1>3, <1>5 DEF WithinLimits, PlacedAt, Compiled, MayRetry, Frames
<1> QED
  BY <1>3, <1>5, <1>6, <1>7, <1>8 DEF Turns

LEMMA TurnsRound ==
  ASSUME Compiled, Typed, Placed, stack # <<>>,
         stack' = Moved([Top EXCEPT !.kid = 1, !.round = Top.round + 1]),
         Top.round < TimesOf[Top.node]
  PROVE  Turns(Top.phase)
<1>1. Top \in Frames /\ Top = stack[Len(stack)] /\ Len(stack) \in DOMAIN stack
  BY StackIs
<1>2. WithinLimits(Top) /\ PlacedAt(Top)
  BY <1>1 DEF Placed
<1>3. PICK f \in Frames : f = Top
  BY <1>1
<1>4. PICK g : g = [f EXCEPT !.kid = 1, !.round = f.round + 1]
  OBVIOUS
<1>5. /\ g.node = f.node /\ g.occ = f.occ
      /\ g.phase = f.phase /\ g.at = f.at /\ g.tries = f.tries /\ g.round = f.round + 1
  BY <1>4 DEF Frames
<1>6. g \in Frames
  <2>1. f.round + 1 \in Nat /\ 1 \in Nat \ {0}
    BY DEF Frames
  <2> QED
    BY <2>1, <1>4, Zenon DEF Frames
<1>7. stack' = Moved(g)
  BY <1>3, <1>4, Zenon
<1>8. WithinLimits(g) /\ PlacedAt(g)
  BY <1>2, <1>3, <1>5 DEF WithinLimits, PlacedAt, Compiled, MayRetry, Frames
<1> QED
  BY <1>3, <1>5, <1>6, <1>7, <1>8 DEF Turns

\* A frame that returned nil: the one below turns to its next child.
LEMMA ResumedIs ==
  ASSUME NEW s \in Seq(Frames)
  PROVE  /\ Resumed(s) \in Seq(Frames) /\ Len(Resumed(s)) = Len(s)
         /\ \A k \in 1..Len(s) :
              /\ Resumed(s)[k].node = s[k].node /\ Resumed(s)[k].occ = s[k].occ
              /\ Resumed(s)[k].phase = s[k].phase /\ Resumed(s)[k].at = s[k].at
              /\ Resumed(s)[k].tries = s[k].tries /\ Resumed(s)[k].round = s[k].round
<1>1. CASE s = <<>>
  BY <1>1 DEF Resumed
<1>2. CASE s # <<>>
  <2>1. PICK n \in 1..Len(s) : n = Len(s)
    BY <1>2, LenProperties, EmptySeq
  <2>2. PICK f \in Frames : f = s[n]
    BY ElementOfSeq
  <2>3. PICK g : g = [f EXCEPT !.kid = f.kid + 1]
    OBVIOUS
  <2>4. /\ g.node = f.node /\ g.occ = f.occ /\ g.phase = f.phase
        /\ g.at = f.at /\ g.tries = f.tries /\ g.round = f.round
    BY <2>3 DEF Frames
  <2>5. g \in Frames
    <3>1. f.kid \in Nat \ {0}
      BY ZenonT(20) DEF Frames
    <3>2. f.kid + 1 \in Nat \ {0}
      BY <3>1
    <3> QED
      BY <3>2, <2>3, Zenon DEF Frames
  <2>6. PICK t : t = [s EXCEPT ![n] = g]
    OBVIOUS
  <2>7. Resumed(s) = t
    BY <1>2, <2>1, <2>2, <2>3, <2>6, LenProperties DEF Resumed
  <2>8. /\ t \in Seq(Frames) /\ Len(t) = Len(s)
        /\ \A k \in 1..Len(s) : t[k] = IF k = n THEN g ELSE s[k]
    BY <2>5, <2>6, ExceptSeq
  <2> QED
    BY <2>2, <2>4, <2>7, <2>8
<1> QED
  BY <1>1, <1>2

\* The frames below one that returns are what they were.
LEMMA Popping ==
  ASSUME Typed, stack # <<>>, stack' \in {Front(stack), Resumed(Front(stack))}
  PROVE  /\ stack' \in Seq(Frames) /\ Len(stack') = Len(stack) - 1
         /\ DOMAIN stack' = 1..Len(stack) - 1
         /\ \A k \in 1..Len(stack) - 1 :
              /\ stack'[k].node = stack[k].node /\ stack'[k].occ = stack[k].occ
              /\ stack'[k].phase = stack[k].phase /\ stack'[k].at = stack[k].at
              /\ stack'[k].tries = stack[k].tries /\ stack'[k].round = stack[k].round
<1>1. PICK t : t = Front(stack)
  OBVIOUS
<1>2. t \in Seq(Frames) /\ Len(t) = Len(stack) - 1 /\ \A k \in 1..Len(stack) - 1 : t[k] = stack[k]
  BY <1>1, Shorter DEF Typed
<1>3. stack' \in {t, Resumed(t)}
  BY <1>1
<1>4. /\ stack' \in Seq(Frames) /\ Len(stack') = Len(stack) - 1
      /\ \A k \in 1..Len(stack) - 1 :
           /\ stack'[k].node = stack[k].node /\ stack'[k].occ = stack[k].occ
           /\ stack'[k].phase = stack[k].phase /\ stack'[k].at = stack[k].at
           /\ stack'[k].tries = stack[k].tries /\ stack'[k].round = stack[k].round
  BY <1>2, <1>3, ResumedIs
<1> QED
  BY <1>4, LenProperties

\* The write of a frame is under its own number, and the number is given back as it
\* ends (emit, releaseOccurrence).
LEMMA OwnNumber ==
  ASSUME Typed, NumbersFollowFrames, stack # <<>>
  PROVE  /\ EmitOccurrence(IdOf[Top.node]) = Top.occ
         /\ \A ok : Released(IdOf[Top.node], Top.occ, ok)
                      = [active EXCEPT ![IdOf[Top.node]] = Front(@)]
BY Newest DEF Released

\* A phase that a frame may record next.
LEMMA MayRecord ==
  ASSUME Compiled, Typed, Placed, Running
  PROVE  /\ Top.node \in Nodes /\ Top.phase \in Live
         /\ PlaceFits(KindOf[Top.node], Top.at, Top.phase)
         /\ Top.at \in {"child", "finish"} \/ KindOf[Top.node] = "wait" => "SUCCEEDED" \in NextPhases(Top.phase)
         /\ Top.at \in {"locate", "found"} => "TRANSITIONING" \in NextPhases(Top.phase)
         /\ Top.at = "locate" => "HEALING" \in NextPhases(Top.phase)
         /\ Top.phase = "RUNNING" => "VALIDATING" \in NextPhases(Top.phase)
<1>1. stack # <<>> /\ Len(stack) \in DOMAIN stack /\ Top = stack[Len(stack)] /\ Top \in Frames
  BY StackIs DEF Running
<1>2. Top.phase \in Live /\ Top.node \in Nodes /\ Top.at \in FramePlaces
  BY <1>1 DEF Frames
<1>3. PlaceFits(KindOf[Top.node], Top.at, Top.phase)
  BY <1>1 DEF Placed, PlacedAt
<1>4. \A phase \in Live : "SUCCEEDED" \in NextPhases(phase) <=> phase # "HEALING"
  BY DEF NextPhases, Live, Terminal
<1>5. KindOf[Top.node] = "wait" => Top.phase # "HEALING"
  BY <1>2, <1>3 DEF PlaceFits, FramePlaces, Containers
<1>6. /\ \A phase \in {"RUNNING", "HEALING"} : "TRANSITIONING" \in NextPhases(phase)
      /\ "HEALING" \in NextPhases("RUNNING") /\ "VALIDATING" \in NextPhases("RUNNING")
  BY DEF NextPhases, Terminal
<1> QED
  BY <1>2, <1>3, <1>4, <1>5, <1>6 DEF PlaceFits

\* A frame that goes on after it recorded a phase, or does not know whether it may
\* (emit of a phase that is not the last).
LEMMA ProgressIs ==
  ASSUME Compiled, Typed, NumbersFollowFrames, Placed, Running,
         NEW phase \in Live \ {"RUNNING"}, NEW at \in FramePlaces, NEW answer \in Answers,
         phase \in NextPhases(Top.phase), PlaceFits(KindOf[Top.node], at, phase),
         EmitProgress(phase, at, answer),
         UNCHANGED <<canceled, occurrences, active, overlay, staged, healer, effects>>
  PROVE  Moves(phase, answer)
<1>1. stack # <<>> /\ ~failing
  BY DEF Running
<1>2. /\ Ask(IdOf[Top.node], Top.occ, Top.occ, phase)
      /\ Sink(IdOf[Top.node], Top.occ, phase, answer)
      /\ failing' = (answer # "ok")
      /\ stack' = IF answer = "ok" THEN Moved([Top EXCEPT !.phase = phase, !.at = at]) ELSE stack
  BY <1>1, OwnNumber DEF EmitProgress
<1>3. Writes(phase, answer)
  BY <1>1, <1>2 DEF Writes
<1>4. CASE answer = "ok"
  <2>1. Turns(phase)
    BY <1>1, <1>2, <1>4, TurnsTo
  <2> QED
    BY <2>1, <1>1, <1>2, <1>3, <1>4 DEF Moves, GoesOn
<1>5. CASE answer # "ok"
  BY <1>1, <1>2, <1>3, <1>5 DEF Moves, Sticks, Live
<1> QED
  BY <1>4, <1>5

\* What every action comes to.
LEMMA StepIs ==
  ASSUME Compiled, Typed, NumbersFollowFrames, Placed, [NodeNext]_nodeVars
  PROVE  \/ Quiet
         \/ \E n \in Nodes, answer \in Answers : Enters(n, answer)
         \/ \E phase \in Phases \ {"RUNNING"}, answer \in Answers : Moves(phase, answer)
<1>1. CASE Start
  BY <1>1 DEF Start, Enters, Compiled
<1>2. CASE EnterChild
  <2>1. stack # <<>> /\ ~failing /\ KindOf[Top.node] \in Containers
    BY <1>2 DEF EnterChild, InContainer, At, Running
  <2>2. Top \in Frames
    BY <2>1, StackIs
  <2>3. Top.kid \in Nat /\ Top.node \in Nodes
    BY <2>2 DEF Frames
  <2>4. CASE \E answer \in Answers : Enter(ChildrenOf[Top.node][Top.kid], answer)
    <3>1. Top.node \notin LeafNodes
      BY <2>1 DEF LeafNodes, Containers
    <3>2. Top.kid \in DOMAIN ChildrenOf[Top.node] /\ ChildrenOf[Top.node] \in Seq(Nodes)
      <4>1. ChildrenOf[Top.node] \in Seq(Nodes)
        BY <2>3, <3>1 DEF Compiled
      <4>2. Top.kid <= Len(ChildrenOf[Top.node]) /\ Top.kid >= 1
        BY <1>2, <2>2 DEF EnterChild, HasChild, Frames
      <4> QED
        BY <4>1, <4>2, <2>3, LenProperties
    <3>3. ChildrenOf[Top.node][Top.kid] \in Nodes
      BY <3>2, ElementOfSeq, LenProperties
    <3> QED
      BY <1>2, <2>1, <2>4, <3>3 DEF EnterChild, Enters
  <2>5. CASE ~\E answer \in Answers : Enter(ChildrenOf[Top.node][Top.kid], answer)
    BY <1>2, <2>5 DEF EnterChild, Quiet
  <2> QED
    BY <2>4, <2>5
<1>3. CASE NextRound
  <2>1. Running /\ stack # <<>> /\ ~failing
    BY <1>3 DEF NextRound, InContainer, At, Running
  <2>2. stack' = Moved([Top EXCEPT !.kid = 1, !.round = Top.round + 1])
    BY <1>3 DEF NextRound
  <2>3. Turns(Top.phase)
    BY <1>3, <2>1, <2>2, TurnsRound DEF NextRound
  <2> QED
    BY <1>3, <2>1, <2>3 DEF NextRound, Quiet
<1>4. CASE FinishPlainly
  <2>1. Running /\ stack # <<>> /\ ~failing
    BY <1>4 DEF FinishPlainly, InContainer, At, Running
  <2>2. Top.at \in {"child", "finish"}
    BY <1>4 DEF FinishPlainly, InContainer, At
  <2>3. "SUCCEEDED" \in NextPhases(Top.phase) /\ "SUCCEEDED" \in Phases \ {"RUNNING"}
    BY <2>1, <2>2, MayRecord DEF Phases, Terminal
  <2>4. PICK answer \in Answers :
          /\ Ask(IdOf[Top.node], Top.occ, Top.occ, "SUCCEEDED")
          /\ Sink(IdOf[Top.node], Top.occ, "SUCCEEDED", answer)
          /\ active' = [active EXCEPT ![IdOf[Top.node]] = Front(@)]
          /\ failing' = (answer # "ok")
          /\ stack' = IF answer = "ok" THEN Resumed(Front(stack)) ELSE Front(stack)
    BY <1>4, <2>1, OwnNumber DEF FinishPlainly
  <2>5. Writes("SUCCEEDED", answer)
    BY <1>4, <2>1, <2>3, <2>4 DEF FinishPlainly, Writes
  <2>6. Moves("SUCCEEDED", answer)
    BY <2>1, <2>4, <2>5 DEF Moves, EndsWell, EndsBadly, Pops
  <2> QED
    BY <2>3, <2>6
<1>5. CASE FinishStep
  <2>1. Running /\ stack # <<>> /\ ~failing
    BY <1>5 DEF FinishStep, At, Running
  <2>2. Top.at = "finish"
    BY <1>5 DEF FinishStep, At
  <2>3. "SUCCEEDED" \in NextPhases(Top.phase) /\ "SUCCEEDED" \in Phases \ {"RUNNING"}
    BY <2>1, <2>2, MayRecord DEF Phases, Terminal
  <2>4. PICK answer \in Answers :
          /\ Ask(IdOf[Top.node], Top.occ, Top.occ, "SUCCEEDED")
          /\ Sink(IdOf[Top.node], Top.occ, "SUCCEEDED", answer)
          /\ failing' = (answer # "ok")
          /\ IF answer = "ok"
             THEN /\ active' = [active EXCEPT ![IdOf[Top.node]] = Front(@)]
                  /\ stack' = Resumed(Front(stack))
             ELSE UNCHANGED <<active, stack>>
    BY <1>5, <2>1, OwnNumber DEF FinishStep
  <2>5. Writes("SUCCEEDED", answer)
    BY <1>5, <2>1, <2>3, <2>4 DEF FinishStep, Writes
  <2>6. Moves("SUCCEEDED", answer)
    BY <2>1, <2>4, <2>5 DEF Moves, EndsWell, Sticks, Pops, Live
  <2> QED
    BY <2>3, <2>6
<1>6. CASE Fail
  <2> DEFINE phase == failurePhase(canceled)
  <2>1. failing /\ stack # <<>> /\ phase \in Phases \ {"RUNNING"}
    BY <1>6 DEF Fail, failurePhase, Phases, Terminal
  <2>2. PICK answer \in Answers :
          /\ Ask(IdOf[Top.node], Top.occ, Top.occ, phase)
          /\ Sink(IdOf[Top.node], Top.occ, phase, answer)
          /\ active' = [active EXCEPT ![IdOf[Top.node]] = Front(@)]
          /\ stack' = Front(stack)
          /\ failing' = TRUE
    BY ZenonT(60), <1>6, <2>1, OwnNumber DEF Fail, EmitAndReturn
  <2>3. Writes(phase, answer)
    BY <1>6, <2>1, <2>2 DEF Fail, Writes
  <2>4. Moves(phase, answer)
    BY <2>1, <2>2, <2>3 DEF Moves, EndsBadly, Pops
  <2> HIDE DEF phase
  <2> QED
    BY <2>1, <2>4
<1>7. CASE LeafFails \/ Cancel \/ Done \/ UNCHANGED nodeVars
  BY <1>7 DEF LeafFails, Cancel, Done, nodeVars, Quiet
<1>8. CASE Located
  <2>1. Running /\ Top.at \in {"locate", "found"} /\ KindOf[Top.node] = "step"
    BY <1>8 DEF Located, At
  <2>2. PICK answer \in Answers : EmitProgress("TRANSITIONING", "act", answer)
    BY <1>8 DEF Located
  <2>3. /\ "TRANSITIONING" \in NextPhases(Top.phase)
        /\ PlaceFits(KindOf[Top.node], "act", "TRANSITIONING")
        /\ "TRANSITIONING" \in (Live \cap Phases) \ {"RUNNING"} /\ "act" \in FramePlaces
    BY <2>1, MayRecord DEF PlaceFits, Live, FramePlaces, Phases
  <2>4. Moves("TRANSITIONING", answer)
    BY <1>8, <2>1, <2>2, <2>3, ProgressIs DEF Located
  <2> QED
    BY <2>3, <2>4
<1>9. CASE StartHealing
  <2>1. Running /\ Top.at = "locate" /\ KindOf[Top.node] = "step"
    BY <1>9 DEF StartHealing, At
  <2>2. PICK answer \in Answers : EmitProgress("HEALING", "recover", answer)
    BY <1>9 DEF StartHealing
  <2>3. /\ "HEALING" \in NextPhases(Top.phase)
        /\ PlaceFits(KindOf[Top.node], "recover", "HEALING")
        /\ "HEALING" \in (Live \cap Phases) \ {"RUNNING"} /\ "recover" \in FramePlaces
    BY <2>1, MayRecord DEF PlaceFits, Live, FramePlaces, Phases
  <2>4. Moves("HEALING", answer)
    BY <1>9, <2>1, <2>2, <2>3, ProgressIs DEF StartHealing
  <2> QED
    BY <2>3, <2>4
<1>10. CASE StartValidating
  <2>1. Running /\ Top.at = "judge" /\ KindOf[Top.node] = "validation" /\ Top.phase = "RUNNING"
    BY <1>10 DEF StartValidating, At
  <2>2. PICK answer \in Answers : EmitProgress("VALIDATING", "judge", answer)
    BY <1>10 DEF StartValidating
  <2>3. /\ "VALIDATING" \in NextPhases(Top.phase)
        /\ PlaceFits(KindOf[Top.node], "judge", "VALIDATING")
        /\ "VALIDATING" \in (Live \cap Phases) \ {"RUNNING"} /\ "judge" \in FramePlaces
    BY <2>1, MayRecord DEF PlaceFits, Live, FramePlaces, Phases
  <2>4. Moves("VALIDATING", answer)
    BY <1>10, <2>1, <2>2, <2>3, ProgressIs DEF StartValidating
  <2> QED
    BY <2>3, <2>4
<1>11. CASE SkipOptional \/ WaitHolds \/ ValidationHolds
  <2>1. Running /\ stack # <<>> /\ ~failing
    BY <1>11 DEF SkipOptional, WaitHolds, ValidationHolds, At, Running
  <2>2. PlaceFits(KindOf[Top.node], "finish", Top.phase) /\ "finish" \in FramePlaces
    BY <1>11, <2>1, MayRecord DEF SkipOptional, WaitHolds, ValidationHolds, At, PlaceFits, FramePlaces
  <2>3. stack' = Moved([Top EXCEPT !.at = "finish"])
    BY <1>11 DEF SkipOptional, WaitHolds, ValidationHolds
  <2>4. Turns(Top.phase)
    BY <2>1, <2>2, <2>3, TurnsAt
  <2> QED
    BY <1>11, <2>1, <2>4 DEF SkipOptional, WaitHolds, ValidationHolds, Quiet
<1>12. CASE RefuseHealing
  BY <1>12 DEF RefuseHealing, Healing, At, Running, Quiet
<1>13. CASE ApplyHealing
  <2>1. Running /\ stack # <<>> /\ ~failing
    BY <1>13 DEF ApplyHealing, Healing, At, Running
  <2>2. UNCHANGED <<occurrences, active, facts, lost, asked>>
    BY <1>13 DEF ApplyHealing
  <2>3. CASE KindOf[Top.node] = "step" /\ stack' # stack
    <3>1. Top.at = "recover" /\ stack' = Moved([Top EXCEPT !.at = "found"])
      BY <1>13, <2>3 DEF ApplyHealing, Healing, At
    <3>2. PlaceFits(KindOf[Top.node], "found", Top.phase) /\ "found" \in FramePlaces
      BY <2>1, <2>3, <3>1, MayRecord DEF PlaceFits, FramePlaces
    <3>3. Turns(Top.phase)
      BY <2>1, <3>1, <3>2, TurnsAt
    <3> QED
      BY <2>1, <2>2, <3>3 DEF Quiet
  <2>4. CASE ~(KindOf[Top.node] = "step" /\ stack' # stack)
    <3>1. stack' = stack
      BY <1>13, <2>4 DEF ApplyHealing
    <3> QED
      BY <2>1, <2>2, <3>1 DEF Quiet
  <2> QED
    BY <2>3, <2>4
<1>14. CASE Act
  <2>1. Running /\ stack # <<>> /\ ~failing /\ Top.at = "act"
    BY <1>14 DEF Act, At, Running
  <2>2. UNCHANGED <<occurrences, active, facts, lost, asked>>
    BY <1>14 DEF Act
  <2>3. CASE stack' = Moved([Top EXCEPT !.at = "finish"])
    <3>1. PlaceFits(KindOf[Top.node], "finish", Top.phase) /\ "finish" \in FramePlaces
      BY <2>1, MayRecord DEF PlaceFits, FramePlaces
    <3>2. Turns(Top.phase)
      BY <2>1, <2>3, <3>1, TurnsAt
    <3> QED
      BY <2>1, <2>2, <3>2 DEF Quiet
  <2>4. CASE MayRetry(Top.tries) /\ stack' = Moved([Top EXCEPT !.tries = @ + 1])
    <3>1. Turns(Top.phase)
      BY <2>1, <2>4, TurnsToTry
    <3> QED
      BY <2>1, <2>2, <3>1 DEF Quiet
  <2>5. CASE UNCHANGED stack
    BY <2>1, <2>2, <2>5 DEF Quiet
  <2> QED
    BY <1>14, <2>3, <2>4, <2>5 DEF Act
<1> QED
  BY <1>1, <1>2, <1>3, <1>4, <1>5, <1>6, <1>7, <1>8, <1>9, <1>10, <1>11, <1>12, <1>13, <1>14
     DEF NodeNext

-----------------------------------------------------------------------------
(* What the steps do to the facts and to the frames.                       *)

\* One fact gets another phase, or none does (RecordProgress, CommitTerminal).
LEMMA FactRecorded ==
  ASSUME Typed, NEW id \in Ids, NEW occ \in 1..Len(facts[id]),
         NEW phase \in Phases \ {"RUNNING"}, NEW answer, Sink(id, occ, phase, answer)
  PROVE  /\ facts' \in [Ids -> Seq(FactSet)]
         /\ \A i \in Ids :
              /\ DOMAIN facts[i] = 1..Len(facts[i])
              /\ Len(facts'[i]) = Len(facts[i]) /\ DOMAIN facts'[i] = DOMAIN facts[i]
              /\ \A o \in DOMAIN facts[i] :
                   /\ facts'[i][o].under = facts[i][o].under
                   /\ facts'[i][o].phase = IF answer # "refused" /\ i = id /\ o = occ
                                           THEN phase ELSE facts[i][o].phase
         /\ answer # "refused" => phase \in NextPhases(facts[id][occ].phase)
         /\ lost \subseteq lost'
         /\ answer = "lost" /\ phase = "SUCCEEDED" => <<id, occ>> \in lost'
<1>1. \A i \in Ids : /\ facts[i] \in Seq(FactSet) /\ Len(facts[i]) \in Nat
                     /\ DOMAIN facts[i] = 1..Len(facts[i])
  BY LenProperties DEF Typed
<1>2. lost \subseteq lost' /\ (answer = "lost" /\ phase = "SUCCEEDED" => <<id, occ>> \in lost')
  BY DEF Sink
<1>3. CASE answer = "refused"
  <2>1. facts' = facts
    BY <1>3 DEF Sink
  <2> QED
    BY <1>1, <1>2, <1>3, <2>1 DEF Typed
<1>4. CASE answer # "refused"
  <2>1. PICK fact \in FactSet : fact = facts[id][occ]
    BY <1>1, ElementOfSeq
  <2>2. PICK next : next = [fact EXCEPT !.phase = phase]
    OBVIOUS
  <2>3. next \in FactSet /\ next.phase = phase /\ next.under = fact.under
    BY <2>2 DEF FactSet
  <2>4. PICK list : list = [facts[id] EXCEPT ![occ] = next]
    OBVIOUS
  <2>5. /\ list \in Seq(FactSet) /\ Len(list) = Len(facts[id])
        /\ \A o \in 1..Len(facts[id]) : list[o] = IF o = occ THEN next ELSE facts[id][o]
    BY <1>1, <2>3, <2>4, ExceptSeq
  <2>6. facts' = [facts EXCEPT ![id] = list]
    <3>1. facts' = [facts EXCEPT ![id][occ].phase = phase]
      BY <1>4 DEF Sink
    <3>2. facts \in [Ids -> Seq(FactSet)]
      BY DEF Typed
    <3> QED
      BY <3>1, <3>2, <2>1, <2>2, <2>4, <1>1
  <2>7. DOMAIN list = 1..Len(facts[id])
    BY <2>5, LenProperties
  <2>8. /\ facts' \in [Ids -> Seq(FactSet)] /\ facts'[id] = list
        /\ \A i \in Ids \ {id} : facts'[i] = facts[i]
    BY <2>5, <2>6 DEF Typed
  <2>9. phase \in NextPhases(facts[id][occ].phase)
    BY <1>1, <1>4 DEF Sink, ValidatePhaseTransition, Stored
  <2> QED
    BY <1>1, <1>2, <1>4, <2>1, <2>3, <2>5, <2>7, <2>8, <2>9
<1> QED
  BY <1>3, <1>4

\* A fact is added for an occurrence that begins, or is not.
LEMMA Begun ==
  ASSUME Typed, NEW id \in Ids, NEW occ, NEW answer, Sink(id, occ, "RUNNING", answer)
  PROVE  /\ facts' \in [Ids -> Seq(FactSet)] /\ lost' = lost
         /\ answer = "refused" => facts' = facts
         /\ \A i \in Ids :
              /\ DOMAIN facts[i] = 1..Len(facts[i]) /\ Len(facts[i]) \in Nat
              /\ DOMAIN facts'[i] = 1..Len(facts'[i])
              /\ \A o \in DOMAIN facts[i] : facts'[i][o] = facts[i][o]
              /\ answer = "refused" \/ i # id => facts'[i] = facts[i]
         /\ answer # "refused" => /\ Len(facts'[id]) = Len(facts[id]) + 1
                                  /\ facts'[id][Len(facts'[id])].phase = "RUNNING"
                                  /\ facts'[id][Len(facts'[id])].under = Under
<1>1. \A i \in Ids : /\ facts[i] \in Seq(FactSet) /\ Len(facts[i]) \in Nat
                     /\ DOMAIN facts[i] = 1..Len(facts[i])
  BY LenProperties DEF Typed
<1>2. lost' = lost
  BY DEF Sink
<1>3. CASE answer = "refused"
  <2>1. facts' = facts
    BY <1>3 DEF Sink
  <2> QED
    BY <1>1, <1>2, <1>3, <2>1 DEF Typed
<1>4. CASE answer # "refused"
  <2>1. PICK fact : fact = [phase |-> "RUNNING", under |-> Under]
    OBVIOUS
  <2>2. fact \in FactSet /\ fact.phase = "RUNNING" /\ fact.under = Under
    <3>1. Under \in Names \cup {NoOne}
      <4>1. CASE stack = <<>>
        BY <4>1 DEF Under
      <4>2. CASE stack # <<>>
        BY <4>2, StackIs DEF Under
      <4> QED
        BY <4>1, <4>2
    <3> QED
      BY <2>1, <3>1 DEF FactSet, Phases
  <2>3. PICK list : list = Append(facts[id], fact)
    OBVIOUS
  <2>4. /\ list \in Seq(FactSet) /\ Len(list) = Len(facts[id]) + 1
        /\ DOMAIN list = 1..Len(facts[id]) + 1
        /\ \A o \in 1..Len(facts[id]) : list[o] = facts[id][o]
        /\ list[Len(facts[id]) + 1] = fact
    BY <1>1, <2>2, <2>3, Longer
  <2>5. facts' = [facts EXCEPT ![id] = list]
    BY <1>4, <2>1, <2>3 DEF Sink
  <2>6. /\ facts' \in [Ids -> Seq(FactSet)] /\ facts'[id] = list
        /\ \A i \in Ids \ {id} : facts'[i] = facts[i]
    BY <2>4, <2>5 DEF Typed
  <2>7. ASSUME NEW i \in Ids
        PROVE  /\ DOMAIN facts'[i] = 1..Len(facts'[i])
               /\ \A o \in DOMAIN facts[i] : facts'[i][o] = facts[i][o]
               /\ i # id => facts'[i] = facts[i]
               /\ i = id => Len(facts'[i]) = Len(facts[i]) + 1
    <3>1. CASE i = id
      BY <3>1, <1>1, <1>4, <2>4, <2>6
    <3>2. CASE i # id
      BY <3>2, <1>1, <2>6
    <3> QED
      BY <3>1, <3>2
  <2>8. facts'[id][Len(facts'[id])] = fact
    BY <2>4, <2>6
  <2> QED
    BY <1>1, <1>2, <1>4, <2>2, <2>6, <2>7, <2>8
<1> QED
  BY <1>3, <1>4

\* The frames keep their names, and all but the one that runs are what they were.
SameNames ==
  /\ stack' \in Seq(Frames) /\ Len(stack') = Len(stack) /\ DOMAIN stack' = 1..Len(stack)
  /\ \A k \in 1..Len(stack) :
       /\ stack'[k].node = stack[k].node /\ stack'[k].occ = stack[k].occ
       /\ k # Len(stack) => stack'[k] = stack[k]

LEMMA TurnIs ==
  ASSUME Typed, stack # <<>>, NEW phase, Turns(phase)
  PROVE  /\ SameNames /\ stack' # <<>>
         /\ LET f == stack'[Len(stack)] IN f.phase = phase /\ WithinLimits(f) /\ PlacedAt(f)
<1>1. PICK n \in 1..Len(stack) : n = Len(stack) /\ Top = stack[n] /\ n >= 1
  <2>1. Len(stack) \in Nat /\ Len(stack) \in 1..Len(stack) /\ Top = stack[Len(stack)]
    BY StackIs
  <2> QED
    BY <2>1
<1>2. PICK f \in Frames : /\ f.node = Top.node /\ f.occ = Top.occ /\ f.phase = phase
                          /\ WithinLimits(f) /\ PlacedAt(f)
                          /\ stack' = [stack EXCEPT ![n] = f]
  BY <1>1 DEF Turns, Moved
<1>3. stack \in Seq(Frames)
  BY DEF Typed
<1>4. /\ stack' \in Seq(Frames) /\ Len(stack') = Len(stack) /\ DOMAIN stack' = 1..Len(stack)
      /\ \A k \in 1..Len(stack) : stack'[k] = IF k = n THEN f ELSE stack[k]
  BY <1>2, <1>3, Replaced
<1>5. stack' # <<>>
  BY <1>1, <1>4
<1> QED
  BY <1>1, <1>2, <1>4, <1>5 DEF SameNames

LEMMA StackRests ==
  ASSUME Typed, stack' = stack
  PROVE  SameNames
BY StackIs DEF Typed, SameNames

\* A frame on top of the others.
LEMMA EnterIs ==
  ASSUME Compiled, Typed, NEW n \in Nodes, NEW answer \in Answers, Enters(n, answer)
  PROVE  LET id == IdOf[n]
             occ == occurrences[id] + 1
         IN /\ id \in Ids /\ occurrences[id] \in Nat
            /\ Ask(id, occ, occ, "RUNNING") /\ Sink(id, occ, "RUNNING", answer)
            /\ failing' = (answer # "ok")
            /\ answer # "ok" => UNCHANGED <<occurrences, active, stack>>
            /\ answer = "ok" =>
                 /\ occurrences' = [occurrences EXCEPT ![id] = occ]
                 /\ active' = [active EXCEPT ![id] = Append(@, occ)]
                 /\ stack' \in Seq(Frames) /\ Len(stack') = Len(stack) + 1
                 /\ DOMAIN stack' = 1..Len(stack) + 1
                 /\ \A k \in 1..Len(stack) : stack'[k] = stack[k]
                 /\ LET f == stack'[Len(stack) + 1]
                    IN /\ f.node = n /\ f.occ = occ /\ f.phase = "RUNNING"
                       /\ WithinLimits(f) /\ PlacedAt(f)
<1> DEFINE id == IdOf[n]
           occ == occurrences[id] + 1
           f == [node |-> n, occ |-> occ, phase |-> "RUNNING",
                 at |-> FirstPlace(n), kid |-> 1, round |-> 1, tries |-> 0]
<1>1. id \in Ids /\ occurrences[id] \in Nat
  BY DEF Ids, Typed
<1>2. KindOf[n] \in Containers \cup {"step", "direct", "wait", "validation"}
  BY DEF Compiled, LeafNodes
<1>3. FirstPlace(n) \in FramePlaces /\ PlaceFits(KindOf[n], FirstPlace(n), "RUNNING")
  <2>1. CASE KindOf[n] \in Containers
    BY <2>1 DEF FirstPlace, PlaceFits, FramePlaces
  <2>2. CASE KindOf[n] = "step"
    BY <2>2 DEF FirstPlace, PlaceFits, FramePlaces, Containers
  <2>3. CASE KindOf[n] = "direct"
    BY <2>3 DEF FirstPlace, PlaceFits, FramePlaces, Containers
  <2>4. CASE KindOf[n] \in {"wait", "validation"}
    BY <2>4 DEF FirstPlace, PlaceFits, FramePlaces, Containers
  <2> QED
    BY <1>2, <2>1, <2>2, <2>3, <2>4
<1>4. f \in Frames
  BY <1>1, <1>3 DEF Frames, Live
<1>5. WithinLimits(f) /\ PlacedAt(f)
  BY <1>3 DEF WithinLimits, PlacedAt, Compiled
<1>6. f.node = n /\ f.occ = occ /\ f.phase = "RUNNING"
  OBVIOUS
<1>7. /\ Ask(id, occ, occ, "RUNNING") /\ Sink(id, occ, "RUNNING", answer)
      /\ failing' = (answer # "ok")
      /\ answer # "ok" => UNCHANGED <<occurrences, active, stack>>
      /\ answer = "ok" =>
           /\ occurrences' = [occurrences EXCEPT ![id] = occ]
           /\ active' = [active EXCEPT ![id] = Append(@, occ)]
           /\ stack' = Append(stack, f)
  BY DEF Enters, Enter
<1> HIDE DEF f
<1>8. ASSUME answer = "ok"
      PROVE  /\ stack' \in Seq(Frames) /\ Len(stack') = Len(stack) + 1
             /\ DOMAIN stack' = 1..Len(stack) + 1
             /\ \A k \in 1..Len(stack) : stack'[k] = stack[k]
             /\ stack'[Len(stack) + 1] = f
  <2>1. stack \in Seq(Frames)
    BY DEF Typed
  <2>2. stack' = Append(stack, f)
    BY <1>7, <1>8
  <2> QED
    BY <2>1, <2>2, <1>4, Longer
<1> QED
  BY <1>1, <1>5, <1>6, <1>7, <1>8

\* Frames of the stack go by different names.
LEMMA Distinct ==
  ASSUME Typed, NumbersFollowFrames, NEW j \in 1..Len(stack), NEW k \in 1..Len(stack), j # k
  PROVE  Name(j) # Name(k)
<1>1. SUFFICES ASSUME Name(j) = Name(k) PROVE FALSE
  OBVIOUS
<1>2. /\ j \in FramesOf(IdOf[stack[j].node]) /\ k \in FramesOf(IdOf[stack[j].node])
      /\ IdOf[stack[j].node] \in Ids
      /\ stack[j].occ = stack[k].occ /\ stack[j].occ \in Nat
  BY <1>1, StackIs DEF Name, FramesOf, Ids, Frames
<1>3. /\ j < k => stack[j].occ < stack[k].occ
      /\ k < j => stack[k].occ < stack[j].occ
  BY <1>2 DEF NumbersFollowFrames
<1> QED
  BY <1>2, <1>3, StackIs

\* The sink knows every frame.
LEMMA FrameIsKnown ==
  ASSUME Typed, Counted, NEW k \in 1..Len(stack)
  PROVE  LET id == IdOf[stack[k].node]
             occ == stack[k].occ
         IN /\ id \in Ids /\ occ \in 1..Len(facts[id]) /\ DOMAIN facts[id] = 1..Len(facts[id])
            /\ Len(facts[id]) \in Nat /\ occ <= occurrences[id] /\ occurrences[id] \in Nat
            /\ Name(k) = <<id, occ>> /\ facts[id][occ] \in FactSet
            /\ Stored(id, occ) = facts[id][occ].phase
<1> DEFINE id == IdOf[stack[k].node]
           occ == stack[k].occ
<1>1. id \in Ids /\ occ \in Nat \ {0} /\ Name(k) = <<id, occ>>
  BY StackIs DEF Name, Ids, Frames
<1>2. facts[id] \in Seq(FactSet) /\ Len(facts[id]) \in Nat /\ DOMAIN facts[id] = 1..Len(facts[id])
  BY <1>1, LenProperties DEF Typed
<1>3. occ <= occurrences[id] /\ occurrences[id] <= Len(facts[id]) /\ occurrences[id] \in Nat
  BY <1>1, StackIs DEF Counted, Typed
<1>4. occ \in 1..Len(facts[id])
  BY <1>1, <1>2, <1>3
<1> QED
  BY <1>1, <1>2, <1>3, <1>4, ElementOfSeq DEF Stored

\* The frame that runs, what it may write, and what the sink makes of it.
LEMMA WriteIs ==
  ASSUME Compiled, Typed, Counted, NEW phase \in Phases \ {"RUNNING"},
         NEW answer, Writes(phase, answer)
  PROVE  LET id == IdOf[Top.node]
             occ == Top.occ
         IN /\ id \in Ids /\ occ \in DOMAIN facts[id] /\ <<id, occ>> = Name(Len(stack))
            /\ Len(stack) \in 1..Len(stack) /\ Top = stack[Len(stack)]
            /\ Stored(id, occ) = facts[id][occ].phase
            /\ asked' = [id |-> id, occ |-> occ, own |-> occ, phase |-> phase,
                         legal |-> phase \in NextPhases(facts[id][occ].phase)]
            /\ facts' \in [Ids -> Seq(FactSet)]
            /\ \A i \in Ids :
                 /\ DOMAIN facts[i] = 1..Len(facts[i])
                 /\ Len(facts'[i]) = Len(facts[i]) /\ DOMAIN facts'[i] = DOMAIN facts[i]
                 /\ \A o \in DOMAIN facts[i] :
                      /\ facts'[i][o].under = facts[i][o].under
                      /\ facts'[i][o].phase = IF answer # "refused" /\ i = id /\ o = occ
                                              THEN phase ELSE facts[i][o].phase
            /\ answer # "refused" => phase \in NextPhases(facts[id][occ].phase)
            /\ lost \subseteq lost'
            /\ answer = "lost" /\ phase = "SUCCEEDED" => <<id, occ>> \in lost'
<1> DEFINE id == IdOf[Top.node]
           occ == Top.occ
<1>1. stack # <<>> /\ Ask(id, occ, occ, phase) /\ Sink(id, occ, phase, answer)
  BY DEF Writes
<1>2. Len(stack) \in 1..Len(stack) /\ Top = stack[Len(stack)]
  BY <1>1, StackIs
<1>3. /\ id \in Ids /\ occ \in 1..Len(facts[id]) /\ DOMAIN facts[id] = 1..Len(facts[id])
      /\ Name(Len(stack)) = <<id, occ>> /\ Stored(id, occ) = facts[id][occ].phase
  BY <1>2, FrameIsKnown
<1>4. asked' = [id |-> id, occ |-> occ, own |-> occ, phase |-> phase,
                legal |-> phase \in NextPhases(facts[id][occ].phase)]
  BY <1>1, <1>3 DEF Ask, ValidatePhaseTransition
<1> HIDE DEF id, occ
<1>5. /\ facts' \in [Ids -> Seq(FactSet)]
      /\ \A i \in Ids :
           /\ DOMAIN facts[i] = 1..Len(facts[i])
           /\ Len(facts'[i]) = Len(facts[i]) /\ DOMAIN facts'[i] = DOMAIN facts[i]
           /\ \A o \in DOMAIN facts[i] :
                /\ facts'[i][o].under = facts[i][o].under
                /\ facts'[i][o].phase = IF answer # "refused" /\ i = id /\ o = occ
                                        THEN phase ELSE facts[i][o].phase
      /\ answer # "refused" => phase \in NextPhases(facts[id][occ].phase)
      /\ lost \subseteq lost'
      /\ answer = "lost" /\ phase = "SUCCEEDED" => <<id, occ>> \in lost'
  BY <1>1, <1>3, FactRecorded
<1>6. occ \in DOMAIN facts[id] /\ <<id, occ>> = Name(Len(stack))
  BY <1>3
<1> QED
  BY <1>2, <1>3, <1>4, <1>5, <1>6 DEF id, occ

\* The frames that are left after a step that begins none.
Below ==
  /\ stack' \in Seq(Frames) /\ Len(stack') \in {Len(stack), Len(stack) - 1} /\ Len(stack') \in Nat
  /\ DOMAIN stack' = 1..Len(stack')
  /\ \A k \in 1..Len(stack') :
       /\ stack'[k].node = stack[k].node /\ stack'[k].occ = stack[k].occ
       /\ k # Len(stack) =>
            /\ stack'[k].phase = stack[k].phase /\ stack'[k].at = stack[k].at
            /\ stack'[k].tries = stack[k].tries /\ stack'[k].round = stack[k].round

LEMMA SameIsBelow ==
  ASSUME Typed, SameNames
  PROVE  Below /\ Len(stack') = Len(stack)
BY StackIs DEF SameNames, Below

LEMMA PopIsBelow ==
  ASSUME Typed, stack # <<>>, Pops
  PROVE  Below /\ Len(stack') = Len(stack) - 1
<1>1. Len(stack) \in Nat /\ Len(stack) \in 1..Len(stack)
  BY StackIs
<1> QED
  BY <1>1, Popping DEF Pops, Below

\* The phase that is written is that of a frame that goes on, or its last.
LEMMA PhaseIs ==
  ASSUME NEW phase, NEW answer, Moves(phase, answer)
  PROVE  /\ ~failing => phase \in Live \cup {"SUCCEEDED"}
         /\ failing => phase = failurePhase(canceled)
         /\ failing => failing' /\ EndsBadly(phase, answer)
         /\ phase = "SUCCEEDED" => ~failing
         /\ answer \in Answers /\ stack # <<>>
BY DEF Moves, Writes, GoesOn, Sticks, EndsWell, EndsBadly, failurePhase

LEMMA MovesBelow ==
  ASSUME Typed, NEW phase, NEW answer, Moves(phase, answer)
  PROVE  Below
<1>1. stack # <<>>
  BY PhaseIs
<1>2. CASE GoesOn(phase, answer)
  BY <1>1, <1>2, TurnIs, SameIsBelow DEF GoesOn
<1>3. CASE Sticks(phase, answer)
  BY <1>3, StackRests, SameIsBelow DEF Sticks
<1>4. CASE EndsWell(phase, answer) \/ EndsBadly(phase, answer)
  BY <1>1, <1>4, PopIsBelow DEF EndsWell, EndsBadly
<1> QED
  BY <1>2, <1>3, <1>4 DEF Moves

LEMMA QuietBelow ==
  ASSUME Typed, Quiet
  PROVE  SameNames /\ Below /\ Len(stack') = Len(stack)
<1>1. SameNames
  BY TurnIs, StackRests DEF Quiet
<1> QED
  BY <1>1, SameIsBelow

-----------------------------------------------------------------------------
(* The numbers in force.                                                   *)

\* As long as the frames keep their names, they keep their numbers.
LEMMA NumbersStay ==
  ASSUME Typed, NumbersFollowFrames, SameNames, UNCHANGED active, asked'.occ = asked'.own
  PROVE  NumbersFollowFrames'
<1>1. SUFFICES ASSUME NEW id \in Ids
               PROVE  /\ ToSet(active'[id]) = {stack'[k].occ : k \in FramesOf(id)'}
                      /\ \A j, k \in DOMAIN active'[id] : j < k => active'[id][j] < active'[id][k]
                      /\ \A j, k \in FramesOf(id)' : j < k => stack'[j].occ < stack'[k].occ
  BY DEF NumbersFollowFrames
<1>2. FramesOf(id)' = FramesOf(id) /\ \A k \in FramesOf(id) : stack'[k].occ = stack[k].occ
  BY StackIs DEF FramesOf, SameNames
<1>3. {stack'[k].occ : k \in FramesOf(id)} = {stack[k].occ : k \in FramesOf(id)}
  BY <1>2
<1> QED
  BY <1>1, <1>2, <1>3 DEF NumbersFollowFrames

\* A number is in force as soon as its frame is there: it is the highest of its identity.
LEMMA NumberComes ==
  ASSUME Compiled, Typed, NumbersFollowFrames, Counted,
         NEW n \in Nodes, NEW answer \in Answers, Enters(n, answer)
  PROVE  NumbersFollowFrames'
<1> DEFINE new == IdOf[n]
           occ == occurrences[new] + 1
           len == Len(stack)
<1>1. /\ new \in Ids /\ occ \in Nat /\ asked'.occ = asked'.own
      /\ answer # "ok" => UNCHANGED <<active, stack>>
      /\ answer = "ok" =>
           /\ active' = [active EXCEPT ![new] = Append(@, occ)]
           /\ DOMAIN stack' = 1..len + 1
           /\ \A k \in 1..len : stack'[k] = stack[k]
           /\ stack'[len + 1].node = n /\ stack'[len + 1].occ = occ
  BY EnterIs DEF Ask
<1>2. CASE answer # "ok"
  BY <1>1, <1>2, StackRests, NumbersStay
<1>3. CASE answer = "ok"
  <2>1. len \in Nat /\ DOMAIN stack = 1..len /\ \A k \in 1..len : stack[k] \in Frames
    BY StackIs
  <2>2. ASSUME NEW id \in Ids
        PROVE  /\ ToSet(active'[id]) = {stack'[k].occ : k \in FramesOf(id)'}
               /\ \A j, k \in DOMAIN active'[id] : j < k => active'[id][j] < active'[id][k]
               /\ \A j, k \in FramesOf(id)' : j < k => stack'[j].occ < stack'[k].occ
    <3> DEFINE old == FramesOf(id)
               now == FramesOf(id)'
               a == active[id]
               b == active'[id]
    <3>1. /\ now = IF id = new THEN old \cup {len + 1} ELSE old
          /\ \A k \in old : k \in 1..len /\ stack'[k].occ = stack[k].occ /\ stack[k].occ \in Nat
      BY <1>1, <1>3, <2>1 DEF FramesOf, Frames
    <3>2. /\ ToSet(a) = {stack[k].occ : k \in old}
          /\ \A j, k \in DOMAIN a : j < k => a[j] < a[k]
          /\ \A j, k \in old : j < k => stack[j].occ < stack[k].occ
      BY DEF NumbersFollowFrames
    <3>3. a \in Seq(Nat) /\ Len(a) \in Nat /\ DOMAIN a = 1..Len(a) /\ \A k \in 1..Len(a) : a[k] \in Nat
      BY LenProperties, ElementOfSeq DEF Typed
    <3>4. CASE id # new
      <4>1. b = a
        BY <1>1, <1>3, <3>4 DEF Typed
      <4> HIDE DEF old, now, a, b
      <4>2. now = old /\ {stack'[k].occ : k \in old} = {stack[k].occ : k \in old}
        BY <3>1, <3>4
      <4>3. ToSet(b) = {stack'[k].occ : k \in now}
        BY <4>1, <4>2, <3>2
      <4>4. \A j, k \in DOMAIN b : j < k => b[j] < b[k]
        BY <4>1, <3>2
      <4>5. \A j, k \in now : j < k => stack'[j].occ < stack'[k].occ
        BY <4>2, <3>1, <3>2
      <4> QED
        BY <4>3, <4>4, <4>5 DEF b, now
    <3>5. CASE id = new
      <4>1. b = Append(a, occ)
        BY <1>1, <1>3, <3>5 DEF Typed
      <4>2. \A k \in old : stack[k].occ < occ
        <5>1. \A k \in old : stack[k].occ <= occurrences[id]
          BY <2>1 DEF FramesOf, Counted
        <5> QED
          BY <5>1, <3>1, <3>5 DEF Typed
      <4>3. \A k \in 1..Len(a) : a[k] < occ
        <5>1. \A k \in 1..Len(a) : a[k] \in ToSet(a)
          BY <3>3 DEF ToSet
        <5> QED
          BY <5>1, <4>2, <3>2
      <4>4. stack'[len + 1].occ = occ /\ now = old \cup {len + 1}
        BY <1>1, <1>3, <3>1, <3>5
      <4> HIDE DEF old, now, a, b, occ, len
      <4>5. /\ DOMAIN b = 1..Len(a) + 1 /\ b[Len(a) + 1] = occ
            /\ \A k \in 1..Len(a) : b[k] = a[k]
        BY <4>1, <3>3, <1>1, Longer
      <4>6. ToSet(b) = {stack'[k].occ : k \in now}
        <5>1. ToSet(b) = ToSet(a) \cup {occ}
          BY <4>5, <3>3 DEF ToSet
        <5>2. {stack'[k].occ : k \in now} = {stack[k].occ : k \in old} \cup {occ}
          BY <4>4, <3>1
        <5> QED
          BY <5>1, <5>2, <3>2
      <4>7. \A j, k \in DOMAIN b : j < k => b[j] < b[k]
        BY <4>3, <4>5, <3>2, <3>3
      <4>8. \A j, k \in now : j < k => stack'[j].occ < stack'[k].occ
        BY <4>2, <4>4, <3>1, <3>2, <2>1 DEF len
      <4> QED
        BY <4>6, <4>7, <4>8 DEF b, now
    <3> QED
      BY <3>4, <3>5
  <2> QED
    BY <1>1, <2>2 DEF NumbersFollowFrames
<1> QED
  BY <1>2, <1>3

\* A number is given back with its frame, and no other is (releaseOccurrence).
LEMMA NumberGoes ==
  ASSUME Compiled, Typed, NumbersFollowFrames, stack # <<>>, Pops, asked'.occ = asked'.own
  PROVE  NumbersFollowFrames'
<1> DEFINE old == IdOf[Top.node]
           len == Len(stack)
<1>1. /\ len \in 1..len /\ len \in Nat /\ Top = stack[len] /\ DOMAIN stack = 1..len
      /\ \A k \in 1..len : stack[k] \in Frames
  BY StackIs
<1>2. /\ DOMAIN stack' = 1..len - 1
      /\ \A k \in 1..len - 1 : stack'[k].node = stack[k].node /\ stack'[k].occ = stack[k].occ
  BY Popping DEF Pops
<1>3. /\ old \in Ids /\ len \in FramesOf(old) /\ active[old] # <<>> /\ active[old] \in Seq(Nat)
      /\ active[old][Len(active[old])] = Top.occ
  BY Newest
<1>4. active' = [active EXCEPT ![old] = Front(@)]
  BY DEF Pops
<1>5. ASSUME NEW id \in Ids
      PROVE  /\ ToSet(active'[id]) = {stack'[k].occ : k \in FramesOf(id)'}
             /\ \A j, k \in DOMAIN active'[id] : j < k => active'[id][j] < active'[id][k]
             /\ \A j, k \in FramesOf(id)' : j < k => stack'[j].occ < stack'[k].occ
  <2> DEFINE was == FramesOf(id)
             now == FramesOf(id)'
             a == active[id]
             b == active'[id]
  <2>1. /\ now = IF id = old THEN was \ {len} ELSE was
        /\ \A k \in was : k \in 1..len /\ stack[k].occ \in Nat
        /\ \A k \in now : stack'[k].occ = stack[k].occ
    <3>1. \A k \in 1..len : stack[k].occ \in Nat
      BY <1>1 DEF Frames
    <3>2. was \subseteq 1..len
      BY <1>1 DEF FramesOf
    <3>3. now = {k \in 1..len - 1 : IdOf[stack[k].node] = id}
      BY <1>2 DEF FramesOf
    <3>4. was = {k \in 1..len : IdOf[stack[k].node] = id}
      BY <1>1 DEF FramesOf
    <3>5. IdOf[stack[len].node] = old
      BY <1>1
    <3> HIDE DEF was, now, old, len
    <3>6. now = IF id = old THEN was \ {len} ELSE was
      BY <3>3, <3>4, <3>5, <1>1 DEF len
    <3>7. \A k \in now : stack'[k].occ = stack[k].occ
      BY <3>3, <1>2 DEF len
    <3> QED
      BY <3>1, <3>2, <3>6, <3>7
  <2>2. /\ ToSet(a) = {stack[k].occ : k \in was}
        /\ \A j, k \in DOMAIN a : j < k => a[j] < a[k]
        /\ \A j, k \in was : j < k => stack[j].occ < stack[k].occ
    BY DEF NumbersFollowFrames
  <2>3. a \in Seq(Nat) /\ Len(a) \in Nat /\ DOMAIN a = 1..Len(a) /\ \A k \in 1..Len(a) : a[k] \in Nat
    BY LenProperties, ElementOfSeq DEF Typed
  <2>4. CASE id # old
    <3>1. b = a
      BY <1>4, <2>4 DEF Typed
    <3> HIDE DEF was, now, a, b
    <3>2. now = was /\ {stack'[k].occ : k \in now} = {stack[k].occ : k \in was}
      BY <2>1, <2>4
    <3> QED
      BY <3>1, <3>2, <2>1, <2>2 DEF b, now
  <2>5. CASE id = old
    <3>1. b = Front(a) /\ a # <<>> /\ a[Len(a)] = stack[len].occ /\ len \in was
      BY <1>1, <1>3, <1>4, <2>5 DEF Typed
    <3>2. now = was \ {len}
      BY <2>1, <2>5
    <3> HIDE DEF was, now, a, b, len
    <3>3. DOMAIN b = 1..Len(a) - 1 /\ \A k \in 1..Len(a) - 1 : b[k] = a[k]
      BY <3>1, <2>3, Shorter
    <3>4. PICK m \in Nat \ {0} : m = Len(a)
      BY <3>1, <2>3, EmptySeq
    <3>5. /\ ToSet(a) = {a[k] : k \in 1..m} /\ ToSet(b) = {a[k] : k \in 1..m - 1}
          /\ a[m] = stack[len].occ /\ \A k \in 1..m - 1 : a[k] < a[m] /\ a[k] \in Nat
      <4>1. DOMAIN b = 1..m - 1 /\ DOMAIN a = 1..m /\ \A k \in 1..m - 1 : b[k] = a[k]
        BY <3>3, <3>4, <2>3
      <4>2. ToSet(a) = {a[k] : k \in 1..m} /\ ToSet(b) = {b[k] : k \in 1..m - 1}
        BY <4>1 DEF ToSet
      <4>3. ToSet(b) = {a[k] : k \in 1..m - 1}
        BY <4>1, <4>2
      <4>4. a[m] = stack[len].occ
        BY <3>1, <3>4
      <4>5. \A k \in 1..m - 1 : k \in DOMAIN a /\ m \in DOMAIN a /\ k < m
        BY <4>1, <3>4
      <4>6. \A k \in 1..m - 1 : a[k] < a[m]
        BY <4>5, <2>2
      <4>7. \A k \in 1..m - 1 : a[k] \in Nat
        BY <4>1, <4>5, <3>4, <2>3
      <4> QED
        BY <4>2, <4>3, <4>4, <4>6, <4>7
    <3>6. /\ ToSet(a) = ToSet(b) \cup {stack[len].occ}
           /\ stack[len].occ \notin ToSet(b)
      BY SMTT(30), <3>4, <3>5, <2>3
    <3>7. {stack'[k].occ : k \in now} = {stack[k].occ : k \in was} \ {stack[len].occ}
      <4>1. \A k \in was \ {len} : stack[k].occ # stack[len].occ
        BY <3>1, <2>1, <2>2, <1>1
      <4> QED
        BY <4>1, <3>1, <3>2, <2>1
    <3>8. ToSet(b) = {stack'[k].occ : k \in now}
      BY <3>6, <3>7, <2>2
    <3>9. \A j, k \in DOMAIN b : j < k => b[j] < b[k]
      BY SMTT(30), <3>3, <2>2, <2>3
    <3>10. \A j, k \in now : j < k => stack'[j].occ < stack'[k].occ
      BY <3>2, <2>1, <2>2
    <3> QED
      BY <3>8, <3>9, <3>10 DEF b, now
  <2> QED
    BY <2>4, <2>5
<1> QED
  BY <1>5 DEF NumbersFollowFrames

\* The frames that are left were there.
LEMMA BelowIs ==
  ASSUME Typed, Below
  PROVE  /\ Len(stack) \in Nat /\ Len(stack') \in Nat /\ Len(stack') <= Len(stack)
         /\ DOMAIN stack = 1..Len(stack) /\ DOMAIN stack' = 1..Len(stack')
         /\ \A k \in 1..Len(stack') : /\ k \in 1..Len(stack) /\ stack'[k].node = stack[k].node
                                      /\ stack'[k].occ = stack[k].occ
<1>1. /\ Len(stack') \in {Len(stack), Len(stack) - 1} /\ Len(stack') \in Nat
      /\ DOMAIN stack' = 1..Len(stack')
      /\ \A k \in 1..Len(stack') : stack'[k].node = stack[k].node /\ stack'[k].occ = stack[k].occ
  BY DEF Below
<1>2. Len(stack) \in Nat /\ DOMAIN stack = 1..Len(stack)
  BY StackIs
<1>3. PICK n \in Nat : n = Len(stack)
  BY <1>2
<1>4. PICK m \in Nat : m = Len(stack') /\ m \in {n, n - 1}
  BY <1>1, <1>3
<1>5. m <= n /\ \A k \in 1..m : k \in 1..n
  BY <1>4
<1> QED
  BY <1>1, <1>2, <1>3, <1>4, <1>5

LEMMA NumbersInv ==
  ASSUME Compiled, Typed, NumbersFollowFrames, Counted, Placed, [NodeNext]_nodeVars
  PROVE  NumbersFollowFrames'
<1>1. CASE Quiet
  <2>1. asked'.occ = asked'.own /\ UNCHANGED active
    BY <1>1 DEF Quiet, NumbersFollowFrames
  <2> QED
    BY <1>1, <2>1, QuietBelow, NumbersStay
<1>2. ASSUME NEW n \in Nodes, NEW answer \in Answers, Enters(n, answer)
      PROVE  NumbersFollowFrames'
  BY <1>2, NumberComes
<1>3. ASSUME NEW phase \in Phases \ {"RUNNING"}, NEW answer \in Answers, Moves(phase, answer)
      PROVE  NumbersFollowFrames'
  <2>1. Writes(phase, answer) /\ stack # <<>>
    BY <1>3 DEF Moves, Writes
  <2>2. asked'.occ = asked'.own
    BY <2>1, WriteIs
  <2>3. CASE GoesOn(phase, answer) \/ Sticks(phase, answer)
    BY <2>1, <2>2, <2>3, TurnIs, StackRests, NumbersStay DEF GoesOn, Sticks
  <2>4. CASE EndsWell(phase, answer) \/ EndsBadly(phase, answer)
    BY <2>1, <2>2, <2>4, NumberGoes DEF EndsWell, EndsBadly
  <2> QED
    BY <1>3, <2>3, <2>4 DEF Moves
<1> QED
  BY <1>1, <1>2, <1>3, StepIs

-----------------------------------------------------------------------------
(* Where the frames are.                                                   *)

LEMMA FitsAlike ==
  ASSUME NEW f, NEW g, WithinLimits(f), PlacedAt(f), g.node = f.node, g.phase = f.phase,
         g.at = f.at, g.tries = f.tries, g.round = f.round
  PROVE  WithinLimits(g) /\ PlacedAt(g)
BY DEF WithinLimits, PlacedAt

LEMMA PlacedInv ==
  ASSUME Compiled, Typed, NumbersFollowFrames, Counted, Placed, [NodeNext]_nodeVars
  PROVE  Placed'
<1>1. ASSUME Below, Len(stack) \in DOMAIN stack' =>
                      WithinLimits(stack'[Len(stack)]) /\ PlacedAt(stack'[Len(stack)])
      PROVE  Placed'
  <2>1. SUFFICES ASSUME NEW k \in 1..Len(stack')
                 PROVE  WithinLimits(stack'[k]) /\ PlacedAt(stack'[k])
    BY <1>1 DEF Placed, Below, WithinLimits, PlacedAt
  <2>2. k \in DOMAIN stack /\ Len(stack) \in Nat
    BY <1>1, <2>1, BelowIs
  <2>3. CASE k = Len(stack)
    BY <1>1, <2>1, <2>3 DEF Below
  <2>4. CASE k # Len(stack)
    <3>1. WithinLimits(stack[k]) /\ PlacedAt(stack[k])
      BY <2>2 DEF Placed
    <3> QED
      BY <1>1, <2>1, <2>4, <3>1, FitsAlike DEF Below
  <2> QED
    BY <2>3, <2>4
<1>2. ASSUME NEW phase, stack # <<>>, Turns(phase) PROVE Placed'
  BY <1>1, <1>2, TurnIs, SameIsBelow
<1>3. ASSUME stack' = stack PROVE Placed'
  BY <1>3 DEF Placed, WithinLimits, PlacedAt
<1>4. CASE Quiet
  BY <1>2, <1>3, <1>4 DEF Quiet
<1>5. ASSUME NEW n \in Nodes, NEW answer \in Answers, Enters(n, answer)
      PROVE  Placed'
  <2>1. CASE answer # "ok"
    BY <1>3, <1>5, <2>1, EnterIs
  <2>2. CASE answer = "ok"
    <3>1. /\ DOMAIN stack' = 1..Len(stack) + 1 /\ \A k \in 1..Len(stack) : stack'[k] = stack[k]
          /\ WithinLimits(stack'[Len(stack) + 1]) /\ PlacedAt(stack'[Len(stack) + 1])
      BY <1>5, <2>2, EnterIs
    <3>2. DOMAIN stack = 1..Len(stack) /\ Len(stack) \in Nat
      BY StackIs
    <3>3. \A k \in DOMAIN stack' : WithinLimits(stack'[k]) /\ PlacedAt(stack'[k])
      <4>1. TAKE k \in DOMAIN stack'
      <4>2. CASE k = Len(stack) + 1
        BY <3>1, <4>2
      <4>3. CASE k # Len(stack) + 1
        <5>1. k \in DOMAIN stack /\ stack'[k] = stack[k]
          BY <3>1, <3>2, <4>1, <4>3
        <5> QED
          BY <5>1 DEF Placed
      <4> QED
        BY <4>2, <4>3
    <3> QED
      BY <3>3 DEF Placed, WithinLimits, PlacedAt
  <2> QED
    BY <2>1, <2>2
<1>6. ASSUME NEW phase \in Phases \ {"RUNNING"}, NEW answer \in Answers, Moves(phase, answer)
      PROVE  Placed'
  <2>1. stack # <<>>
    BY <1>6, PhaseIs
  <2>2. CASE GoesOn(phase, answer)
    BY <1>2, <2>1, <2>2 DEF GoesOn
  <2>3. CASE Sticks(phase, answer)
    BY <1>3, <2>3 DEF Sticks
  <2>4. CASE EndsWell(phase, answer) \/ EndsBadly(phase, answer)
    <3>1. Below /\ Len(stack') = Len(stack) - 1
      BY <2>1, <2>4, PopIsBelow DEF EndsWell, EndsBadly
    <3>2. Len(stack) \notin DOMAIN stack'
      BY <3>1, StackIs DEF Below
    <3> QED
      BY <1>1, <3>1, <3>2
  <2> QED
    BY <1>6, <2>2, <2>3, <2>4 DEF Moves
<1> QED
  BY <1>4, <1>5, <1>6, StepIs

-----------------------------------------------------------------------------
(* The numbers that were counted.                                          *)

LEMMA CountedInv ==
  ASSUME Compiled, Typed, NumbersFollowFrames, Counted, Placed, [NodeNext]_nodeVars
  PROVE  Counted'
<1>1. /\ Len(stack) \in Nat /\ DOMAIN stack = 1..Len(stack)
      /\ \A k \in 1..Len(stack) : stack[k].occ <= occurrences[IdOf[stack[k].node]]
      /\ \A i \in Ids : /\ occurrences[i] <= Len(facts[i])
                        /\ ~failing => occurrences[i] = Len(facts[i])
      /\ \A i \in Ids : occurrences[i] \in Nat /\ Len(facts[i]) \in Nat
  BY StackIs, LenProperties DEF Counted, Typed
<1>2. ASSUME Below, UNCHANGED occurrences, \A i \in Ids : Len(facts'[i]) = Len(facts[i]),
             failing => failing'
      PROVE  Counted'
  <2>1. \A k \in 1..Len(stack') : /\ stack'[k].node = stack[k].node
                                  /\ stack'[k].occ = stack[k].occ /\ k \in 1..Len(stack)
    BY <1>2, BelowIs
  <2>2. DOMAIN stack' = 1..Len(stack')
    BY <1>2, BelowIs
  <2> QED
    BY <1>1, <1>2, <2>1, <2>2 DEF Counted
<1>3. CASE Quiet
  BY <1>2, <1>3, QuietBelow DEF Quiet
<1>4. ASSUME NEW n \in Nodes, NEW answer \in Answers, Enters(n, answer)
      PROVE  Counted'
  <2> DEFINE id == IdOf[n]
             occ == occurrences[id] + 1
  <2>1. id \in Ids /\ Sink(id, occ, "RUNNING", answer) /\ failing' = (answer # "ok") /\ ~failing
    BY <1>4, EnterIs DEF Enters
  <2>2. /\ \A i \in Ids : answer = "refused" \/ i # id => facts'[i] = facts[i]
        /\ answer # "refused" => Len(facts'[id]) = Len(facts[id]) + 1
    <3> HIDE DEF id, occ
    <3> QED
      BY <2>1, Begun
  <2>3. CASE answer # "ok"
    <3>1. UNCHANGED <<occurrences, stack>>
      BY <1>4, <2>3, EnterIs
    <3>2. \A i \in Ids : occurrences'[i] <= Len(facts'[i])
      <4>1. TAKE i \in Ids
      <4>2. Len(facts[i]) <= Len(facts'[i]) /\ Len(facts'[i]) \in Nat
        BY <1>1, <2>1, <2>2
      <4> QED
        BY <1>1, <3>1, <4>2
    <3> QED
      BY <1>1, <2>1, <2>3, <3>1, <3>2 DEF Counted
  <2>4. CASE answer = "ok"
    <3>1. /\ DOMAIN stack' = 1..Len(stack) + 1 /\ \A k \in 1..Len(stack) : stack'[k] = stack[k]
          /\ stack'[Len(stack) + 1].node = n /\ stack'[Len(stack) + 1].occ = occ
          /\ occurrences' = [occurrences EXCEPT ![id] = occ]
      BY <1>4, <2>4, EnterIs
    <3>2. \A i \in Ids : occurrences'[i] = IF i = id THEN occ ELSE occurrences[i]
      BY <3>1 DEF Typed
    <3>3. \A i \in Ids : occurrences'[i] = Len(facts'[i])
      <4>1. TAKE i \in Ids
      <4>2. occurrences[i] = Len(facts[i])
        BY <1>1, <2>1
      <4>3. CASE i = id
        BY <2>2, <2>4, <3>2, <4>2, <4>3
      <4>4. CASE i # id
        BY <2>2, <3>2, <4>2, <4>4
      <4> QED
        BY <4>3, <4>4
    <3>4. \A k \in DOMAIN stack' : stack'[k].occ <= occurrences'[IdOf[stack'[k].node]]
      <4>1. TAKE k \in DOMAIN stack'
      <4>2. CASE k = Len(stack) + 1
        BY <1>1, <2>1, <3>1, <3>2, <4>2
      <4>3. CASE k # Len(stack) + 1
        <5>1. k \in 1..Len(stack) /\ stack'[k] = stack[k]
          BY <1>1, <3>1, <4>1, <4>3
        <5>2. stack[k].occ <= occurrences[IdOf[stack[k].node]] /\ IdOf[stack[k].node] \in Ids
              /\ stack[k].occ \in Nat
          BY <1>1, <5>1, StackIs DEF Frames, Ids
        <5>3. occurrences[IdOf[stack[k].node]] <= occurrences'[IdOf[stack[k].node]]
          BY <1>1, <2>1, <3>2, <5>2
        <5> QED
          BY <1>1, <2>1, <3>2, <5>1, <5>2, <5>3
      <4> QED
        BY <4>2, <4>3
    <3>5. \A i \in Ids : occurrences'[i] <= Len(facts'[i])
      BY <1>1, <2>1, <2>2, <2>4, <3>3
    <3> QED
      BY <3>3, <3>4, <3>5 DEF Counted
  <2> QED
    BY <2>3, <2>4
<1>5. ASSUME NEW phase \in Phases \ {"RUNNING"}, NEW answer \in Answers, Moves(phase, answer)
      PROVE  Counted'
  <2>1. Below /\ Writes(phase, answer)
    BY <1>5, MovesBelow DEF Moves
  <2>2. \A i \in Ids : Len(facts'[i]) = Len(facts[i])
    BY <2>1, WriteIs
  <2>3. UNCHANGED occurrences /\ (failing => failing')
    BY <2>1 DEF Writes
  <2> QED
    BY <1>2, <2>1, <2>2, <2>3
<1> QED
  BY <1>3, <1>4, <1>5, StepIs

-----------------------------------------------------------------------------
(* What is on record of the frames.                                        *)

\* What is on record of one frame.
FrameOnRecord(k) ==
  LET fact == facts[IdOf[stack[k].node]][stack[k].occ]
  IN /\ fact.phase \notin Live => fact.phase = "SUCCEEDED" /\ Name(k) \in lost
     /\ ~failing => fact.phase = stack[k].phase
     /\ fact.under = IF k = 1 THEN NoOne ELSE Name(k - 1)

LEMMA FramesOnRecord ==
  OnRecord <=> \A k \in DOMAIN stack : FrameOnRecord(k)
BY DEF OnRecord, FrameOnRecord, Name

LEMMA NamesBelow ==
  ASSUME Typed, Below
  PROVE  \A k \in 1..Len(stack') : Name(k)' = Name(k)
BY BelowIs DEF Name

LEMMA RecordInv ==
  ASSUME Compiled, Typed, NumbersFollowFrames, Counted, Placed, OnRecord, [NodeNext]_nodeVars
  PROVE  OnRecord'
<1> DEFINE len == Len(stack)
<1>1. /\ len \in Nat /\ DOMAIN stack = 1..len
      /\ \A k \in 1..len : FrameOnRecord(k) /\ stack[k] \in Frames
  BY StackIs, FramesOnRecord
<1>2. SUFFICES ASSUME NEW k \in DOMAIN stack'
               PROVE  LET fact == facts'[IdOf[stack'[k].node]][stack'[k].occ]
                      IN /\ fact.phase \notin Live => fact.phase = "SUCCEEDED" /\ Name(k)' \in lost'
                         /\ ~failing' => fact.phase = stack'[k].phase
                         /\ fact.under = IF k = 1 THEN NoOne ELSE Name(k - 1)'
  BY DEF OnRecord, Name
\* The frame stays, and so does what is on record of it.
<1>3. ASSUME Below, k \in 1..len, stack'[k].phase = stack[k].phase, failing => failing',
             lost \subseteq lost',
             LET was == facts[IdOf[stack[k].node]][stack[k].occ]
                 is == facts'[IdOf[stack[k].node]][stack[k].occ]
             IN is.phase = was.phase /\ is.under = was.under
      PROVE  LET fact == facts'[IdOf[stack'[k].node]][stack'[k].occ]
             IN /\ fact.phase \notin Live => fact.phase = "SUCCEEDED" /\ Name(k)' \in lost'
                /\ ~failing' => fact.phase = stack'[k].phase
                /\ fact.under = IF k = 1 THEN NoOne ELSE Name(k - 1)'
  <2>1. /\ k \in 1..Len(stack') /\ stack'[k].node = stack[k].node /\ stack'[k].occ = stack[k].occ
        /\ Name(k)' = Name(k)
    BY <1>2, <1>3, BelowIs, NamesBelow
  <2>2. k # 1 => k - 1 \in 1..Len(stack')
    <3>1. PICK m \in Nat : m = Len(stack')
      BY <1>3, BelowIs
    <3>2. k \in 1..m
      BY <2>1, <3>1
    <3> QED
      BY <3>1, <3>2
  <2>3. k # 1 => Name(k - 1)' = Name(k - 1)
    BY <1>3, <2>2, NamesBelow
  <2>4. FrameOnRecord(k)
    BY <1>1, <1>3
  <2> QED
    BY <1>3, <2>1, <2>3, <2>4 DEF FrameOnRecord
<1>4. CASE Quiet
  <2>1. SameNames /\ Below /\ Len(stack') = len /\ k \in 1..len
    BY <1>2, <1>4, QuietBelow DEF SameNames
  <2>2. stack'[k].phase = stack[k].phase
    <3>1. CASE k # len
      BY <2>1, <3>1 DEF SameNames
    <3>2. CASE k = len
      BY <1>4, <3>2, TurnIs DEF Quiet, Top
    <3> QED
      BY <3>1, <3>2
  <2> QED
    BY <1>3, <1>4, <2>1, <2>2 DEF Quiet
<1>5. ASSUME NEW n \in Nodes, NEW answer \in Answers, Enters(n, answer)
      PROVE  LET fact == facts'[IdOf[stack'[k].node]][stack'[k].occ]
             IN /\ fact.phase \notin Live => fact.phase = "SUCCEEDED" /\ Name(k)' \in lost'
                /\ ~failing' => fact.phase = stack'[k].phase
                /\ fact.under = IF k = 1 THEN NoOne ELSE Name(k - 1)'
  <2> DEFINE id == IdOf[n]
             occ == occurrences[id] + 1
  <2>1. id \in Ids /\ Sink(id, occ, "RUNNING", answer) /\ ~failing
    BY <1>5, EnterIs DEF Enters
  <2>2. /\ lost' = lost
        /\ \A i \in Ids : \A o \in DOMAIN facts[i] : facts'[i][o] = facts[i][o]
        /\ answer # "refused" => /\ facts'[id][Len(facts'[id])].phase = "RUNNING"
                                 /\ facts'[id][Len(facts'[id])].under = Under
        /\ answer # "refused" => Len(facts'[id]) = Len(facts[id]) + 1
    <3> HIDE DEF id, occ, len
    <3>1. lost' = lost
      BY <2>1, Begun
    <3>2. \A i \in Ids : \A o \in DOMAIN facts[i] : facts'[i][o] = facts[i][o]
      BY <2>1, Begun
    <3>3. answer # "refused" => /\ facts'[id][Len(facts'[id])].phase = "RUNNING"
                                /\ facts'[id][Len(facts'[id])].under = Under
      BY <2>1, Begun
    <3>4. answer # "refused" => Len(facts'[id]) = Len(facts[id]) + 1
      BY <2>1, Begun
    <3> QED
      BY <3>1, <3>2, <3>3, <3>4
  <2>3. ASSUME k \in 1..len
        PROVE  LET was == facts[IdOf[stack[k].node]][stack[k].occ]
                   is == facts'[IdOf[stack[k].node]][stack[k].occ]
               IN is.phase = was.phase /\ is.under = was.under
    <3>1. IdOf[stack[k].node] \in Ids /\ stack[k].occ \in DOMAIN facts[IdOf[stack[k].node]]
      BY <2>3, FrameIsKnown
    <3> QED
      BY <2>2, <3>1
  <2>4. CASE answer # "ok"
    <3>1. stack' = stack /\ Below
      BY <1>5, <2>4, EnterIs, StackRests, SameIsBelow
    <3> QED
      BY <1>1, <1>2, <1>3, <2>1, <2>2, <2>3, <3>1
  <2>5. CASE answer = "ok"
    <3>1. /\ DOMAIN stack' = 1..len + 1 /\ \A j \in 1..len : stack'[j] = stack[j]
          /\ stack'[len + 1].node = n /\ stack'[len + 1].occ = occ
          /\ stack'[len + 1].phase = "RUNNING" /\ failing' = FALSE
      BY <1>5, <2>5, EnterIs
    <3>2. \A j \in 1..len : Name(j)' = Name(j)
      BY <3>1 DEF Name
    <3>3. occ = Len(facts[id]) + 1
      BY <2>1 DEF Counted
    <3>4. CASE k \in 1..len
      <4>1. k # 1 => k - 1 \in 1..len
        BY <1>1, <3>4
      <4>2. FrameOnRecord(k)
        BY <1>1, <3>4
      <4> QED
        BY ZenonT(60), <2>1, <2>2, <2>3, <3>1, <3>2, <3>4, <4>1, <4>2 DEF FrameOnRecord
    <3>5. CASE k = len + 1
      <4>1. Under = IF k = 1 THEN NoOne ELSE Name(k - 1)
        <5>1. CASE len = 0
          <6>1. stack = <<>>
            BY <5>1, EmptySeq DEF Typed
          <6> QED
            BY <3>5, <5>1, <6>1 DEF Under
        <5>2. CASE len # 0
          <6>1. stack # <<>> /\ k # 1 /\ k - 1 = len
            BY <1>1, <3>5, <5>2, EmptySeq
          <6> QED
            BY <6>1, StackIs DEF Under
        <5> QED
          BY <5>1, <5>2
      <4>2. k # 1 => k - 1 \in 1..len
        BY <1>1, <3>5
      <4>3. facts'[IdOf[stack'[k].node]][stack'[k].occ] = facts'[id][Len(facts'[id])]
        BY <2>2, <2>5, <3>1, <3>3, <3>5
      <4>4. stack'[k].phase = "RUNNING"
        BY <3>1, <3>5
      <4> HIDE DEF id, occ
      <4> QED
        BY <2>2, <2>5, <3>2, <4>1, <4>2, <4>3, <4>4 DEF Live
    <3> QED
      BY <1>1, <1>2, <3>1, <3>4, <3>5
  <2> QED
    BY <2>4, <2>5
<1>6. ASSUME NEW phase \in Phases \ {"RUNNING"}, NEW answer \in Answers, Moves(phase, answer)
      PROVE  LET fact == facts'[IdOf[stack'[k].node]][stack'[k].occ]
             IN /\ fact.phase \notin Live => fact.phase = "SUCCEEDED" /\ Name(k)' \in lost'
                /\ ~failing' => fact.phase = stack'[k].phase
                /\ fact.under = IF k = 1 THEN NoOne ELSE Name(k - 1)'
  <2> DEFINE id == IdOf[Top.node]
             occ == Top.occ
  <2>1. Writes(phase, answer) /\ stack # <<>> /\ Below /\ (failing => failing')
    BY <1>6, PhaseIs, MovesBelow DEF Moves
  <2>2. /\ id \in Ids /\ occ \in DOMAIN facts[id] /\ <<id, occ>> = Name(len)
        /\ len \in 1..len /\ Top = stack[len] /\ lost \subseteq lost'
        /\ answer = "lost" /\ phase = "SUCCEEDED" => <<id, occ>> \in lost'
        /\ \A i \in Ids : \A o \in DOMAIN facts[i] :
             /\ facts'[i][o].under = facts[i][o].under
             /\ facts'[i][o].phase = IF answer # "refused" /\ i = id /\ o = occ
                                     THEN phase ELSE facts[i][o].phase
    <3> HIDE DEF len
    <3>1. /\ id \in Ids /\ occ \in DOMAIN facts[id] /\ <<id, occ>> = Name(Len(stack))
          /\ Len(stack) \in 1..Len(stack) /\ Top = stack[Len(stack)] /\ lost \subseteq lost'
          /\ (answer = "lost" /\ phase = "SUCCEEDED" => <<id, occ>> \in lost')
      BY <2>1, WriteIs
    <3>2. \A i \in Ids : \A o \in DOMAIN facts[i] :
             /\ facts'[i][o].under = facts[i][o].under
             /\ facts'[i][o].phase = IF answer # "refused" /\ i = id /\ o = occ
                                     THEN phase ELSE facts[i][o].phase
      BY <2>1, WriteIs
    <3> QED
      BY <3>1, <3>2 DEF len
  <2>3. k \in 1..Len(stack') /\ k \in 1..len
    BY <1>2, <2>1, BelowIs
  <2> DEFINE i == IdOf[stack[k].node]
             o == stack[k].occ
  <2>4. i \in Ids /\ o \in DOMAIN facts[i] /\ <<i, o>> = Name(k)
    BY <2>3, FrameIsKnown
  <2>5. CASE k # len
    <3>1. ~(i = id /\ o = occ)
      BY <2>2, <2>3, <2>4, <2>5, Distinct
    <3>2. stack'[k].phase = stack[k].phase
      BY <2>1, <2>3, <2>5 DEF Below
    <3>3. facts'[i][o].phase = facts[i][o].phase /\ facts'[i][o].under = facts[i][o].under
      BY <2>2, <2>4, <3>1
    <3> QED
      BY <1>3, <2>1, <2>2, <2>3, <3>2, <3>3
  <2>6. CASE k = len
    <3>1. i = id /\ o = occ /\ FrameOnRecord(k) /\ stack[k].phase \in Live
      BY <1>1, <2>2, <2>3, <2>6 DEF Frames
    <3>2. /\ facts'[id][occ].under = facts[id][occ].under
          /\ facts'[id][occ].phase = IF answer # "refused" THEN phase ELSE facts[id][occ].phase
      BY <2>2
    <3>3. stack'[k].node = stack[k].node /\ stack'[k].occ = stack[k].occ
      BY <2>1, <2>3, BelowIs
    <3>4. Name(k)' = Name(k) /\ (k # 1 => Name(k - 1)' = Name(k - 1))
      <4>1. PICK m \in Nat : m = Len(stack')
        BY <2>1, BelowIs
      <4>2. k \in 1..m
        BY <2>3, <4>1
      <4>3. k # 1 => k - 1 \in 1..m
        BY <4>2
      <4> QED
        BY <2>1, <4>1, <4>2, <4>3, NamesBelow
    <3>5. facts[id][occ].under = IF k = 1 THEN NoOne ELSE Name(k - 1)
      BY <3>1 DEF FrameOnRecord
    <3>6. CASE GoesOn(phase, answer)
      <4>1. stack'[k].phase = phase /\ phase \in Live /\ answer = "ok"
        BY <2>1, <2>6, <3>6, TurnIs DEF GoesOn
      <4> HIDE DEF id, occ, i, o
      <4>2. facts'[id][occ].phase = phase
        BY <3>2, <4>1
      <4> QED
        BY <3>1, <3>2, <3>3, <3>4, <3>5, <4>1, <4>2 DEF id, occ, i, o
    <3>7. CASE Sticks(phase, answer)
      <4>1. ~failing /\ failing' /\ answer # "ok" /\ phase \in Live \cup {"SUCCEEDED"}
        BY <3>7 DEF Sticks
      <4>2. facts[id][occ].phase \in Live
        BY <3>1, <4>1 DEF FrameOnRecord
      <4>3. facts'[id][occ].phase \notin Live => phase = "SUCCEEDED" /\ answer = "lost"
                                                 /\ facts'[id][occ].phase = phase
        BY <3>2, <4>1, <4>2 DEF Answers
      <4>4. Name(k)' = <<id, occ>>
        BY <2>2, <2>6, <3>4
      <4> QED
        <5>1. <<id, occ>> \in lost' <=> Name(k)' \in lost'
          BY <4>4
        <5> HIDE DEF id, occ, i, o
        <5>2. /\ facts'[id][occ].phase \notin Live =>
                    facts'[id][occ].phase = "SUCCEEDED" /\ Name(k)' \in lost'
              /\ facts'[id][occ].under = IF k = 1 THEN NoOne ELSE Name(k - 1)'
          BY <2>2, <3>2, <3>4, <3>5, <4>3, <5>1
        <5> QED
          BY <3>1, <3>3, <4>1, <5>2 DEF id, occ, i, o
    <3>8. CASE EndsWell(phase, answer) \/ EndsBadly(phase, answer)
      <4>1. Len(stack') = len - 1
        BY <2>1, <3>8, PopIsBelow DEF EndsWell, EndsBadly
      <4> QED
        BY <1>1, <2>3, <2>6, <4>1
    <3> QED
      BY <1>6, <3>6, <3>7, <3>8 DEF Moves
  <2> QED
    BY <2>5, <2>6
<1> QED
  BY <1>4, <1>5, <1>6, StepIs

-----------------------------------------------------------------------------
(* What few actions change: the context, the overlay, what was staged, the  *)
(* effects.                                                                *)

LEMMA RarelyChanged ==
  ASSUME Typed, [NodeNext]_nodeVars
  PROVE  /\ canceled' \in BOOLEAN /\ failing' \in BOOLEAN
         /\ canceled => canceled'
         /\ RefuseHealing \/ ApplyHealing \/ UNCHANGED <<overlay, healer, staged>>
         /\ Act \/ UNCHANGED effects
<1> USE DEF Typed
<1>1. CASE Start
  BY <1>1 DEF Start, Enter
<1>2. CASE EnterChild
  BY <1>2 DEF EnterChild, Enter
<1>3. CASE FinishPlainly \/ FinishStep
  BY <1>3 DEF FinishPlainly, FinishStep
<1>4. CASE Fail
  BY <1>4 DEF Fail, EmitAndReturn
<1>5. CASE NextRound \/ LeafFails \/ Cancel \/ SkipOptional \/ WaitHolds \/ ValidationHolds
            \/ Done \/ UNCHANGED nodeVars
  BY <1>5 DEF NextRound, LeafFails, Cancel, SkipOptional, WaitHolds, ValidationHolds, Done, nodeVars
<1>6. CASE Located \/ StartHealing \/ StartValidating
  BY <1>6 DEF Located, StartHealing, StartValidating, EmitProgress
<1>7. CASE RefuseHealing
  BY <1>7 DEF RefuseHealing
<1>8. CASE ApplyHealing
  BY <1>8 DEF ApplyHealing, InstallOverlay
<1>9. CASE Act
  BY <1>9 DEF Act
<1> QED
  BY <1>1, <1>2, <1>3, <1>4, <1>5, <1>6, <1>7, <1>8, <1>9 DEF NodeNext

\* The overlay that a heal leaves behind.
Installed(s, sel) ==
  /\ overlay' = [overlay EXCEPT ![s] = promoteSelector(effectiveSpec(s), sel)]
  /\ healer' = [healer EXCEPT ![s] = Name(Len(stack))]

\* A heal is applied where the decision was staged, by the step or the
\* validation that runs (heal, ValidationNode.locate).
LEMMA HealingIs ==
  ASSUME Compiled, Typed, Placed, ApplyHealing
  PROVE  /\ stack # <<>> /\ KindOf[Top.node] \in {"step", "validation"}
         /\ SpecOf[Top.node] \in Specs /\ staged \subseteq staged'
         /\ \/ failing' /\ UNCHANGED <<overlay, healer>>
            \/ \E sel \in Selectors :
                 /\ Installed(SpecOf[Top.node], sel)
                 /\ Decision("HEALED", sel) \in staged'
<1>1. stack # <<>> /\ Running /\ KindOf[Top.node] \in {"step", "validation"}
  BY DEF ApplyHealing, Healing, At, Running
<1>2. Top \in Frames /\ Name(Len(stack)) = <<IdOf[Top.node], Top.occ>>
  BY <1>1, StackIs
<1>3. SpecOf[Top.node] \in Specs
  BY <1>1, <1>2 DEF Frames, Compiled, Specs
<1>4. PICK sel \in Selectors, answer \in Answers :
        /\ staged' = IF answer = "refused" THEN staged
                     ELSE staged \cup {Decision("HEALED", sel)}
        /\ InstallOverlay(SpecOf[Top.node], sel, answer)
  BY DEF ApplyHealing
<1>5. CASE answer = "ok"
  BY <1>1, <1>2, <1>3, <1>4, <1>5 DEF InstallOverlay, Installed
<1>6. CASE answer # "ok"
  BY <1>1, <1>3, <1>4, <1>6 DEF InstallOverlay
<1> QED
  BY <1>5, <1>6

\* What a target is looked for with.
LEMMA EffectiveIs ==
  ASSUME Compiled, Typed, NEW s \in Specs, NEW sel \in Selectors
  PROVE  LET base == effectiveSpec(s)
             p == promoteSelector(base, sel)
         IN /\ base \in Seq(Known) /\ p \in Seq(Known) /\ p # <<>> /\ p[1] = sel
            /\ ToSet(p) = ToSet(base) \cup {sel}
            /\ \A x : Twice(p, x) => Twice(base, x)
<1> DEFINE base == effectiveSpec(s)
<1>1. sel \in Known /\ ToSet(Canonical[s]) \subseteq Known
  BY DEF Known
<1>2. Canonical[s] \in Seq(ToSet(Canonical[s])) /\ overlay[s] \in Seq(Known)
  BY DEF Compiled, Typed
<1>3. Canonical[s] \in Seq(Known)
  <2>1. PICK list : list = Canonical[s]
    OBVIOUS
  <2>2. \A k \in 1..Len(list) : list[k] \in Known
    BY <1>1, <1>2, <2>1, ElementOfSeq
  <2>3. Len(list) \in Nat /\ list \in [1..Len(list) -> Known]
    BY <1>2, <2>1, <2>2, LenProperties
  <2> QED
    BY <2>1, <2>3, SeqDef
<1>4. base \in Seq(Known)
  BY <1>2, <1>3 DEF effectiveSpec
<1> HIDE DEF base
<1>5. Known \cup {sel} = Known
  BY <1>1
<1>6. PICK p : p = promoteSelector(base, sel)
  OBVIOUS
<1>7. /\ p \in Seq(Known \cup {sel}) /\ p # <<>> /\ p[1] = sel
      /\ ToSet(p) = ToSet(base) \cup {sel}
      /\ \A x : Twice(p, x) => Twice(base, x)
  BY <1>4, <1>6, Promoted
<1> QED
  BY <1>4, <1>5, <1>6, <1>7 DEF base

-----------------------------------------------------------------------------
(* The shape of the state.                                                 *)

LEMMA OverlayTyped ==
  ASSUME Compiled, Typed, Placed, [NodeNext]_nodeVars
  PROVE  overlay' \in [Specs -> Seq(Known)] /\ healer' \in [Specs -> Names \cup {NoOne}]
<1>1. CASE UNCHANGED <<overlay, healer>>
  BY <1>1 DEF Typed
<1>2. CASE ApplyHealing /\ ~UNCHANGED <<overlay, healer>>
  <2>1. PICK s \in Specs, sel \in Selectors : Installed(s, sel) /\ stack # <<>>
    BY <1>2, HealingIs
  <2>2. PICK p \in Seq(Known) : p = promoteSelector(effectiveSpec(s), sel)
    BY EffectiveIs
  <2>3. Name(Len(stack)) \in Names
    BY <2>1, StackIs
  <2> QED
    BY <2>1, <2>2, <2>3 DEF Installed, Typed
<1> QED
  BY <1>1, <1>2, RarelyChanged DEF RefuseHealing

LEMMA TypedInv ==
  ASSUME Compiled, Typed, NumbersFollowFrames, Counted, Placed, [NodeNext]_nodeVars
  PROVE  Typed'
<1>1. /\ canceled' \in BOOLEAN /\ failing' \in BOOLEAN
      /\ overlay' \in [Specs -> Seq(Known)] /\ healer' \in [Specs -> Names \cup {NoOne}]
  BY RarelyChanged, OverlayTyped
<1>2. SUFFICES /\ stack' \in Seq(Frames) /\ occurrences' \in [Ids -> Nat]
               /\ active' \in [Ids -> Seq(Nat)] /\ facts' \in [Ids -> Seq(FactSet)]
               /\ asked'.id \in Ids
  BY <1>1 DEF Typed
<1>3. CASE Quiet
  BY <1>3, QuietBelow DEF Quiet, Below, Typed
<1>4. ASSUME NEW n \in Nodes, NEW answer \in Answers, Enters(n, answer)
      PROVE  /\ stack' \in Seq(Frames) /\ occurrences' \in [Ids -> Nat]
             /\ active' \in [Ids -> Seq(Nat)] /\ facts' \in [Ids -> Seq(FactSet)]
             /\ asked'.id \in Ids
  <2> DEFINE id == IdOf[n]
             occ == occurrences[id] + 1
  <2>1. /\ id \in Ids /\ occ \in Nat /\ Ask(id, occ, occ, "RUNNING") /\ Sink(id, occ, "RUNNING", answer)
        /\ answer # "ok" => UNCHANGED <<occurrences, active, stack>>
        /\ answer = "ok" => /\ occurrences' = [occurrences EXCEPT ![id] = occ]
                            /\ active' = [active EXCEPT ![id] = Append(@, occ)]
                            /\ stack' \in Seq(Frames)
    BY <1>4, EnterIs
  <2> HIDE DEF id, occ
  <2>2. facts' \in [Ids -> Seq(FactSet)]
    BY <2>1, Begun
  <2>3. asked'.id \in Ids
    BY <2>1 DEF Ask
  <2>4. PICK list \in Seq(Nat) : list = Append(active[id], occ)
    BY <2>1, Longer DEF Typed
  <2>5. occurrences' \in [Ids -> Nat] /\ active' \in [Ids -> Seq(Nat)] /\ stack' \in Seq(Frames)
    BY <2>1, <2>4 DEF Typed
  <2> QED
    BY <2>2, <2>3, <2>5
<1>5. ASSUME NEW phase \in Phases \ {"RUNNING"}, NEW answer \in Answers, Moves(phase, answer)
      PROVE  /\ stack' \in Seq(Frames) /\ occurrences' \in [Ids -> Nat]
             /\ active' \in [Ids -> Seq(Nat)] /\ facts' \in [Ids -> Seq(FactSet)]
             /\ asked'.id \in Ids
  <2>1. Below /\ Writes(phase, answer) /\ stack # <<>>
    BY <1>5, MovesBelow, PhaseIs DEF Moves
  <2>2. facts' \in [Ids -> Seq(FactSet)] /\ asked'.id \in Ids
    BY <2>1, WriteIs
  <2>3. occurrences' \in [Ids -> Nat]
    BY <2>1 DEF Writes, Typed
  <2>4. active' \in [Ids -> Seq(Nat)]
    <3>1. CASE UNCHANGED active
      BY <3>1 DEF Typed
    <3>2. CASE Pops
      <4>1. PICK id \in Ids : id = IdOf[Top.node] /\ active[id] # <<>> /\ active[id] \in Seq(Nat)
        BY <2>1, Newest
      <4>2. PICK list \in Seq(Nat) : list = Front(active[id])
        BY <4>1, Shorter
      <4> QED
        BY <3>2, <4>1, <4>2 DEF Pops, Typed
    <3> QED
      BY <1>5, <3>1, <3>2 DEF Moves, GoesOn, Sticks, EndsWell, EndsBadly
  <2> QED
    BY <2>1, <2>2, <2>3, <2>4 DEF Below
<1> QED
  BY <1>3, <1>4, <1>5, StepIs

-----------------------------------------------------------------------------
(* What is asked of the sink, and what is done to the page.                *)

LEMMA NeverReusedInv ==
  ASSUME Compiled, Typed, NumbersFollowFrames, Counted, Placed,
         NumbersAreNeverReused, [NodeNext]_nodeVars
  PROVE  NumbersAreNeverReused'
<1>1. CASE Quiet
  BY <1>1 DEF Quiet, NumbersAreNeverReused
<1>2. ASSUME NEW n \in Nodes, NEW answer \in Answers, Enters(n, answer)
      PROVE  NumbersAreNeverReused'
  <2> DEFINE id == IdOf[n]
             occ == occurrences[id] + 1
  <2>1. id \in Ids /\ Ask(id, occ, occ, "RUNNING") /\ ~failing /\ occurrences[id] \in Nat
    BY <1>2, EnterIs DEF Enters
  <2>2. occurrences[id] = Len(facts[id]) /\ DOMAIN facts[id] = 1..Len(facts[id])
    BY <2>1, LenProperties DEF Counted, Typed
  <2>3. occ \notin DOMAIN facts[id]
    BY <2>1, <2>2
  <2>4. ValidatePhaseTransition(id, occ, "RUNNING")
    BY <2>3 DEF ValidatePhaseTransition, Stored, NextPhases
  <2> HIDE DEF id, occ
  <2> QED
    BY <2>1, <2>4 DEF Ask, NumbersAreNeverReused
<1>3. ASSUME NEW phase \in Phases \ {"RUNNING"}, NEW answer \in Answers, Moves(phase, answer)
      PROVE  NumbersAreNeverReused'
  <2>1. asked'.phase = phase
    BY <1>3 DEF Moves, Writes, Ask
  <2> QED
    BY <2>1 DEF NumbersAreNeverReused
<1> QED
  BY <1>1, <1>2, <1>3, StepIs

LEMMA OnlyLostInv ==
  ASSUME Compiled, Typed, NumbersFollowFrames, Counted, Placed, OnRecord,
         NumbersAreNeverReused, OnlyALostSuccessIsContradicted, [NodeNext]_nodeVars
  PROVE  OnlyALostSuccessIsContradicted'
<1>1. CASE Quiet
  BY <1>1 DEF Quiet, OnlyALostSuccessIsContradicted
<1>2. ASSUME NEW n \in Nodes, NEW answer \in Answers, Enters(n, answer)
      PROVE  OnlyALostSuccessIsContradicted'
  <2>1. asked'.phase = "RUNNING"
    BY <1>2, EnterIs DEF Ask
  <2> QED
    BY <2>1, NeverReusedInv DEF NumbersAreNeverReused, OnlyALostSuccessIsContradicted
<1>3. ASSUME NEW phase \in Phases \ {"RUNNING"}, NEW answer \in Answers, Moves(phase, answer)
      PROVE  OnlyALostSuccessIsContradicted'
  <2> DEFINE id == IdOf[Top.node]
             occ == Top.occ
             was == facts[id][occ].phase
  <2>1. Writes(phase, answer)
    BY <1>3 DEF Moves
  <2>2. /\ <<id, occ>> = Name(Len(stack)) /\ lost \subseteq lost'
        /\ Len(stack) \in DOMAIN stack /\ Top = stack[Len(stack)]
        /\ asked' = [id |-> id, occ |-> occ, own |-> occ, phase |-> phase,
                     legal |-> phase \in NextPhases(was)]
    BY <2>1, WriteIs, StackIs
  <2>3. /\ was \notin Live => <<id, occ>> \in lost
        /\ ~failing => was = Top.phase
    BY <2>2, FramesOnRecord DEF FrameOnRecord
  <2>4. IF failing THEN phase = failurePhase(canceled) ELSE phase \in NextPhases(Top.phase)
    BY <2>1 DEF Writes
  <2>5. phase \in NextPhases(was) \/ <<id, occ>> \in lost
    <3> HIDE DEF was
    <3>1. CASE failing /\ was \in Live
      BY <2>4, <3>1 DEF failurePhase, NextPhases, Live, Terminal
    <3> QED
      BY <2>3, <2>4, <3>1
  <2>6. /\ asked'.id = id /\ asked'.occ = occ
        /\ asked'.legal = (phase \in NextPhases(was))
    BY <2>2
  <2> HIDE DEF id, occ, was
  <2> QED
    BY <2>2, <2>5, <2>6 DEF OnlyALostSuccessIsContradicted
<1> QED
  BY <1>1, <1>2, <1>3, StepIs

LEMMA CanceledInv ==
  ASSUME Compiled, Typed, NumbersFollowFrames, Counted, Placed,
         CanceledMeansTheRunWas, [NodeNext]_nodeVars
  PROVE  CanceledMeansTheRunWas'
<1>1. SUFFICES ASSUME ~canceled, NEW i \in Ids, NEW now \in DOMAIN facts'[i]
               PROVE  facts'[i][now].phase # "CANCELED"
  BY RarelyChanged DEF CanceledMeansTheRunWas
<1>2. \A o \in DOMAIN facts[i] : facts[i][o].phase # "CANCELED"
  BY <1>1 DEF CanceledMeansTheRunWas
<1>3. CASE Quiet
  BY <1>1, <1>2, <1>3 DEF Quiet
<1>4. ASSUME NEW n \in Nodes, NEW answer \in Answers, Enters(n, answer)
      PROVE  facts'[i][now].phase # "CANCELED"
  <2> DEFINE id == IdOf[n]
             occ == occurrences[id] + 1
  <2>1. id \in Ids /\ Sink(id, occ, "RUNNING", answer)
    BY <1>4, EnterIs
  <2> HIDE DEF id, occ
  <2>2. /\ DOMAIN facts[i] = 1..Len(facts[i]) /\ DOMAIN facts'[i] = 1..Len(facts'[i])
        /\ Len(facts[i]) \in Nat /\ \A p \in DOMAIN facts[i] : facts'[i][p] = facts[i][p]
        /\ answer = "refused" \/ i # id => facts'[i] = facts[i]
        /\ answer # "refused" => /\ Len(facts'[id]) = Len(facts[id]) + 1
                                 /\ facts'[id][Len(facts'[id])].phase = "RUNNING"
    BY <2>1, Begun
  <2>3. CASE now \in DOMAIN facts[i]
    BY <1>2, <2>2, <2>3
  <2>4. CASE now \notin DOMAIN facts[i]
    <3>1. answer # "refused" /\ i = id
      BY <1>1, <2>2, <2>4
    <3>2. now = Len(facts'[id])
      BY <1>1, <2>2, <2>4, <3>1
    <3> QED
      BY <2>2, <3>1, <3>2
  <2> QED
    BY <2>3, <2>4
<1>5. ASSUME NEW phase \in Phases \ {"RUNNING"}, NEW answer \in Answers, Moves(phase, answer)
      PROVE  facts'[i][now].phase # "CANCELED"
  <2>1. phase # "CANCELED"
    BY <1>1, <1>5, PhaseIs DEF failurePhase, Live
  <2>2. Writes(phase, answer)
    BY <1>5 DEF Moves
  <2>3. /\ DOMAIN facts'[i] = DOMAIN facts[i]
        /\ facts'[i][now].phase \in {phase, facts[i][now].phase}
    BY <1>1, <2>2, WriteIs
  <2> QED
    BY <1>1, <1>2, <2>1, <2>3
<1> QED
  BY <1>3, <1>4, <1>5, StepIs

LEMMA EffectsInv ==
  ASSUME Compiled, Typed, NumbersFollowFrames, Counted, Placed, OnRecord,
         EffectsAreAnnounced, [NodeNext]_nodeVars
  PROVE  EffectsAreAnnounced'
<1>1. CASE UNCHANGED effects
  BY <1>1 DEF EffectsAreAnnounced
<1>2. CASE Act
  <2>1. stack # <<>> /\ ~failing /\ Top.at = "act"
    BY <1>2 DEF Act, At, Running
  <2>2. Len(stack) \in 1..Len(stack) /\ Len(stack) \in DOMAIN stack /\ Top = stack[Len(stack)]
    BY <2>1, StackIs
  <2>3. Stored(IdOf[Top.node], Top.occ) = Top.phase
    BY <2>1, <2>2, FrameIsKnown, FramesOnRecord DEF FrameOnRecord
  <2>4. <<KindOf[Top.node], Top.phase>> \in {<<"step", "TRANSITIONING">>, <<"direct", "RUNNING">>}
    BY <2>1, <2>2 DEF Placed, PlacedAt, PlaceFits
  <2>5. Effect.phase = IF Effect.kind = "step" THEN "TRANSITIONING" ELSE "RUNNING"
    BY <2>3, <2>4 DEF Effect
  <2>6. effects' = effects \cup {Effect}
    BY <1>2 DEF Act
  <2> HIDE DEF Effect
  <2> QED
    BY <2>5, <2>6 DEF EffectsAreAnnounced
<1> QED
  BY <1>1, <1>2, RarelyChanged

-----------------------------------------------------------------------------
(* The overlay.                                                            *)

LEMMA FallbacksInv ==
  ASSUME Compiled, Typed, Placed, OverlayKeepsFallbacks, [NodeNext]_nodeVars
  PROVE  OverlayKeepsFallbacks'
<1>1. CASE UNCHANGED overlay
  <2>1. ASSUME NEW s \in Specs, overlay'[s] # <<>>
        PROVE  /\ \A x \in ToSet(overlay'[s]) : Twice(overlay'[s], x) => Twice(Canonical[s], x)
               /\ ToSet(Canonical[s]) \subseteq ToSet(overlay'[s])
    BY <1>1, <2>1 DEF OverlayKeepsFallbacks
  <2> QED
    BY <2>1 DEF OverlayKeepsFallbacks, Twice, ToSet
<1>2. CASE ApplyHealing /\ overlay' # overlay
  <2>1. PICK s \in Specs, sel \in Selectors : Installed(s, sel)
    BY <1>2, HealingIs
  <2> DEFINE base == effectiveSpec(s)
  <2>2. PICK p : /\ p = promoteSelector(base, sel) /\ ToSet(p) = ToSet(base) \cup {sel}
                 /\ \A x : Twice(p, x) => Twice(base, x)
    BY EffectiveIs
  <2>3. ToSet(Canonical[s]) \subseteq ToSet(base) /\ \A x : Twice(base, x) => Twice(Canonical[s], x)
    <3>1. CASE overlay[s] = <<>>
      BY <3>1 DEF effectiveSpec
    <3>2. CASE overlay[s] # <<>>
      <4>1. base = overlay[s]
        BY <3>2 DEF effectiveSpec
      <4>2. \A x : Twice(base, x) => x \in ToSet(base)
        BY DEF Twice, ToSet
      <4> HIDE DEF base
      <4> QED
        BY <3>2, <4>1, <4>2 DEF OverlayKeepsFallbacks
    <3> QED
      BY <3>1, <3>2
  <2> HIDE DEF base
  <2>4. ASSUME NEW t \in Specs, overlay'[t] # <<>>
        PROVE  /\ \A x \in ToSet(overlay'[t]) : Twice(overlay'[t], x) => Twice(Canonical[t], x)
               /\ ToSet(Canonical[t]) \subseteq ToSet(overlay'[t])
    <3>1. CASE t = s
      <4>1. overlay'[t] = p
        BY <2>1, <2>2, <3>1 DEF Installed, Typed, base
      <4> QED
        BY <2>2, <2>3, <3>1, <4>1
    <3>2. CASE t # s
      <4>1. overlay'[t] = overlay[t]
        BY <2>1, <3>2 DEF Installed, Typed
      <4> QED
        BY <2>4, <4>1 DEF OverlayKeepsFallbacks
    <3> QED
      BY <3>1, <3>2
  <2> QED
    BY <2>4 DEF OverlayKeepsFallbacks, Twice, ToSet
<1> QED
  BY <1>1, <1>2, RarelyChanged DEF RefuseHealing

\* A success on record stays.
LEMMA SuccessStays ==
  ASSUME Compiled, Typed, NumbersFollowFrames, Counted, Placed, [NodeNext]_nodeVars,
         NEW i \in Ids, NEW o, Stored(i, o) = "SUCCEEDED"
  PROVE  Stored(i, o)' = "SUCCEEDED"
<1>1. o \in DOMAIN facts[i] /\ facts[i][o].phase = "SUCCEEDED"
  BY DEF Stored
<1>2. SUFFICES o \in DOMAIN facts'[i] /\ facts'[i][o].phase = "SUCCEEDED"
  BY DEF Stored
<1>3. CASE Quiet
  BY <1>1, <1>3 DEF Quiet
<1>4. ASSUME NEW n \in Nodes, NEW answer \in Answers, Enters(n, answer)
      PROVE  o \in DOMAIN facts'[i] /\ facts'[i][o].phase = "SUCCEEDED"
  <2> DEFINE id == IdOf[n]
             occ == occurrences[id] + 1
  <2>1. id \in Ids /\ Sink(id, occ, "RUNNING", answer)
    BY <1>4, EnterIs
  <2> HIDE DEF id, occ
  <2>2. /\ DOMAIN facts[i] = 1..Len(facts[i]) /\ DOMAIN facts'[i] = 1..Len(facts'[i])
        /\ Len(facts[i]) \in Nat /\ \A p \in DOMAIN facts[i] : facts'[i][p] = facts[i][p]
        /\ answer = "refused" \/ i # id => facts'[i] = facts[i]
        /\ answer # "refused" => Len(facts'[id]) = Len(facts[id]) + 1
    BY <2>1, Begun
  <2>3. DOMAIN facts[i] \subseteq DOMAIN facts'[i]
    BY <2>2
  <2> QED
    BY <1>1, <2>2, <2>3
<1>5. ASSUME NEW phase \in Phases \ {"RUNNING"}, NEW answer \in Answers, Moves(phase, answer)
      PROVE  o \in DOMAIN facts'[i] /\ facts'[i][o].phase = "SUCCEEDED"
  <2> DEFINE id == IdOf[Top.node]
             occ == Top.occ
  <2>1. Writes(phase, answer)
    BY <1>5 DEF Moves
  <2>2. /\ DOMAIN facts'[i] = DOMAIN facts[i]
        /\ facts'[i][o].phase = IF answer # "refused" /\ i = id /\ o = occ
                                THEN phase ELSE facts[i][o].phase
        /\ answer # "refused" => phase \in NextPhases(facts[id][occ].phase)
    BY <1>1, <2>1, WriteIs
  <2>3. NextPhases("SUCCEEDED") = {}
    BY DEF NextPhases
  <2>4. ~(answer # "refused" /\ i = id /\ o = occ)
    BY <1>1, <2>2, <2>3
  <2> QED
    BY <1>1, <2>2, <2>4
<1> QED
  BY <1>3, <1>4, <1>5, StepIs

\* Where a node is entered, every heal in force is of a step that succeeded.
LEMMA HealedBefore ==
  ASSUME Compiled, Typed, HealersAreLeaves, OverlayIsBacked,
         NEW n \in Nodes, NEW answer \in Answers, Enters(n, answer),
         NEW s \in Specs, overlay[s] # <<>>
  PROVE  /\ healer[s] \in Names
         /\ Stored(healer[s][1], healer[s][2]) = "SUCCEEDED"
<1>1. ~failing /\ (stack # <<>> => KindOf[Top.node] \in Containers)
  BY DEF Enters
<1>2. healer[s] \in Names
  BY DEF HealersAreLeaves
<1>3. ASSUME stack # <<>>, IdOf[Top.node] = healer[s][1], Top.occ = healer[s][2]
      PROVE  FALSE
  <2>1. Len(stack) \in DOMAIN stack /\ Top = stack[Len(stack)] /\ Name(Len(stack)) = <<IdOf[Top.node], Top.occ>>
    BY <1>3, StackIs
  <2>2. Name(Len(stack)) = healer[s]
    BY <1>2, <1>3, <2>1 DEF Names
  <2>3. KindOf[Top.node] \in {"step", "validation"}
    BY <2>1, <2>2 DEF HealersAreLeaves
  <2> QED
    BY <1>1, <1>3, <2>3 DEF Containers
<1> QED
  BY <1>1, <1>2, <1>3 DEF OverlayIsBacked

LEMMA HealersInv ==
  ASSUME Compiled, Typed, NumbersFollowFrames, Counted, Placed,
         HealersAreLeaves, OverlayIsBacked, [NodeNext]_nodeVars
  PROVE  HealersAreLeaves'
<1>1. SUFFICES ASSUME NEW s \in Specs, overlay'[s] # <<>>
               PROVE  /\ healer'[s] \in Names
                      /\ \A k \in DOMAIN stack' :
                           Name(k)' = healer'[s] => KindOf[stack'[k].node] \in {"step", "validation"}
  BY DEF HealersAreLeaves, Name
\* No heal, no frame that was not there.
<1>2. ASSUME overlay'[s] = overlay[s], healer'[s] = healer[s], Below
      PROVE  /\ healer'[s] \in Names
             /\ \A k \in DOMAIN stack' :
                  Name(k)' = healer'[s] => KindOf[stack'[k].node] \in {"step", "validation"}
  <2>1. \A k \in DOMAIN stack' : /\ k \in DOMAIN stack /\ stack'[k].node = stack[k].node
                                 /\ Name(k)' = Name(k)
    BY <1>2, BelowIs, NamesBelow
  <2> QED
    BY <1>1, <1>2, <2>1 DEF HealersAreLeaves
<1>3. CASE Quiet
  <2>1. Below /\ SameNames /\ Len(stack') = Len(stack)
    BY <1>3, QuietBelow
  <2>2. CASE overlay'[s] = overlay[s] /\ healer'[s] = healer[s]
    BY <1>2, <2>1, <2>2
  <2>3. CASE ~(overlay'[s] = overlay[s] /\ healer'[s] = healer[s])
    <3>1. ApplyHealing
      BY <2>3, RarelyChanged DEF RefuseHealing
    <3>2. stack # <<>> /\ KindOf[Top.node] \in {"step", "validation"} /\ healer'[s] = Name(Len(stack))
      BY <2>3, <3>1, HealingIs DEF Installed, Typed
    <3>3. /\ Len(stack) \in 1..Len(stack) /\ Top = stack[Len(stack)] /\ Name(Len(stack)) \in Names
      BY <3>2, StackIs
    <3>4. \A k \in DOMAIN stack' : /\ k \in 1..Len(stack) /\ stack'[k].node = stack[k].node
                                   /\ Name(k)' = Name(k)
      BY <2>1, BelowIs, NamesBelow
    <3>5. \A k \in DOMAIN stack' : Name(k) = Name(Len(stack)) => k = Len(stack)
      BY <3>3, <3>4, Distinct
    <3> QED
      BY <3>2, <3>3, <3>4, <3>5
  <2> QED
    BY <2>2, <2>3
<1>4. ASSUME NEW n \in Nodes, NEW answer \in Answers, Enters(n, answer)
      PROVE  /\ healer'[s] \in Names
             /\ \A k \in DOMAIN stack' :
                  Name(k)' = healer'[s] => KindOf[stack'[k].node] \in {"step", "validation"}
  <2>1. overlay'[s] = overlay[s] /\ healer'[s] = healer[s] /\ ~failing
    BY <1>4 DEF Enters
  <2>2. CASE answer # "ok"
    <3>1. Below
      BY <1>4, <2>2, EnterIs, StackRests, SameIsBelow
    <3> QED
      BY <1>2, <2>1, <3>1
  <2>3. CASE answer = "ok"
    <3> DEFINE id == IdOf[n]
               occ == occurrences[id] + 1
    <3>1. /\ DOMAIN stack' = 1..Len(stack) + 1 /\ \A k \in 1..Len(stack) : stack'[k] = stack[k]
          /\ stack'[Len(stack) + 1].node = n /\ stack'[Len(stack) + 1].occ = occ
          /\ id \in Ids /\ occurrences[id] \in Nat
      BY <1>4, <2>3, EnterIs
    <3>2. healer[s] \in Names /\ Stored(healer[s][1], healer[s][2]) = "SUCCEEDED"
      BY <1>1, <1>4, <2>1, HealedBefore
    <3>3. ASSUME NEW k, k = Len(stack) + 1 PROVE Name(k)' = <<id, occ>>
      BY <3>1, <3>3 DEF Name
    <3>4. healer[s] # <<id, occ>>
      <4>1. occurrences[id] = Len(facts[id]) /\ DOMAIN facts[id] = 1..Len(facts[id])
        BY <2>1, <3>1, LenProperties DEF Counted, Typed
      <4>2. occ \notin DOMAIN facts[id]
        BY <3>1, <4>1
      <4>3. Stored(id, occ) = ""
        BY <4>2 DEF Stored
      <4> HIDE DEF id, occ
      <4>4. ASSUME healer[s] = <<id, occ>> PROVE FALSE
        <5>1. healer[s][1] = id /\ healer[s][2] = occ
          BY <4>4
        <5>2. Stored(healer[s][1], healer[s][2]) = Stored(id, occ)
          BY <5>1
        <5> QED
          BY <3>2, <4>3, <5>2
      <4> QED
        BY <4>4
    <3>5. ASSUME NEW k \in DOMAIN stack', Name(k)' = healer'[s]
          PROVE  KindOf[stack'[k].node] \in {"step", "validation"}
      <4>1. k # Len(stack) + 1
        BY <2>1, <3>3, <3>4, <3>5
      <4>2. k \in DOMAIN stack /\ stack'[k] = stack[k]
        BY <3>1, <4>1, StackIs
      <4>3. Name(k) = healer[s]
        BY <2>1, <3>5, <4>2 DEF Name
      <4> QED
        BY <1>1, <2>1, <4>2, <4>3 DEF HealersAreLeaves
    <3> QED
      BY <2>1, <3>2, <3>5
  <2> QED
    BY <2>2, <2>3
<1>5. ASSUME NEW phase \in Phases \ {"RUNNING"}, NEW answer \in Answers, Moves(phase, answer)
      PROVE  /\ healer'[s] \in Names
             /\ \A k \in DOMAIN stack' :
                  Name(k)' = healer'[s] => KindOf[stack'[k].node] \in {"step", "validation"}
  BY <1>2, <1>5, MovesBelow DEF Moves, Writes
<1> QED
  BY <1>3, <1>4, <1>5, StepIs

LEMMA BackedInv ==
  ASSUME Compiled, Typed, NumbersFollowFrames, Counted, Placed, OnRecord,
         HealersAreLeaves, OverlayIsBacked, [NodeNext]_nodeVars
  PROVE  OverlayIsBacked'
<1> DEFINE Staged(s) == \E d \in staged' :
             /\ d.id = healer'[s][1] /\ d.occ = healer'[s][2] /\ d.spec = s
             /\ d.outcome = "HEALED" /\ d.selector = overlay'[s][1]
           Borne(by) == \/ failing'
                        \/ Stored(by[1], by[2])' = "SUCCEEDED"
                        \/ stack' # <<>> /\ <<IdOf[Top'.node], Top'.occ>> = by
<1>1. \A s \in Specs : overlay[s] # <<>> =>
        /\ healer[s] \in Names
        /\ \E d \in staged : /\ d.id = healer[s][1] /\ d.occ = healer[s][2] /\ d.spec = s
                             /\ d.outcome = "HEALED" /\ d.selector = overlay[s][1]
        /\ \/ failing
           \/ Stored(healer[s][1], healer[s][2]) = "SUCCEEDED"
           \/ stack # <<>> /\ Name(Len(stack)) = healer[s]
  <2>1. stack # <<>> => Name(Len(stack)) = <<IdOf[Top.node], Top.occ>>
    BY StackIs
  <2>2. SUFFICES ASSUME NEW s \in Specs, overlay[s] # <<>>,
                        stack # <<>>, IdOf[Top.node] = healer[s][1], Top.occ = healer[s][2]
                 PROVE  Name(Len(stack)) = healer[s]
    BY DEF HealersAreLeaves, OverlayIsBacked
  <2>3. healer[s] \in Names
    BY <2>2 DEF HealersAreLeaves
  <2> QED
    BY <2>1, <2>2, <2>3 DEF Names
<1>2. SUFFICES ASSUME NEW s \in Specs, overlay'[s] # <<>>, NEW by, by = healer'[s]
               PROVE  Staged(s) /\ Borne(by)
  <2>1. SUFFICES ASSUME NEW s \in Specs, overlay'[s] # <<>>
                 PROVE  /\ Staged(s)
                        /\ \/ failing'
                           \/ (healer[s][2] \in DOMAIN facts[healer[s][1]]
                                /\ facts[healer[s][1]][healer[s][2]].phase = "SUCCEEDED")'
                           \/ (stack # <<>> /\ IdOf[Top.node] = healer[s][1] /\ Top.occ = healer[s][2])'
    BY DEF OverlayIsBacked, Stored
  <2>2. PICK by : by = healer'[s]
    OBVIOUS
  <2>3. Staged(s) /\ Borne(by)
    BY <1>2, <2>1, <2>2
  <2>4. Stored(by[1], by[2])' = "SUCCEEDED" =>
          by[2] \in DOMAIN facts'[by[1]] /\ facts'[by[1]][by[2]].phase = "SUCCEEDED"
    BY DEF Stored
  <2>5. <<IdOf[Top'.node], Top'.occ>> = by => IdOf[Top'.node] = by[1] /\ Top'.occ = by[2]
    OBVIOUS
  <2> QED
    BY <2>2, <2>3, <2>4, <2>5
<1>3. (failing => failing') /\ staged \subseteq staged'
  <2>1. failing => failing'
    BY StepIs, PhaseIs DEF Quiet, Enters
  <2>2. staged \subseteq staged'
    BY RarelyChanged, HealingIs DEF RefuseHealing
  <2> QED
    BY <2>1, <2>2
<1>4. CASE overlay'[s] = overlay[s] /\ healer'[s] = healer[s]
  <2>1. Staged(s)
    BY <1>1, <1>2, <1>3, <1>4
  <2>2. ASSUME ~failing', Stored(healer[s][1], healer[s][2]) # "SUCCEEDED"
        PROVE  Borne(by)
    <3>1. healer[s] \in Names /\ stack # <<>> /\ Name(Len(stack)) = healer[s] /\ ~failing
      BY <1>1, <1>2, <1>3, <1>4, <2>2
    <3>2. Len(stack) \in 1..Len(stack)
      BY <3>1, StackIs
    <3>3. ASSUME SameNames, stack' # <<>> PROVE Borne(by)
      <4>1. <<IdOf[Top'.node], Top'.occ>> = Name(Len(stack))
        BY <3>2, <3>3 DEF Name, Top, SameNames
      <4> QED
        BY <1>2, <1>4, <3>1, <3>3, <4>1
    <3>4. CASE Quiet
      BY <3>1, <3>3, <3>4, QuietBelow, TurnIs DEF Quiet
    <3>5. ASSUME NEW n \in Nodes, NEW answer \in Answers, Enters(n, answer) PROVE FALSE
      BY <1>2, <1>4, <2>2, <3>5, HealedBefore
    <3>6. ASSUME NEW phase \in Phases \ {"RUNNING"}, NEW answer \in Answers, Moves(phase, answer)
          PROVE  Borne(by)
      <4>1. CASE GoesOn(phase, answer)
        BY <3>1, <3>3, <4>1, TurnIs DEF GoesOn
      <4>2. CASE EndsWell(phase, answer)
        <5>1. answer = "ok" /\ phase = "SUCCEEDED" /\ Writes(phase, answer)
          BY <3>6, <4>2 DEF EndsWell, Moves
        <5>2. PICK id, occ : id \in Ids /\ id = IdOf[Top.node] /\ occ = Top.occ
          BY <5>1, WriteIs
        <5>3. /\ occ \in DOMAIN facts[id] /\ <<id, occ>> = Name(Len(stack))
              /\ DOMAIN facts'[id] = DOMAIN facts[id] /\ facts'[id][occ].phase = phase
          BY <5>1, <5>2, WriteIs
        <5>4. Stored(id, occ)' = "SUCCEEDED"
          BY <5>1, <5>3 DEF Stored
        <5>5. by[1] = id /\ by[2] = occ
          BY <1>2, <1>4, <3>1, <5>3
        <5> QED
          BY <5>5, <5>4
      <4> QED
        BY <2>2, <3>6, <4>1, <4>2 DEF Moves, Sticks, EndsBadly
    <3> QED
      BY <3>4, <3>5, <3>6, StepIs
  <2>3. ASSUME Stored(healer[s][1], healer[s][2]) = "SUCCEEDED"
        PROVE  Borne(by)
    <3>1. PICK id, occ : id \in Ids /\ id = by[1] /\ occ = by[2]
      BY <1>1, <1>2, <1>4 DEF Names
    <3>2. Stored(id, occ)' = "SUCCEEDED"
      BY <1>2, <1>4, <2>3, <3>1, SuccessStays
    <3> QED
      BY <3>1, <3>2
  <2> QED
    BY <2>1, <2>2, <2>3
<1>5. CASE ~(overlay'[s] = overlay[s] /\ healer'[s] = healer[s])
  <2>1. ApplyHealing
    BY <1>5, RarelyChanged DEF RefuseHealing
  <2>2. PICK t \in Specs, sel \in Selectors :
          /\ t = SpecOf[Top.node] /\ Installed(t, sel) /\ Decision("HEALED", sel) \in staged'
    BY <1>5, <2>1, HealingIs
  <2>3. s = t /\ stack # <<>>
    BY <1>5, <2>1, <2>2, HealingIs DEF Installed, Typed
  <2>4. overlay'[s][1] = sel
    <3>1. PICK p : p = promoteSelector(effectiveSpec(t), sel) /\ p[1] = sel
      BY EffectiveIs
    <3> QED
      BY <2>2, <2>3, <3>1 DEF Installed, Typed
  <2>5. healer'[s] = Name(Len(stack)) /\ Name(Len(stack)) = <<IdOf[Top.node], Top.occ>>
    BY <2>2, <2>3, StackIs DEF Installed, Typed
  <2>6. Staged(s)
    BY <2>2, <2>3, <2>4, <2>5 DEF Decision
  <2>7. Borne(by)
    <3>1. Quiet
      <4>1. ASSUME NEW n \in Nodes, NEW answer \in Answers, Enters(n, answer) PROVE FALSE
        BY <1>5, <4>1 DEF Enters
      <4>2. ASSUME NEW phase \in Phases \ {"RUNNING"}, NEW answer \in Answers, Moves(phase, answer)
            PROVE  FALSE
        BY <1>5, <4>2 DEF Moves, Writes
      <4> QED
        BY <4>1, <4>2, StepIs
    <3>2. SameNames /\ stack' # <<>>
      BY <2>3, <3>1, QuietBelow, TurnIs DEF Quiet
    <3>3. Len(stack) \in 1..Len(stack)
      BY <2>3, StackIs
    <3>4. <<IdOf[Top'.node], Top'.occ>> = Name(Len(stack))
      BY <3>2, <3>3 DEF Name, Top, SameNames
    <3> QED
      BY <1>2, <2>5, <3>2, <3>4
  <2> QED
    BY <2>6, <2>7
<1> QED
  BY <1>4, <1>5

-----------------------------------------------------------------------------
(* Success is earned from below.                                           *)

\* The frame of an occurrence is still there.
Open(i, o) == \E k \in DOMAIN stack : Name(k) = <<i, o>>

\* The three parts of SuccessIsEarned.
EarnedBelow ==
  \A i \in Ids : \A o \in DOMAIN facts[i] :
    LET u == facts[i][o].under
    IN u # NoOne /\ Stored(u[1], u[2]) = "SUCCEEDED" => facts[i][o].phase = "SUCCEEDED"
EndedWell ==
  \A i \in Ids : \A o \in DOMAIN facts[i] :
    ~Open(i, o) /\ ~failing => facts[i][o].phase = "SUCCEEDED"
LostWhereOpen ==
  \A i \in Ids : \A o \in DOMAIN facts[i] :
    Open(i, o) /\ facts[i][o].phase = "SUCCEEDED" => failing /\ <<i, o>> \in lost

LEMMA EarnedParts ==
  SuccessIsEarned <=> EarnedBelow /\ EndedWell /\ LostWhereOpen
BY DEF SuccessIsEarned, EarnedBelow, EndedWell, LostWhereOpen, Open, Name

LEMMA EarnedBelowInv ==
  ASSUME Compiled, Typed, NumbersFollowFrames, Counted, Placed, OnRecord,
         EarnedBelow, EndedWell, [NodeNext]_nodeVars, NEW i \in Ids, NEW o \in DOMAIN facts'[i],
         NEW u, u = facts'[i][o].under, u # NoOne, Stored(u[1], u[2])' = "SUCCEEDED"
  PROVE  facts'[i][o].phase = "SUCCEEDED"
<1>1. u \in Names
  <2>1. facts' \in [Ids -> Seq(FactSet)]
    BY TypedInv DEF Typed
  <2>2. PICK list \in Seq(FactSet) : list = facts'[i]
    BY <2>1
  <2>3. o \in 1..Len(list)
    BY <2>2, LenProperties
  <2>4. list[o] \in FactSet
    BY <2>3, ElementOfSeq
  <2> QED
    BY <2>2, <2>4 DEF FactSet
<1>2. u[1] \in Ids /\ u = <<u[1], u[2]>>
  BY <1>1 DEF Names
<1>3. u[2] \in DOMAIN facts'[u[1]] /\ facts'[u[1]][u[2]].phase = "SUCCEEDED"
  BY DEF Stored
<1>4. ASSUME o \in DOMAIN facts[i], u = facts[i][o].under, Stored(u[1], u[2]) = "SUCCEEDED"
      PROVE  facts'[i][o].phase = "SUCCEEDED"
  <2>1. Stored(i, o) = "SUCCEEDED"
    BY <1>4 DEF EarnedBelow, Stored
  <2>2. Stored(i, o)' = "SUCCEEDED"
    BY <2>1, SuccessStays
  <2> QED
    BY <2>2 DEF Stored
<1>5. CASE Quiet
  <2>1. facts' = facts
    BY <1>5 DEF Quiet
  <2>2. Stored(u[1], u[2]) = "SUCCEEDED"
    BY <1>3, <2>1 DEF Stored
  <2> QED
    BY <1>4, <2>1, <2>2
<1>6. ASSUME NEW n \in Nodes, NEW answer \in Answers, Enters(n, answer)
      PROVE  facts'[i][o].phase = "SUCCEEDED"
  <2>1. PICK id, occ : /\ id \in Ids /\ Sink(id, occ, "RUNNING", answer)
    BY <1>6, EnterIs
  <2>2. \A j \in Ids : /\ DOMAIN facts[j] = 1..Len(facts[j]) /\ Len(facts[j]) \in Nat
                       /\ DOMAIN facts'[j] = 1..Len(facts'[j])
                       /\ \A p \in DOMAIN facts[j] : facts'[j][p] = facts[j][p]
                       /\ answer = "refused" \/ j # id => facts'[j] = facts[j]
    BY <2>1, Begun
  <2>3. answer # "refused" => /\ Len(facts'[id]) = Len(facts[id]) + 1
                              /\ facts'[id][Len(facts'[id])].phase = "RUNNING"
                              /\ facts'[id][Len(facts'[id])].under = Under
    BY <2>1, Begun
  <2>4. ASSUME NEW j \in Ids, NEW p \in DOMAIN facts'[j], p \notin DOMAIN facts[j]
        PROVE  answer # "refused" /\ j = id /\ p = Len(facts'[id])
    BY <2>2, <2>3, <2>4
  <2>5. u[2] \in DOMAIN facts[u[1]]
    BY <1>2, <1>3, <2>3, <2>4
  <2>6. Stored(u[1], u[2]) = "SUCCEEDED"
    BY <1>2, <1>3, <2>2, <2>5 DEF Stored
  <2>7. CASE o \in DOMAIN facts[i]
    BY <1>4, <2>2, <2>6, <2>7
  <2>8. CASE o \notin DOMAIN facts[i]
    <3>1. u = Under
      BY <2>3, <2>4, <2>8
    <3>2. stack # <<>> /\ u = <<IdOf[Top.node], Top.occ>>
      BY <3>1 DEF Under
    <3>3. Len(stack) \in 1..Len(stack) /\ DOMAIN stack = 1..Len(stack) /\ Top = stack[Len(stack)] /\ Top \in Frames
      BY <3>2, StackIs
    <3>4. ~failing
      BY <1>6 DEF Enters
    <3>5. Stored(IdOf[Top.node], Top.occ) = Top.phase
      BY <3>3, <3>4, FrameIsKnown, FramesOnRecord DEF FrameOnRecord
    <3>6. Top.phase \in Live
      BY <3>3 DEF Frames
    <3>7. u[1] = IdOf[Top.node] /\ u[2] = Top.occ
      BY <3>2
    <3> QED
      BY <2>6, <3>5, <3>6, <3>7 DEF Live
  <2> QED
    BY <2>7, <2>8
<1>7. ASSUME NEW phase \in Phases \ {"RUNNING"}, NEW answer \in Answers, Moves(phase, answer)
      PROVE  facts'[i][o].phase = "SUCCEEDED"
  <2>1. Writes(phase, answer)
    BY <1>7 DEF Moves
  <2>2. PICK id, occ : id = IdOf[Top.node] /\ occ = Top.occ
    OBVIOUS
  <2>3. /\ <<id, occ>> = Name(Len(stack)) /\ Len(stack) \in 1..Len(stack)
        /\ \A j \in Ids :
             /\ DOMAIN facts'[j] = DOMAIN facts[j]
             /\ \A p \in DOMAIN facts[j] :
                  /\ facts'[j][p].under = facts[j][p].under
                  /\ facts'[j][p].phase = IF answer # "refused" /\ j = id /\ p = occ
                                          THEN phase ELSE facts[j][p].phase
    BY <2>1, <2>2, WriteIs
  <2>4. o \in DOMAIN facts[i] /\ u = facts[i][o].under /\ u[2] \in DOMAIN facts[u[1]]
    BY <1>2, <1>3, <2>3
  <2>5. CASE answer # "refused" /\ u = <<id, occ>>
    <3>1. phase = "SUCCEEDED"
      BY <1>2, <1>3, <2>3, <2>4, <2>5
    <3>2. ~failing
      BY <1>7, <3>1, PhaseIs
    <3>3. ~Open(i, o)
      <4>1. SUFFICES ASSUME NEW k \in DOMAIN stack, Name(k) = <<i, o>> PROVE FALSE
        BY DEF Open
      <4>2. k \in 1..Len(stack) /\ IdOf[stack[k].node] = i /\ stack[k].occ = o /\ Len(stack) \in Nat
        BY <4>1, StackIs DEF Name
      <4>3. u = IF k = 1 THEN NoOne ELSE Name(k - 1)
        BY <2>4, <4>1, <4>2, FramesOnRecord DEF FrameOnRecord
      <4>4. k # 1 /\ Name(k - 1) = Name(Len(stack)) /\ k - 1 \in 1..Len(stack) /\ k - 1 # Len(stack)
        BY <2>3, <2>5, <4>2, <4>3
      <4> QED
        BY <2>3, <4>4, Distinct
    <3>4. facts[i][o].phase = "SUCCEEDED"
      BY <2>4, <3>2, <3>3 DEF EndedWell
    <3> QED
      BY <2>3, <2>4, <3>1, <3>4
  <2>6. CASE ~(answer # "refused" /\ u = <<id, occ>>)
    <3>1. facts'[u[1]][u[2]].phase = facts[u[1]][u[2]].phase
      BY <1>2, <2>3, <2>4, <2>6
    <3>2. Stored(u[1], u[2]) = "SUCCEEDED"
      BY <1>3, <2>4, <3>1 DEF Stored
    <3> QED
      BY <1>4, <2>4, <3>2
  <2> QED
    BY <2>5, <2>6
<1> QED
  BY <1>5, <1>6, <1>7, StepIs

LEMMA EndedWellInv ==
  ASSUME Compiled, Typed, NumbersFollowFrames, Counted, Placed, OnRecord,
         EndedWell, [NodeNext]_nodeVars, NEW i \in Ids, NEW o \in DOMAIN facts'[i],
         ~failing', ~Open(i, o)'
  PROVE  facts'[i][o].phase = "SUCCEEDED"
<1>1. ASSUME o \in DOMAIN facts[i], ~Open(i, o), ~failing
      PROVE  facts'[i][o].phase = "SUCCEEDED"
  <2>1. Stored(i, o) = "SUCCEEDED"
    BY <1>1 DEF EndedWell, Stored
  <2>2. Stored(i, o)' = "SUCCEEDED"
    BY <2>1, SuccessStays
  <2> QED
    BY <2>2 DEF Stored
\* A frame that goes by the name now did so before.
<1>2. ASSUME SameNames PROVE ~Open(i, o)
  <2>1. SUFFICES ASSUME NEW k \in DOMAIN stack, Name(k) = <<i, o>> PROVE Open(i, o)'
    BY DEF Open
  <2>2. k \in DOMAIN stack' /\ stack'[k].node = stack[k].node /\ stack'[k].occ = stack[k].occ
    BY <1>2, <2>1, StackIs DEF SameNames
  <2>3. k \in DOMAIN stack' /\ <<IdOf[stack'[k].node], stack'[k].occ>> = <<i, o>>
    BY <2>1, <2>2 DEF Name
  <2> QED
    BY <2>3 DEF Open, Name
<1>3. CASE Quiet
  BY <1>1, <1>2, <1>3, QuietBelow DEF Quiet
<1>4. ASSUME NEW n \in Nodes, NEW answer \in Answers, Enters(n, answer)
      PROVE  facts'[i][o].phase = "SUCCEEDED"
  <2>1. ~failing /\ answer = "ok"
    BY <1>4, EnterIs DEF Enters
  <2>2. PICK id, occ : id = IdOf[n] /\ occ = occurrences[id] + 1
    OBVIOUS
  <2>3. /\ id \in Ids /\ Sink(id, occ, "RUNNING", answer)
        /\ DOMAIN stack' = 1..Len(stack) + 1 /\ \A k \in 1..Len(stack) : stack'[k] = stack[k]
        /\ stack'[Len(stack) + 1].node = n /\ stack'[Len(stack) + 1].occ = occ
        /\ occurrences[id] = Len(facts[id])
    BY <1>4, <2>1, <2>2, EnterIs DEF Counted
  <2>4. /\ DOMAIN facts[i] = 1..Len(facts[i]) /\ Len(facts[i]) \in Nat
        /\ DOMAIN facts'[i] = 1..Len(facts'[i])
        /\ i # id => facts'[i] = facts[i]
        /\ Len(facts'[id]) = Len(facts[id]) + 1
    BY <2>1, <2>3, Begun
  <2>5. CASE o \in DOMAIN facts[i]
    <3>1. ~Open(i, o)
      <4>1. SUFFICES ASSUME NEW k \in DOMAIN stack, Name(k) = <<i, o>> PROVE Open(i, o)'
        BY DEF Open
      <4>2. k \in DOMAIN stack' /\ stack'[k] = stack[k]
        BY <2>3, <4>1, StackIs
      <4>3. k \in DOMAIN stack' /\ <<IdOf[stack'[k].node], stack'[k].occ>> = <<i, o>>
        BY <4>1, <4>2 DEF Name
      <4> QED
        BY <4>3 DEF Open, Name
    <3> QED
      BY <1>1, <2>1, <2>5, <3>1
  <2>6. CASE o \notin DOMAIN facts[i]
    <3>1. i = id /\ o = occ
      BY <2>2, <2>3, <2>4, <2>6
    <3>2. PICK k \in DOMAIN stack' : k = Len(stack) + 1
      BY <2>3, StackIs
    <3>3. <<IdOf[stack'[k].node], stack'[k].occ>> = <<i, o>>
      BY <2>2, <2>3, <3>1, <3>2
    <3> QED
      BY <3>3 DEF Open, Name
  <2> QED
    BY <2>5, <2>6
<1>5. ASSUME NEW phase \in Phases \ {"RUNNING"}, NEW answer \in Answers, Moves(phase, answer)
      PROVE  facts'[i][o].phase = "SUCCEEDED"
  <2>1. Writes(phase, answer) /\ ~failing /\ stack # <<>>
    BY <1>5, PhaseIs DEF Moves
  <2>2. PICK id, occ : id = IdOf[Top.node] /\ occ = Top.occ
    OBVIOUS
  <2>3. /\ <<id, occ>> = Name(Len(stack)) /\ Len(stack) \in 1..Len(stack)
        /\ DOMAIN facts'[i] = DOMAIN facts[i]
        /\ facts'[i][o].phase = IF answer # "refused" /\ i = id /\ o = occ
                                THEN phase ELSE facts[i][o].phase
    BY <2>1, <2>2, WriteIs
  <2>4. CASE GoesOn(phase, answer)
    <3>1. SameNames
      BY <2>1, <2>4, TurnIs DEF GoesOn
    <3> QED
      BY <1>1, <1>2, <2>1, <2>3, <3>1
  <2>5. CASE EndsWell(phase, answer)
    <3>1. CASE i = id /\ o = occ
      BY <2>3, <2>5, <3>1 DEF EndsWell
    <3>2. CASE ~(i = id /\ o = occ)
      <4>1. ~Open(i, o)
        <5>1. SUFFICES ASSUME NEW k \in DOMAIN stack, Name(k) = <<i, o>> PROVE Open(i, o)'
          BY DEF Open
        <5>2. /\ DOMAIN stack' = 1..Len(stack) - 1
              /\ \A j \in 1..Len(stack) - 1 :
                   stack'[j].node = stack[j].node /\ stack'[j].occ = stack[j].occ
          BY <2>1, <2>5, Popping DEF EndsWell, Pops
        <5>3. k # Len(stack) /\ k \in 1..Len(stack) /\ Len(stack) \in Nat
          BY <2>3, <3>2, <5>1, StackIs
        <5>4. k \in DOMAIN stack' /\ stack'[k].node = stack[k].node /\ stack'[k].occ = stack[k].occ
          BY <5>2, <5>3
        <5>5. <<IdOf[stack'[k].node], stack'[k].occ>> = <<i, o>>
          BY <5>1, <5>4 DEF Name
        <5> QED
          BY <5>4, <5>5 DEF Open, Name
      <4> QED
        BY <1>1, <2>1, <2>3, <4>1
    <3> QED
      BY <3>1, <3>2
  <2> QED
    BY <1>5, <2>4, <2>5 DEF Moves, Sticks, EndsBadly
<1> QED
  BY <1>3, <1>4, <1>5, StepIs

LEMMA EarnedInv ==
  ASSUME Compiled, Typed, NumbersFollowFrames, Counted, Placed, OnRecord,
         SuccessIsEarned, [NodeNext]_nodeVars
  PROVE  SuccessIsEarned'
<1>1. EarnedBelow /\ EndedWell
  BY EarnedParts
<1>2. EarnedBelow'
  <2>1. SUFFICES ASSUME NEW i \in Ids, NEW o \in DOMAIN facts'[i],
                        NEW u, u = facts'[i][o].under, u # NoOne,
                        Stored(u[1], u[2])' = "SUCCEEDED"
                 PROVE  facts'[i][o].phase = "SUCCEEDED"
    BY DEF EarnedBelow, Stored
  <2> QED
    BY <1>1, <2>1, EarnedBelowInv
<1>3. EndedWell'
  BY <1>1, EndedWellInv DEF EndedWell
<1>4. LostWhereOpen'
  <2>1. SUFFICES ASSUME NEW i \in Ids, NEW o \in DOMAIN facts'[i], NEW k \in DOMAIN stack',
                        <<IdOf[stack'[k].node], stack'[k].occ>> = <<i, o>>,
                        facts'[i][o].phase = "SUCCEEDED"
                 PROVE  failing' /\ <<i, o>> \in lost'
    BY DEF LostWhereOpen, Open, Name
  <2>2. /\ facts'[i][o].phase \notin Live => <<i, o>> \in lost'
        /\ ~failing' => facts'[i][o].phase = stack'[k].phase
    BY <2>1, RecordInv DEF OnRecord, Name
  <2>3. stack'[k].phase \in Live
    <3>1. stack' \in Seq(Frames)
      BY TypedInv DEF Typed
    <3>2. stack'[k] \in Frames
      BY <3>1, ElementOfSeq, LenProperties
    <3> QED
      BY <3>2 DEF Frames
  <2> QED
    BY <2>1, <2>2, <2>3 DEF Live
<1>5. SuccessIsEarned' <=> (EarnedBelow /\ EndedWell /\ LostWhereOpen)'
  BY DEF SuccessIsEarned, EarnedBelow, EndedWell, LostWhereOpen, Open, Name
<1> QED
  BY <1>2, <1>3, <1>4, <1>5

-----------------------------------------------------------------------------
(* The theorems.                                                           *)

LEMMA InitLemma ==
  ASSUME Compiled, NodeInit
  PROVE  NodeIInv
<1>1. \A S : <<>> \in Seq(S) /\ Len(<<>>) = 0
  OBVIOUS
<1>2. Typed
  <2>1. IdOf[Root] \in Ids
    BY DEF Compiled, Ids
  <2> QED
    BY <1>1, <2>1 DEF NodeInit, Typed
<1>3. DOMAIN stack = {} /\ \A i \in Ids : DOMAIN facts[i] = {} /\ Len(facts[i]) = 0
  <2>1. DOMAIN <<>> = {} /\ Len(<<>>) = 0
    OBVIOUS
  <2>2. stack = <<>> /\ \A i \in Ids : facts[i] = <<>>
    BY DEF NodeInit
  <2> QED
    BY <2>1, <2>2
<1>4. NumbersFollowFrames
  <2>1. \A id \in Ids : FramesOf(id) = {} /\ active[id] = <<>> /\ ToSet(active[id]) = {}
    BY <1>3 DEF NodeInit, FramesOf, ToSet
  <2>2. asked.occ = asked.own
    BY DEF NodeInit
  <2> QED
    BY <2>1, <2>2 DEF NumbersFollowFrames
<1>5. Counted
  <2>1. \A i \in Ids : occurrences[i] = 0
    BY DEF NodeInit
  <2> QED
    BY <2>1, <1>3 DEF Counted
<1>6. Placed /\ OnRecord
  BY <1>3 DEF Placed, OnRecord
<1>7. SuccessIsEarned /\ CanceledMeansTheRunWas
  BY <1>3 DEF SuccessIsEarned, CanceledMeansTheRunWas
<1>8. HealersAreLeaves /\ OverlayIsSound
  BY DEF NodeInit, HealersAreLeaves, OverlayIsSound, OverlayIsBacked, OverlayKeepsFallbacks
<1>9. EffectsAreAnnounced /\ NumbersAreNeverReused /\ OnlyALostSuccessIsContradicted
  BY DEF NodeInit, EffectsAreAnnounced, NumbersAreNeverReused, OnlyALostSuccessIsContradicted
<1> QED
  BY <1>2, <1>4, <1>5, <1>6, <1>7, <1>8, <1>9 DEF NodeIInv

LEMMA NextLemma ==
  ASSUME Compiled, NodeIInv, [NodeNext]_nodeVars
  PROVE  NodeIInv'
<1>1. /\ Typed /\ NumbersFollowFrames /\ Counted /\ Placed /\ OnRecord
      /\ SuccessIsEarned /\ HealersAreLeaves /\ OverlayIsBacked /\ OverlayKeepsFallbacks
      /\ EffectsAreAnnounced /\ CanceledMeansTheRunWas /\ NumbersAreNeverReused
      /\ OnlyALostSuccessIsContradicted
  BY DEF NodeIInv, OverlayIsSound
<1>2. Typed' /\ NumbersFollowFrames' /\ Counted' /\ Placed' /\ OnRecord'
  BY <1>1, TypedInv, NumbersInv, CountedInv, PlacedInv, RecordInv
<1>3. SuccessIsEarned' /\ HealersAreLeaves' /\ OverlayIsBacked' /\ OverlayKeepsFallbacks'
  BY <1>1, EarnedInv, HealersInv, BackedInv, FallbacksInv
<1>4. /\ EffectsAreAnnounced' /\ CanceledMeansTheRunWas' /\ NumbersAreNeverReused'
      /\ OnlyALostSuccessIsContradicted'
  BY <1>1, EffectsInv, CanceledInv, NeverReusedInv, OnlyLostInv
<1> QED
  BY <1>2, <1>3, <1>4 DEF NodeIInv, OverlayIsSound

LEMMA IInvIsInvariant ==
  ASSUME Compiled
  PROVE  NodeSpec => []NodeIInv
<1>1. NodeInit => NodeIInv
  BY InitLemma
<1>2. NodeIInv /\ [NodeNext]_nodeVars => NodeIInv'
  BY NextLemma
<1> QED
  BY <1>1, <1>2, PTL DEF NodeSpec

LEMMA TypeFollows ==
  ASSUME Compiled, NodeIInv
  PROVE  NodeTypeOK
<1>1. Typed /\ Placed
  BY DEF NodeIInv
<1>2. ASSUME NEW k \in DOMAIN stack
      PROVE  /\ stack[k].node \in Nodes /\ stack[k].at \in FramePlaces
             /\ stack[k].phase \in Phases /\ stack[k].tries \in 0..(Attempts - 1)
             /\ stack[k].round \in 1..TimesOf[stack[k].node]
  <2>1. stack[k] \in Frames /\ WithinLimits(stack[k])
    BY <1>1, <1>2, StackIs DEF Placed
  <2>2. stack[k].phase \in Phases
    BY <2>1 DEF Frames, Live, Phases
  <2>3. stack[k].tries \in Nat /\ Attempts \in Nat /\ stack[k].tries < Attempts
    BY <2>1 DEF Frames, WithinLimits, Compiled
  <2>4. stack[k].tries \in 0..(Attempts - 1)
    BY <2>3
  <2> QED
    BY <2>1, <2>2, <2>4 DEF Frames, WithinLimits
<1>3. ASSUME NEW i \in Ids, NEW k \in DOMAIN facts[i]
      PROVE  facts[i][k].phase \in Phases
  <2>1. facts[i] \in Seq(FactSet) /\ k \in 1..Len(facts[i])
    BY <1>1, <1>3, LenProperties DEF Typed
  <2>2. facts[i][k] \in FactSet
    BY <2>1, ElementOfSeq
  <2> QED
    BY <2>2 DEF FactSet
<1>4. canceled \in BOOLEAN /\ failing \in BOOLEAN /\ occurrences \in [Ids -> Nat] /\ asked.id \in Ids
  BY <1>1 DEF Typed
<1> QED
  BY <1>2, <1>3, <1>4 DEF NodeTypeOK

\* In every run of every tree that the compiler makes, an occurrence number names one
\* occurrence: the frame that owns it, once; the numbers in force are those of the frames
\* that run, and none is asked for twice (runtime.go, beginOccurrence, releaseOccurrence).
THEOREM NumbersTheorem ==
  ASSUME Compiled
  PROVE  NodeSpec => []NumbersAreSound
<1>1. NodeIInv => NumbersAreSound
  BY TypeFollows DEF NodeIInv, NumbersAreSound
<1> QED
  BY <1>1, IInvIsInvariant, PTL

\* The facts on record tell the run: success is earned from below, an effect was announced,
\* a canceled occurrence means a canceled run, and the sink refuses no write but the one
\* that follows a SUCCEEDED of which the answer was lost (step.go, composite.go).
THEOREM FactsTheorem ==
  ASSUME Compiled
  PROVE  NodeSpec => []FactsAreTrue
<1>1. NodeIInv => FactsAreTrue
  BY DEF NodeIInv, FactsAreTrue
<1> QED
  BY <1>1, IInvIsInvariant, PTL

\* A healed selector that is in force is on record, by the frame that runs or by one that
\* succeeded, and shadows no compiled selector (runtime.go, setSelectorOverlay).
THEOREM OverlayTheorem ==
  ASSUME Compiled
  PROVE  NodeSpec => []OverlayIsSound
<1>1. NodeIInv => OverlayIsSound
  BY DEF NodeIInv
<1> QED
  BY <1>1, IInvIsInvariant, PTL
=================================================================================
