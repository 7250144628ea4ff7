----------------------- MODULE EntryTermination_proofs -----------------------
(***************************************************************************)
(* Proofs that an entry ends once, in one batch, and that its callers are  *)
(* told the truth, for any number of clients, claims and abort commands;   *)
(* and that the calls implement TerminationContract.                       *)
(***************************************************************************)
EXTENDS EntryTermination, FiniteSetTheorems, TLAPS

\* A command was built from the row: one whose revision the row still has saw the
\* row, and the abort on record, as they are now.
Built(command) ==
  /\ command.obs.revision <= entry.revision
  /\ command.obs.revision = entry.revision =>
       /\ command.obs = entry
       /\ command.kind = "complete" => command.abort = pending

\* The row has left the revision a command was built from, and not because of it.
Overtaken(command) ==
  command.obs.revision < entry.revision /\ ~Recorded(command)

\* What holds of a call whatever the others do: a command that may still commit
\* was not refused, one answered CONFLICT is out of the race, one answered APPLIED
\* has its receipt, and no store is accused.
CallHolds(x) ==
  /\ x.pc # "idle" => Built(x.command)
  /\ x.pc \in {"looking", "applying"} => ~Refused(x.command)
  /\ x.pc = "answered" =>
       /\ x.reply # "VIOLATION"
       /\ x.reply = "FAULT" => ~Refused(x.command)
       /\ x.reply = "CONFLICT" => Overtaken(x.command)
       /\ x.reply = "APPLIED" => Receipt(x.command) \in receipts

CallsHold == \A c \in Clients : CallHolds(call[c])

\* A receipt holds the decision its command calls for, and the row has moved on
\* since that command was built.
ReceiptsAreTrue ==
  \A r \in receipts :
    /\ r = Receipt(r.digest)
    /\ r.digest.obs.revision < entry.revision

\* Nothing of a terminal batch is there while the entry runs ...
RunningIsBare ==
  entry.status = "RUNNING" =>
    completions = 0 /\ cause = "UNSET" /\ gate = {} /\ CompletionReceipts = {}

\* ... and everything of one batch is there once it has ended.
EndedIsWhole ==
  entry.status # "RUNNING" =>
    /\ completions = 1 /\ cause # "UNSET" /\ gate = {pending}
    /\ \E r \in receipts : CompletionReceipts = {r}

IInv ==
  /\ TypeOK
  /\ ReceiptsAreTrue /\ RunningIsBare /\ EndedIsWhole
  /\ GateNamesTheAbort /\ TerminalAnswerStands
  /\ CallsHold /\ AppliedIsExclusive

-----------------------------------------------------------------------------
(* The values the model is made of.                                        *)

\* The fields of a command.
LEMMA CommandFields ==
  ASSUME NEW command \in Commands
  PROVE  /\ command.kind \in {"complete", "abort"}
         /\ command.obs \in Observations
         /\ command.abort \in Identities
         /\ command.kind = "complete" => command.executed \in ExecutionOutcomes
         /\ command.kind = "abort" => command.abort \in AbortIDs
BY DEF Commands, CompleteCommands, AbortCommands, Identities

\* The fields of a call.
LEMMA CallFields ==
  ASSUME NEW x \in Calls
  PROVE  /\ x.pc \in {"idle", "looking", "applying", "answered"}
         /\ x.pc # "idle" => x.command \in Commands
         /\ x.pc = "idle" => x = Idle
BY DEF Calls, Idle

\* The calls that the steps make.
LEMMA CallsMade ==
  ASSUME NEW command \in Commands
  PROVE  /\ Idle \in Calls /\ Idle.pc = "idle"
         /\ Looking(command) \in Calls
         /\ Looking(command).pc = "looking" /\ Looking(command).command = command
         /\ Applying(command) \in Calls
         /\ Applying(command).pc = "applying" /\ Applying(command).command = command
         /\ \A reply \in Replies :
              /\ Answered(command, reply) \in Calls
              /\ Answered(command, reply).pc = "answered"
              /\ Answered(command, reply).command = command
              /\ Answered(command, reply).reply = reply
BY DEF Calls, Idle, Looking, Applying, Answered

\* A receipt found under a command's digest holds the decision it calls for.
LEMMA RecordedMeansReceipt ==
  ASSUME ReceiptsAreTrue, NEW command
  PROVE  Recorded(command) <=> Receipt(command) \in receipts
<1>1. Receipt(command).digest = Digest(command)
  BY DEF Receipt
<1>2. ASSUME NEW r \in receipts, r.digest = Digest(command)
      PROVE  r = Receipt(command)
  BY <1>2 DEF ReceiptsAreTrue, Digest
<1> QED
  BY <1>1, <1>2 DEF Recorded

\* Unless it is refused, a decision of either kind fits the row it was made on and
\* moves its revision by one.
LEMMA DecisionsAreTyped ==
  ASSUME NEW command \in Commands, ~Refused(command), command.obs.generation <= MaxRevision
  PROVE  /\ command.obs.status = "RUNNING"
         /\ Decision(command).nextRevision = command.obs.revision + 1
         /\ command.obs.revision < MaxRevision
         /\ Decision(command).nextGeneration \in Nat
         /\ Decision(command).nextGeneration <= MaxRevision
         /\ command.kind = "complete" =>
              /\ Decision(command) \in CompletionDecisions
              /\ Decision(command).status # "RUNNING"
         /\ command.kind = "abort" =>
              /\ Decision(command) \in AbortDecisions
              /\ command.obs.intent # "ABORT"
              /\ Decision(command).nextGeneration = command.obs.generation
<1> USE MaxRevisionAssumption
<1> DEFINE obs == command.obs
<1>1. /\ obs \in Observations /\ obs.status \in EntryStatuses /\ obs.intent \in TerminalIntents
      /\ obs.revision \in Nat /\ obs.generation \in Nat
  BY CommandFields DEF Observations
<1>2. CASE command.kind = "complete"
  <2> DEFINE status == TerminalStatusOf(obs.intent, command.executed)
  <2>1. command.executed \in ExecutionOutcomes
    BY <1>2, CommandFields
  <2>2. /\ obs.status = "RUNNING" /\ obs.revision < MaxRevision
        /\ SpendsGeneration(status) => obs.generation < MaxRevision
    BY <1>1, <1>2 DEF Refused, CompletionRefused, CompletionExhausted
  <2>3. status \in {"SUCCEEDED", "CANCELED", "ABORTED", "FAILED"}
    BY <1>1, <2>1 DEF TerminalStatusOf, TerminalIntents, ExecutionOutcomes
  <2>4. TerminalCauseOf(command.executed) \in TerminalCauses
    BY DEF TerminalCauseOf, TerminalCauses
  <2>5. obs.generation + (IF SpendsGeneration(status) THEN 1 ELSE 0) \in 0..MaxRevision
    BY <1>1, <2>2
  <2> HIDE DEF status
  <2>6. Decision(command) = [status |-> status, cause |-> TerminalCauseOf(command.executed),
                             nextIntent |-> obs.intent, nextRevision |-> obs.revision + 1,
                             nextGeneration |-> obs.generation
                               + (IF SpendsGeneration(status) THEN 1 ELSE 0)]
    BY <1>2 DEF Decision, CompletionDecision, status
  <2>7. status \in TerminalEntryStatuses /\ status # "RUNNING"
    BY <2>3 DEF TerminalEntryStatuses
  <2> QED
    BY <1>1, <1>2, <2>2, <2>4, <2>5, <2>6, <2>7 DEF CompletionDecisions
<1>3. CASE command.kind = "abort"
  <2>1. /\ obs.status = "RUNNING" /\ obs.revision < MaxRevision /\ obs.intent # "ABORT"
    BY <1>1, <1>3 DEF Refused, AbortRefused
  <2>2. Decision(command) = [nextIntent |-> "ABORT", nextRevision |-> obs.revision + 1,
                             nextGeneration |-> obs.generation]
    BY <1>3 DEF Decision, AbortDecision
  <2> QED
    BY <1>1, <1>3, <2>1, <2>2 DEF AbortDecisions
<1> QED
  BY <1>2, <1>3, CommandFields

-----------------------------------------------------------------------------
(* The inductive invariant.                                                *)

\* A RUNNING entry of a new instance has no batch, no receipt and no calls.
LEMMA InitIInv == Init => IInv
<1> USE MaxRevisionAssumption, TerminationAssumption
<1> SUFFICES ASSUME Init PROVE IInv
  OBVIOUS
<1>1. TypeOK
  <2>1. /\ entry \in Observations
        /\ entry.revision <= MaxRevision /\ entry.generation <= MaxRevision
    BY DEF Init, Observations, EntryStatuses
  <2>2. call \in [Clients -> Calls]
    BY DEF Init, Calls, Idle
  <2> QED
    BY <2>1, <2>2 DEF Init, TypeOK, Identities
<1>2. entry.status = "RUNNING" /\ receipts = {}
  BY DEF Init
<1>3. ReceiptsAreTrue /\ RunningIsBare /\ EndedIsWhole /\ TerminalAnswerStands
  BY <1>2 DEF Init, ReceiptsAreTrue, RunningIsBare, EndedIsWhole, TerminalAnswerStands,
      CompletionReceipts
<1>4. GateNamesTheAbort
  BY <1>2 DEF Init, GateNamesTheAbort, AbortReceipts
<1>5. \A c \in Clients : call[c].pc = "idle"
  BY DEF Init, Idle
<1> QED
  BY <1>1, <1>3, <1>4, <1>5 DEF IInv, CallsHold, CallHolds, AppliedIsExclusive

\* A step that writes nothing and moves one call to where it may be keeps the
\* invariant.
LEMMA QuietStep ==
  ASSUME IInv, UNCHANGED <<store, fence, issued>>,
         NEW c \in Clients, NEW x \in Calls, call' = [call EXCEPT ![c] = x],
         CallHolds(x), x.pc = "answered" => x.reply # "APPLIED"
  PROVE  IInv'
<1>1. /\ UNCHANGED <<entry, cause, pending, gate, completions, receipts, fence, issued>>
      /\ call \in [Clients -> Calls] /\ call'[c] = x
      /\ \A d \in Clients : d # c => call'[d] = call[d]
  BY DEF IInv, TypeOK, store
<1>2. TypeOK'
  BY <1>1 DEF IInv, TypeOK
<1>3. /\ ReceiptsAreTrue' /\ RunningIsBare' /\ EndedIsWhole'
      /\ GateNamesTheAbort' /\ TerminalAnswerStands'
  BY <1>1 DEF IInv, ReceiptsAreTrue, RunningIsBare, EndedIsWhole, GateNamesTheAbort,
      TerminalAnswerStands, CompletionReceipts, AbortReceipts
<1>4. \A y : CallHolds(y) <=> CallHolds(y)'
  BY <1>1 DEF CallHolds, Built, Overtaken, Recorded
<1>5. CallsHold'
  BY <1>1, <1>4 DEF IInv, CallsHold
<1>6. AppliedIsExclusive'
  BY <1>1 DEF IInv, AppliedIsExclusive
<1> QED
  BY <1>2, <1>3, <1>5, <1>6 DEF IInv

\* A submitted command was built from the row it finds; a refused one ends here.
LEMMA SubmitKeeps ==
  ASSUME IInv, NEW c \in Clients, NEW command \in Commands,
         command.obs = entry, command.kind = "complete" => command.abort = pending,
         Submit(c, command)
  PROVE  IInv'
<1>1. Built(command)
  BY DEF IInv, TypeOK, Observations, Built
<1>2. CASE Refused(command)
  <2>1. "REFUSED" \in Replies
    BY DEF Replies
  <2>2. CallHolds(Answered(command, "REFUSED"))
    BY <1>1, <2>1, CallsMade DEF CallHolds
  <2>3. /\ Answered(command, "REFUSED") \in Calls
        /\ Answered(command, "REFUSED").reply # "APPLIED"
    BY <2>1, CallsMade
  <2>4. /\ UNCHANGED <<store, fence, issued>>
        /\ call' = [call EXCEPT ![c] = Answered(command, "REFUSED")]
    BY <1>2 DEF Submit
  <2> QED
    BY <2>2, <2>3, <2>4, QuietStep
<1>3. CASE ~Refused(command)
  <2>1. CallHolds(Looking(command))
    BY <1>1, <1>3, CallsMade DEF CallHolds
  <2> QED
    BY <1>3, <2>1, CallsMade, QuietStep DEF Submit
<1> QED
  BY <1>2, <1>3

\* What a client submits is a command built from the row.
LEMMA SubmissionsKeep ==
  ASSUME IInv, NEW c \in Clients, SubmitComplete(c) \/ SubmitAbort(c)
  PROVE  IInv'
<1>1. entry \in Observations /\ pending \in Identities /\ issued \in Nat
  BY DEF IInv, TypeOK
<1>2. CASE SubmitComplete(c)
  <2>1. PICK token \in 1..issued, executed \in ExecutionOutcomes :
          Submit(c, [kind |-> "complete", token |-> token, obs |-> entry,
                     executed |-> executed, abort |-> pending])
    BY <1>2 DEF SubmitComplete
  <2> DEFINE command == [kind |-> "complete", token |-> token, obs |-> entry,
                         executed |-> executed, abort |-> pending]
  <2>2. command \in Commands
    BY <1>1 DEF Commands, CompleteCommands
  <2>3. command.obs = entry /\ command.abort = pending
    OBVIOUS
  <2> QED
    BY <2>1, <2>2, <2>3, SubmitKeeps
<1>3. CASE SubmitAbort(c)
  <2>1. PICK token \in 1..issued, id \in AbortIDs :
          Submit(c, [kind |-> "abort", token |-> token, obs |-> entry, abort |-> id])
    BY <1>3 DEF SubmitAbort
  <2> DEFINE command == [kind |-> "abort", token |-> token, obs |-> entry, abort |-> id]
  <2>2. command \in Commands
    BY <1>1 DEF Commands, AbortCommands
  <2>3. command.obs = entry /\ command.kind # "complete"
    OBVIOUS
  <2> QED
    BY <2>1, <2>2, <2>3, SubmitKeeps
<1> QED
  BY <1>2, <1>3

\* A call that is answered without a write.
LEMMA AnswerKeeps ==
  ASSUME IInv, UNCHANGED <<store, fence, issued>>,
         NEW c \in Clients, call[c].pc \in {"looking", "applying"},
         NEW reply \in Replies \ {"APPLIED", "VIOLATION"},
         reply = "CONFLICT" => Overtaken(call[c].command),
         call' = [call EXCEPT ![c] = Answered(call[c].command, reply)]
  PROVE  IInv'
<1>1. call[c] \in Calls /\ CallHolds(call[c])
  BY DEF IInv, TypeOK, CallsHold
<1>2. call[c].command \in Commands
  BY <1>1, CallFields
<1>3. /\ Answered(call[c].command, reply) \in Calls
      /\ Answered(call[c].command, reply).pc = "answered"
      /\ Answered(call[c].command, reply).command = call[c].command
      /\ Answered(call[c].command, reply).reply = reply
  BY <1>2, CallsMade
<1>4. CallHolds(Answered(call[c].command, reply))
  BY <1>1, <1>3 DEF CallHolds
<1> QED
  BY <1>3, <1>4, QuietStep

\* The receipt a lookup finds holds the decision the service made.
LEMMA LookupKeeps ==
  ASSUME IInv, NEW c \in Clients, Lookup(c)
  PROVE  IInv'
<1> DEFINE command == call[c].command
<1>1. /\ call[c] \in Calls /\ CallHolds(call[c]) /\ call[c].pc = "looking"
      /\ UNCHANGED <<store, fence, issued>>
  BY DEF IInv, TypeOK, CallsHold, Lookup
<1>2. command \in Commands
  BY <1>1, CallFields
<1>3. Recorded(command) <=> Receipt(command) \in receipts
  BY RecordedMeansReceipt DEF IInv
<1>4. CASE ~Recorded(command)
  <2>1. call' = [call EXCEPT ![c] = Applying(command)]
    BY <1>4 DEF Lookup
  <2>2. /\ Applying(command) \in Calls /\ Applying(command).pc = "applying"
        /\ Applying(command).command = command
    BY <1>2, CallsMade
  <2>3. CallHolds(Applying(command))
    BY <1>1, <2>2 DEF CallHolds
  <2> QED
    BY <1>1, <2>1, <2>2, <2>3, QuietStep
<1>5. CASE Recorded(command)
  <2>1. call' = [call EXCEPT ![c] = Answered(command, "REPLAYED")]
    BY <1>3, <1>5 DEF Lookup
  <2>2. "REPLAYED" \in Replies \ {"APPLIED", "VIOLATION"}
    BY DEF Replies
  <2> QED
    BY <1>1, <2>1, <2>2, AnswerKeeps
<1> QED
  BY <1>4, <1>5

\* A command is told CONFLICT when the row has left what it observed.
LEMMA RejectKeeps ==
  ASSUME IInv, NEW c \in Clients, Reject(c)
  PROVE  IInv'
<1> DEFINE command == call[c].command
<1>1. /\ call[c] \in Calls /\ CallHolds(call[c]) /\ call[c].pc = "applying"
      /\ UNCHANGED <<store, fence, issued>>
      /\ command.token # fence \/ Recorded(command) \/ ~StillHolds(command)
  BY DEF IInv, TypeOK, CallsHold, Reject
<1>2. Recorded(command) <=> Receipt(command) \in receipts
  BY RecordedMeansReceipt DEF IInv
<1>3. {"STALE", "REPLAYED", "CONFLICT"} \subseteq Replies \ {"APPLIED", "VIOLATION"}
  BY DEF Replies
<1>4. CASE command.token # fence
  <2>1. call' = [call EXCEPT ![c] = Answered(command, "STALE")]
    BY <1>4 DEF Reject
  <2> QED
    BY <1>1, <1>3, <2>1, AnswerKeeps
<1>5. CASE command.token = fence /\ Recorded(command)
  <2>1. call' = [call EXCEPT ![c] = Answered(command, "REPLAYED")]
    BY <1>2, <1>5 DEF Reject
  <2> QED
    BY <1>1, <1>3, <2>1, AnswerKeeps
<1>6. CASE command.token = fence /\ ~Recorded(command)
  <2>1. call' = [call EXCEPT ![c] = Answered(command, "CONFLICT")]
    BY <1>2, <1>6 DEF Reject
  <2>2. Built(command) /\ command.obs # entry
    BY <1>1, <1>6 DEF CallHolds, StillHolds
  <2>3. command.obs.revision \in Nat /\ entry.revision \in Nat
    BY <1>1, CallFields, CommandFields DEF IInv, TypeOK, Observations
  <2>4. Overtaken(command)
    BY <1>6, <2>2, <2>3 DEF Built, Overtaken
  <2> QED
    BY <1>1, <1>3, <2>1, <2>4, AnswerKeeps
<1> QED
  BY <1>4, <1>5, <1>6

\* A failure before the commit writes nothing, and what it leaves may be sent again.
LEMMA FaultsKeep ==
  ASSUME IInv, NEW c \in Clients, Fail(c) \/ Retry(c) \/ Return(c)
  PROVE  IInv'
<1> DEFINE command == call[c].command
<1>1. call[c] \in Calls /\ CallHolds(call[c]) /\ UNCHANGED <<store, fence, issued>>
  BY DEF IInv, TypeOK, CallsHold, Fail, Retry, Return
<1>2. call[c].pc # "idle" => command \in Commands
  BY <1>1, CallFields
<1>3. CASE Fail(c)
  <2>1. /\ call[c].pc \in {"looking", "applying"}
        /\ call' = [call EXCEPT ![c] = Answered(command, "FAULT")]
    BY <1>3 DEF Fail
  <2>2. /\ Answered(command, "FAULT") \in Calls
        /\ Answered(command, "FAULT").pc = "answered"
        /\ Answered(command, "FAULT").command = command
        /\ Answered(command, "FAULT").reply = "FAULT"
    BY <1>2, <2>1, CallsMade DEF Replies
  <2>3. CallHolds(Answered(command, "FAULT"))
    BY <1>1, <2>1, <2>2 DEF CallHolds
  <2> QED
    BY <1>1, <2>1, <2>2, <2>3, QuietStep
<1>4. CASE Retry(c)
  <2>1. /\ call[c].pc = "answered" /\ call[c].reply = "FAULT"
        /\ call' = [call EXCEPT ![c] = Looking(command)]
    BY <1>4 DEF Retry
  <2>2. /\ Looking(command) \in Calls /\ Looking(command).pc = "looking"
        /\ Looking(command).command = command
    BY <1>2, <2>1, CallsMade
  <2>3. CallHolds(Looking(command))
    BY <1>1, <2>1, <2>2 DEF CallHolds
  <2> QED
    BY <1>1, <2>1, <2>2, <2>3, QuietStep
<1>5. CASE Return(c)
  <2>1. Idle \in Calls /\ Idle.pc = "idle"
    BY DEF Calls, Idle
  <2>2. CallHolds(Idle)
    BY <2>1 DEF CallHolds
  <2> QED
    BY <1>1, <1>5, <2>1, <2>2, QuietStep DEF Return
<1> QED
  BY <1>3, <1>4, <1>5

\* The claim changes hands without a write to the entry.
LEMMA ClaimsKeep ==
  ASSUME IInv, Reclaim \/ Invalidate
  PROVE  IInv'
<1>1. UNCHANGED <<entry, cause, pending, gate, completions, receipts, call>>
  BY DEF Reclaim, Invalidate, store
<1>2. fence' \in Nat /\ issued' \in Nat
  BY DEF IInv, TypeOK, Reclaim, Invalidate
<1>3. TypeOK'
  BY <1>1, <1>2 DEF IInv, TypeOK
<1>4. /\ ReceiptsAreTrue' /\ RunningIsBare' /\ EndedIsWhole'
      /\ GateNamesTheAbort' /\ TerminalAnswerStands'
  BY <1>1 DEF IInv, ReceiptsAreTrue, RunningIsBare, EndedIsWhole, GateNamesTheAbort,
      TerminalAnswerStands, CompletionReceipts, AbortReceipts
<1>5. CallsHold' /\ AppliedIsExclusive'
  BY <1>1 DEF IInv, CallsHold, CallHolds, Built, Overtaken, Recorded, AppliedIsExclusive
<1> QED
  BY <1>3, <1>4, <1>5 DEF IInv

\* The commit of a command that was not refused: it writes on the row it observed,
\* which was RUNNING, and takes its receipt with it.
LEMMA CommitKeeps ==
  ASSUME IInv, NEW c \in Clients, NEW seen \in {"APPLIED", "FAULT"}, Commit(c, seen),
         NEW command, command = call[c].command
  PROVE  IInv'
<1> DEFINE decision == Decision(command)
           new == Receipt(command)
<1>1. /\ call[c].pc = "applying" /\ ~Recorded(command) /\ StillHolds(command)
      /\ IF command.kind = "complete" THEN WriteCompletion(command) ELSE WriteAbort(command)
      /\ receipts' = receipts \cup {new}
      /\ call' = [call EXCEPT ![c] = Answered(command, seen)]
      /\ fence' = fence /\ issued' = issued
  BY DEF Commit
<1>2. call[c] \in Calls /\ CallHolds(call[c]) /\ command \in Commands
  BY <1>1, CallFields DEF IInv, TypeOK, CallsHold
<1>3. ~Refused(command) /\ command.obs = entry /\ (command.kind = "complete" => command.abort = pending)
  BY <1>1, <1>2 DEF CallHolds, Built, StillHolds
<1>4. /\ entry \in Observations /\ entry.revision \in Nat /\ entry.generation \in Nat
      /\ entry.status \in EntryStatuses /\ entry.intent \in TerminalIntents
      /\ entry.generation <= MaxRevision
  BY DEF IInv, TypeOK, Observations
<1>5. /\ entry.status = "RUNNING" /\ decision.nextRevision = entry.revision + 1
      /\ entry.revision < MaxRevision
      /\ decision.nextGeneration \in Nat /\ decision.nextGeneration <= MaxRevision
  BY <1>2, <1>3, <1>4, DecisionsAreTyped
<1>6. /\ completions = 0 /\ cause = "UNSET" /\ gate = {} /\ CompletionReceipts = {}
  BY <1>5 DEF IInv, RunningIsBare
<1>7. new.digest = command /\ new.decision = decision
  BY DEF Receipt, Digest
<1>8. command.kind \in {"complete", "abort"} /\ command.abort \in Identities
  BY <1>2, CommandFields
<1> HIDE DEF decision, new
\* What either kind of command leaves in the row.
<1>9. /\ entry' \in Observations /\ entry'.revision = entry.revision + 1
      /\ entry'.generation <= MaxRevision
      /\ decision \in CompletionDecisions \cup AbortDecisions
  <2>1. CASE command.kind = "complete"
    <3>1. decision \in CompletionDecisions
      BY <1>2, <1>3, <1>4, <2>1, DecisionsAreTyped DEF decision
    <3>2. entry' = [status |-> decision.status, intent |-> decision.nextIntent,
                    revision |-> decision.nextRevision,
                    generation |-> decision.nextGeneration]
      BY <1>1, <2>1 DEF WriteCompletion, decision
    <3>3. decision.status \in EntryStatuses /\ decision.nextIntent \in TerminalIntents
      BY <3>1 DEF CompletionDecisions, TerminalEntryStatuses, EntryStatuses
    <3> QED
      BY <1>4, <1>5, <3>1, <3>2, <3>3 DEF Observations
  <2>2. CASE command.kind = "abort"
    <3>1. decision \in AbortDecisions
      BY <1>2, <1>3, <1>4, <2>2, DecisionsAreTyped DEF decision
    <3>2. entry' = [entry EXCEPT !.intent = decision.nextIntent,
                                 !.revision = decision.nextRevision,
                                 !.generation = decision.nextGeneration]
      BY <1>1, <2>2 DEF WriteAbort, decision
    <3>3. decision.nextIntent \in TerminalIntents
      BY <3>1 DEF AbortDecisions, TerminalIntents
    <3>4. decision.nextRevision \in Nat
      BY <1>4, <1>5
    <3>5. /\ entry' \in Observations /\ entry'.revision = decision.nextRevision
          /\ entry'.generation = decision.nextGeneration
      BY <1>4, <1>5, <3>2, <3>3, <3>4 DEF Observations
    <3> QED
      BY <1>5, <3>1, <3>5
  <2> QED
    BY <1>8, <2>1, <2>2
\* The answer, and every call in progress.
<1>10. /\ Answered(command, seen) \in Calls /\ Answered(command, seen).pc = "answered"
       /\ Answered(command, seen).command = command /\ Answered(command, seen).reply = seen
  BY <1>2, CallsMade DEF Replies
<1>11. /\ call' \in [Clients -> Calls] /\ call'[c] = Answered(command, seen)
       /\ \A d \in Clients : d # c => call'[d] = call[d]
  BY <1>1, <1>10 DEF IInv, TypeOK
<1>12. ASSUME NEW d \in Clients, call[d].pc # "idle"
       PROVE  /\ call[d].command.obs.revision \in Nat
              /\ call[d].command.obs.revision <= entry.revision
  BY <1>12, CallFields, CommandFields DEF IInv, TypeOK, CallsHold, CallHolds, Built, Observations
<1>13. \A other : Recorded(other)' <=> (Recorded(other) \/ other = command)
  BY <1>1, <1>7 DEF Recorded, Digest
<1>14. CallHolds(Answered(command, seen))'
  <2>1. Built(command)'
    BY <1>3, <1>4, <1>9 DEF Built
  <2>2. ~Refused(command)
    BY <1>3
  <2> QED
    BY <1>1, <1>10, <2>1, <2>2 DEF CallHolds, new
<1>15. ASSUME NEW d \in Clients, d # c
       PROVE  CallHolds(call[d])'
  <2>1. CallHolds(call[d]) /\ call'[d] = call[d]
    BY <1>11, <1>15 DEF IInv, CallsHold
  <2>2. call[d].pc # "idle" => Built(call[d].command)'
    BY <1>4, <1>9, <1>11, <1>12, <1>15 DEF Built
  <2>3. call[d].pc = "answered" /\ Overtaken(call[d].command) => Overtaken(call[d].command)'
    BY <1>3, <1>4, <1>9, <1>11, <1>12, <1>13, <1>15 DEF Overtaken
  <2> QED
    BY <1>1, <2>1, <2>2, <2>3 DEF CallHolds
<1>16. CallsHold'
  BY <1>11, <1>14, <1>15 DEF CallsHold
<1>17. AppliedIsExclusive'
  <2>1. ASSUME NEW d \in Clients, d # c, call[d].pc = "answered", call[d].reply = "APPLIED"
        PROVE  /\ Receipt(call[d].command) \in receipts
               /\ call[d].command # command
    <3>1. Receipt(call[d].command) \in receipts
      BY <2>1 DEF IInv, AppliedIsExclusive
    <3> QED
      BY <1>1, <3>1 DEF Recorded, Receipt, Digest
  <2> QED
    BY <1>1, <1>10, <1>11, <2>1 DEF IInv, AppliedIsExclusive, new
<1>18. ReceiptsAreTrue'
  <2>1. new = Receipt(new.digest)
    BY <1>7 DEF new
  <2>2. ASSUME NEW r \in receipts
        PROVE  r.digest.obs.revision \in Nat
    <3>1. r.digest \in Commands
      BY DEF IInv, TypeOK
    <3> QED
      BY <3>1, CommandFields DEF Observations
  <2> QED
    BY <1>1, <1>3, <1>4, <1>7, <1>9, <2>1, <2>2 DEF IInv, ReceiptsAreTrue
<1>19. new \in [digest: Commands, decision: CompletionDecisions \cup AbortDecisions]
  BY <1>2, <1>9 DEF new, decision, Receipt, Digest
<1>20. /\ entry'.revision <= MaxRevision
       /\ receipts' \subseteq [digest: Commands, decision: CompletionDecisions \cup AbortDecisions]
       /\ fence' \in Nat /\ issued' \in Nat
  <2>1. entry'.revision <= MaxRevision
    BY <1>4, <1>5, <1>9, MaxRevisionAssumption
  <2> QED
    BY <1>1, <1>19, <2>1 DEF IInv, TypeOK
\* The two batches.
<1>21. CASE command.kind = "complete"
  <2>1. /\ entry' = [status |-> decision.status, intent |-> decision.nextIntent,
                     revision |-> decision.nextRevision,
                     generation |-> decision.nextGeneration]
        /\ cause' = decision.cause /\ gate' = gate \cup {command.abort}
        /\ completions' = completions + 1 /\ pending' = pending
    BY <1>1, <1>21 DEF WriteCompletion, decision
  <2>2. /\ decision \in CompletionDecisions /\ decision.status # "RUNNING"
        /\ decision.cause \in TerminalCauses
    BY <1>2, <1>3, <1>4, <1>21, DecisionsAreTyped DEF decision, CompletionDecisions
  <2>3. gate' = {pending} /\ completions' = 1 /\ cause' # "UNSET"
    BY <1>3, <1>6, <1>21, <2>1, <2>2 DEF TerminalCauses
  <2>4. CompletionReceipts' = {new} /\ AbortReceipts' = AbortReceipts
    BY <1>1, <1>6, <1>7, <1>21 DEF CompletionReceipts, AbortReceipts
  <2>5. TypeOK'
    <3>1. gate' \subseteq Identities /\ completions' \in Nat
      BY <2>3 DEF IInv, TypeOK
    <3> QED
      BY <1>9, <1>11, <1>20, <2>1, <2>2, <3>1 DEF IInv, TypeOK
  <2>6. entry'.status # "RUNNING"
    BY <2>1, <2>2
  <2>7. RunningIsBare' /\ EndedIsWhole'
    BY <1>1, <2>1, <2>3, <2>4, <2>6 DEF RunningIsBare, EndedIsWhole
  <2>8. decision.nextIntent = entry.intent
    BY <1>3, <1>21 DEF decision, Decision, CompletionDecision
  <2>9. GateNamesTheAbort'
    BY <2>1, <2>3, <2>4, <2>8 DEF IInv, GateNamesTheAbort
  <2>10. TerminalAnswerStands'
    BY <1>7, <2>1, <2>4 DEF TerminalAnswerStands
  <2> QED
    BY <1>16, <1>17, <1>18, <2>5, <2>7, <2>9, <2>10 DEF IInv
<1>22. CASE command.kind = "abort"
  <2>1. /\ entry' = [entry EXCEPT !.intent = decision.nextIntent,
                                  !.revision = decision.nextRevision,
                                  !.generation = decision.nextGeneration]
        /\ pending' = command.abort
        /\ cause' = cause /\ gate' = gate /\ completions' = completions
    BY <1>1, <1>22 DEF WriteAbort, decision
  <2>2. command.abort \in AbortIDs /\ decision.nextIntent = "ABORT" /\ entry.intent # "ABORT"
    BY <1>2, <1>3, <1>4, <1>22, CommandFields, DecisionsAreTyped DEF decision, AbortDecisions
  <2>3. pending = NoAbort /\ AbortReceipts = {}
    BY <2>2 DEF IInv, GateNamesTheAbort
  <2>4. CompletionReceipts' = {} /\ AbortReceipts' = {new}
    BY <1>1, <1>6, <1>7, <1>22, <2>3 DEF CompletionReceipts, AbortReceipts
  <2>5. entry'.status = "RUNNING" /\ entry'.intent = "ABORT"
    BY <1>4, <1>5, <2>1, <2>2 DEF Observations
  <2>6. TypeOK'
    <3>1. pending' \in Identities
      BY <1>8, <2>1
    <3>2. cause' = cause /\ gate' = gate /\ completions' = completions
      BY <2>1
    <3> QED
      BY <1>9, <1>11, <1>20, <3>1, <3>2 DEF IInv, TypeOK
  <2>7. RunningIsBare' /\ EndedIsWhole' /\ TerminalAnswerStands'
    BY <1>6, <2>1, <2>4, <2>5 DEF RunningIsBare, EndedIsWhole, TerminalAnswerStands
  <2>8. GateNamesTheAbort'
    BY <1>7, <2>1, <2>2, <2>4, <2>5, TerminationAssumption DEF GateNamesTheAbort
  <2> QED
    BY <1>16, <1>17, <1>18, <2>6, <2>7, <2>8 DEF IInv
<1> QED
  BY <1>8, <1>21, <1>22

\* Every step keeps the inductive invariant.
LEMMA NextIInv == IInv /\ [Next]_vars => IInv'
<1> SUFFICES ASSUME IInv, [Next]_vars PROVE IInv'
  OBVIOUS
<1>1. CASE UNCHANGED vars
  <2>1. UNCHANGED <<entry, cause, pending, gate, completions, receipts, fence, issued, call>>
    BY <1>1 DEF vars
  <2>2. TypeOK'
    BY <2>1 DEF IInv, TypeOK
  <2>3. /\ ReceiptsAreTrue' /\ RunningIsBare' /\ EndedIsWhole'
        /\ GateNamesTheAbort' /\ TerminalAnswerStands'
    BY <2>1 DEF IInv, ReceiptsAreTrue, RunningIsBare, EndedIsWhole, GateNamesTheAbort,
        TerminalAnswerStands, CompletionReceipts, AbortReceipts
  <2>4. CallsHold' /\ AppliedIsExclusive'
    BY <2>1 DEF IInv, CallsHold, CallHolds, Built, Overtaken, Recorded, AppliedIsExclusive
  <2> QED
    BY <2>2, <2>3, <2>4 DEF IInv
<1>2. ASSUME NEW c \in Clients, Step(c)
      PROVE  IInv'
  <2>1. CASE SubmitComplete(c) \/ SubmitAbort(c)
    BY <2>1, SubmissionsKeep
  <2>2. CASE Lookup(c)
    BY <2>2, LookupKeeps
  <2>3. CASE Commit(c, "APPLIED") \/ Commit(c, "FAULT")
    BY <2>3, CommitKeeps
  <2>4. CASE Reject(c)
    BY <2>4, RejectKeeps
  <2>5. CASE Fail(c) \/ Retry(c) \/ Return(c)
    BY <2>5, FaultsKeep
  <2> QED
    BY <1>2, <2>1, <2>2, <2>3, <2>4, <2>5 DEF Step
<1>3. CASE Reclaim \/ Invalidate
  BY <1>3, ClaimsKeep
<1> QED
  BY <1>1, <1>2, <1>3 DEF Next

\* The inductive invariant holds of every reachable state.
THEOREM IInvHolds == Spec => []IInv
BY InitIInv, NextIInv, PTL DEF Spec

-----------------------------------------------------------------------------
(* The properties.                                                         *)

\* The batch and its receipt are counted as TerminatedOnce counts them.
LEMMA TerminatedOnceFollows == IInv => TerminatedOnce
<1> SUFFICES ASSUME IInv PROVE TerminatedOnce
  OBVIOUS
<1>1. CASE entry.status = "RUNNING"
  <2>1. completions = 0 /\ cause = "UNSET" /\ gate = {} /\ CompletionReceipts = {}
    BY <1>1 DEF IInv, RunningIsBare
  <2>2. Cardinality(gate) = 0 /\ Cardinality(CompletionReceipts) = 0
    BY <2>1, FS_EmptySet
  <2> QED
    BY <1>1, <2>1, <2>2 DEF TerminatedOnce
<1>2. CASE entry.status # "RUNNING"
  <2>1. PICK r \in receipts : CompletionReceipts = {r}
    BY <1>2 DEF IInv, EndedIsWhole
  <2>2. completions = 1 /\ cause # "UNSET" /\ gate = {pending}
    BY <1>2 DEF IInv, EndedIsWhole
  <2>3. Cardinality(gate) = 1 /\ Cardinality(CompletionReceipts) = 1
    BY <2>1, <2>2, FS_Singleton
  <2> QED
    BY <1>2, <2>2, <2>3 DEF TerminatedOnce
<1> QED
  BY <1>1, <1>2

\* For any number of clients, claims and abort commands an entry is terminated once,
\* with its status, cause, gate and receipt in one batch under the abort on record,
\* and what was recorded as its end is what the row says from then on
\* (EntryCompletionTransaction, AbortRequestTransaction).
THEOREM BatchTheorem == Spec => []TerminatedAsOneBatch
<1>1. IInv => TerminatedAsOneBatch
  BY TerminatedOnceFollows DEF IInv, TerminatedAsOneBatch
<1> QED
  BY <1>1, IInvHolds, PTL

\* A command that is told CONFLICT is never found committed, one that is told
\* APPLIED is told so once, and the services never have to reject what a store that
\* keeps its contract answers (Complete, Request).
THEOREM AnswersTheorem == Spec => []AnswersAreFinal
<1>1. IInv => AnswersAreFinal
  <2> SUFFICES ASSUME IInv PROVE AnswersAreFinal
    OBVIOUS
  <2>1. \A c \in Clients : CallHolds(call[c])
    BY DEF IInv, CallsHold
  <2>2. ConflictIsFinal
    BY <2>1 DEF CallHolds, Overtaken, ConflictIsFinal
  <2>3. AdapterHonoursContract
    BY <2>1 DEF CallHolds, AdapterHonoursContract
  <2> QED
    BY <2>2, <2>3 DEF IInv, AnswersAreFinal
<1> QED
  BY <1>1, IInvHolds, PTL

\* The decisions of the contract are the ones the services make.
LEMMA ContractDecides ==
  /\ \A i, e : Contract!TerminalStatusOf(i, e) = TerminalStatusOf(i, e)
  /\ \A e : Contract!TerminalCauseOf(e) = TerminalCauseOf(e)
BY DEF Contract!TerminalStatusOf, TerminalStatusOf, Contract!TerminalCauseOf, TerminalCauseOf

\* Only the commits move what the contract sees of the entry.
LEMMA CommitImplements ==
  ASSUME IInv, NEW c \in Clients, NEW seen, Commit(c, seen)
  PROVE  Contract!Next
<1> DEFINE command == call[c].command
           decision == Decision(command)
<1>1. /\ call[c].pc = "applying" /\ StillHolds(command)
      /\ IF command.kind = "complete" THEN WriteCompletion(command) ELSE WriteAbort(command)
  BY DEF Commit
<1>2. call[c] \in Calls /\ CallHolds(call[c]) /\ command \in Commands
  BY <1>1, CallFields DEF IInv, TypeOK, CallsHold
<1>3. ~Refused(command) /\ command.obs = entry /\ command.kind \in {"complete", "abort"}
  BY <1>1, <1>2, CommandFields DEF CallHolds, Built, StillHolds
<1>4. entry \in Observations
  BY DEF IInv, TypeOK
<1>5. CASE command.kind = "complete"
  <2>1. /\ command.executed \in ExecutionOutcomes /\ entry.status = "RUNNING"
    BY <1>2, <1>3, <1>5, CommandFields DEF Refused, CompletionRefused
  <2>2. decision = CompletionDecision(entry, command.executed)
    BY <1>3, <1>5 DEF Decision
  <2>3. /\ entry'.status = TerminalStatusOf(entry.intent, command.executed)
        /\ entry'.intent = entry.intent
        /\ entry'.generation = entry.generation
             + (IF SpendsGeneration(TerminalStatusOf(entry.intent, command.executed)) THEN 1 ELSE 0)
        /\ cause' = TerminalCauseOf(command.executed)
    BY <1>1, <1>5, <2>2 DEF WriteCompletion, CompletionDecision
  <2>4. Contract!Terminate(command.executed)
    BY <2>1, <2>3, ContractDecides DEF Contract!Terminate, SpendsGeneration
  <2> QED
    BY <2>1, <2>4 DEF Contract!Next, ExecutionOutcomes, Contract!ExecutionOutcomes
<1>6. CASE command.kind = "abort"
  <2>1. entry.status = "RUNNING" /\ entry.intent # "ABORT"
    BY <1>3, <1>6 DEF Refused, AbortRefused
  <2>2. decision = AbortDecision(entry)
    BY <1>3, <1>6 DEF Decision
  <2>3. /\ entry'.status = entry.status /\ entry'.intent = "ABORT"
        /\ entry'.generation = entry.generation /\ cause' = cause
    <3>1. decision.nextIntent = "ABORT" /\ decision.nextGeneration = entry.generation
      BY <2>2 DEF AbortDecision
    <3>2. /\ entry' = [entry EXCEPT !.intent = decision.nextIntent,
                                    !.revision = decision.nextRevision,
                                    !.generation = decision.nextGeneration]
          /\ cause' = cause
      BY <1>1, <1>6 DEF WriteAbort
    <3> HIDE DEF decision
    <3> QED
      BY <1>4, <3>1, <3>2 DEF Observations
  <2> QED
    BY <2>1, <2>3 DEF Contract!Next, Contract!Escalate
<1> QED
  BY <1>3, <1>5, <1>6

\* The calls, faults, retries and claims of any number of clients implement what the
\* two contracts promise about one entry: it escalates to ABORT while it runs, and
\* it ends once, as its intent and its run call for.
THEOREM ContractTheorem == Spec => ImplementsContract
<1>1. Init => Contract!Init
  BY MaxRevisionAssumption DEF Init, Contract!Init, TerminalIntents, Contract!TerminalIntents
<1>2. IInv /\ [Next]_vars => [Contract!Next]_(Contract!vars)
  <2> SUFFICES ASSUME IInv, [Next]_vars
               PROVE  Contract!Next \/ UNCHANGED Contract!vars
    OBVIOUS
  <2>1. CASE entry' = entry /\ cause' = cause
    BY <2>1 DEF Contract!vars
  <2>2. ASSUME NEW c \in Clients, Step(c), ~(entry' = entry /\ cause' = cause)
        PROVE  Contract!Next
    <3>1. Commit(c, "APPLIED") \/ Commit(c, "FAULT")
      BY <2>2 DEF Step, SubmitComplete, SubmitAbort, Submit, Lookup, Reject, Fail, Retry,
          Return, store
    <3> QED
      BY <3>1, CommitImplements
  <2>3. CASE Reclaim \/ Invalidate \/ UNCHANGED vars
    BY <2>1, <2>3 DEF Reclaim, Invalidate, store, vars
  <2> QED
    BY <2>1, <2>2, <2>3 DEF Next
<1> QED
  BY <1>1, <1>2, IInvHolds, PTL DEF Spec, ImplementsContract, Contract!Spec
=============================================================================
