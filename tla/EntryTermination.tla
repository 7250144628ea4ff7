-------------------------- MODULE EntryTermination --------------------------
(***************************************************************************)
(* How one RUNNING entry ends: EntryCompletionService.Complete and         *)
(* AbortRequestService.Request, called by any number of clients at the     *)
(* same time, over the two transactions a host implements                  *)
(* (EntryCompletionTransaction and AbortRequestTransaction, whose          *)
(* reference implementations are in application/execution/conformancetest).*)
(*                                                                         *)
(* A call is three steps that other calls interleave with: it observes the *)
(* entry and decides, it looks for a receipt, it applies.  Each of the two *)
(* adapter calls may fail: before it commits (nothing is written) or after *)
(* it (the reply is lost), and the client cannot tell which.  The same     *)
(* command may then be sent again.  Meanwhile the claim may change hands.  *)
(***************************************************************************)
EXTENDS TerminalDecision, FiniteSets

CONSTANTS Clients,     \* concurrent callers: workers, recovery, operators
          AbortIDs,    \* identities of abort commands
          NoAbort,     \* "no abort is pending"
          MaxClaims    \* bound: how many claims are issued in a behaviour

ASSUME TerminationAssumption ==
  /\ NoAbort \notin AbortIDs
  /\ MaxClaims \in Nat

VARIABLES entry,       \* the authoritative row: an Observation
          cause,       \* its terminal cause, "UNSET" while it runs
          pending,     \* the abort command whose request was recorded, or NoAbort
          gate,        \* CommandIDs the action gate was terminalized with
          completions, \* how many times a terminal state was written
          receipts,    \* idempotency receipts: [digest, decision]
          fence,       \* the claim token the store accepts; 0 is none
          issued,      \* claim tokens handed out so far: 1 .. issued
          call         \* each client's service call in progress

vars == <<entry, cause, pending, gate, completions, receipts, fence, issued, call>>
store == <<entry, cause, pending, gate, completions, receipts>>

-----------------------------------------------------------------------------
Identities == AbortIDs \cup {NoAbort}

\* CompleteEntryCommand and RequestAbortCommand.
CompleteCommands ==
  [kind: {"complete"}, token: Nat, obs: Observations,
   executed: ExecutionOutcomes, abort: Identities]

AbortCommands ==
  [kind: {"abort"}, token: Nat, obs: Observations, abort: AbortIDs]

Commands == CompleteCommands \cup AbortCommands

\* CompleteEntryRequestDigest / RequestAbortDigest: every field, written with
\* length prefixes under a tag per kind, so it is injective on commands.
Digest(command) == command

Refused(command) ==
  IF command.kind = "complete" THEN CompletionRefused(command.obs, command.executed)
                               ELSE AbortRefused(command.obs)

Decision(command) ==
  IF command.kind = "complete" THEN CompletionDecision(command.obs, command.executed)
                               ELSE AbortDecision(command.obs)

Receipt(command) == [digest |-> Digest(command), decision |-> Decision(command)]

Recorded(command) == \E r \in receipts : r.digest = Digest(command)

\* Mutant: the compare-and-swap looks at the status alone.
HoldsStatus(command) == command.kind = "complete" => entry.status = command.obs.status

\* The compare-and-swap each transaction makes.  A completion compares the
\* whole observed state; an abort request only the three intent counters.
StillHolds(command) ==
  /\ entry.intent = command.obs.intent
  /\ entry.revision = command.obs.revision
  /\ entry.generation = command.obs.generation
  /\ command.kind = "complete" => entry.status = command.obs.status

Replies ==
  {"APPLIED", "REPLAYED", "REFUSED", "CONFLICT", "STALE", "FAULT", "VIOLATION"}

\* A client's call: idle, looking for a receipt, applying, or answered.
Idle == [pc |-> "idle"]
Calls ==
  [pc: {"idle"}]
    \cup [pc: {"looking", "applying"}, command: Commands]
    \cup [pc: {"answered"}, command: Commands, reply: Replies]

Looking(command) == [pc |-> "looking", command |-> command]
Applying(command) == [pc |-> "applying", command |-> command]
Answered(command, reply) ==
  [pc |-> "answered", command |-> command, reply |-> reply]

-----------------------------------------------------------------------------
Init ==
  /\ entry \in [status: {"RUNNING"}, intent: TerminalIntents,
                revision: 0..MaxRevision, generation: 0..MaxRevision]
  /\ cause = "UNSET"
  /\ pending = NoAbort
  /\ gate = {}
  /\ completions = 0
  /\ receipts = {}
  /\ fence = 1
  /\ issued = 1
  /\ call = [c \in Clients |-> Idle]

\* The entry and the pending abort are read together; the token is whichever
\* claim the client was given, current or not.  Digest and decision are pure,
\* so a refusal is answered here and never reaches the adapter.
Submit(c, command) ==
  /\ call[c] = Idle
  /\ call' = [call EXCEPT ![c] = IF Refused(command) THEN Answered(command, "REFUSED")
                                                     ELSE Looking(command)]
  /\ UNCHANGED <<store, fence, issued>>

SubmitComplete(c) ==
  \E token \in 1..issued, executed \in ExecutionOutcomes :
    Submit(c, [kind |-> "complete", token |-> token, obs |-> entry,
               executed |-> executed, abort |-> pending])

SubmitAbort(c) ==
  \E token \in 1..issued, id \in AbortIDs :
    Submit(c, [kind |-> "abort", token |-> token, obs |-> entry, abort |-> id])

\* LookupEntryCompletion / LookupAbortRequest and what the service makes of
\* the answer.  The lookup does not look at the fence.
Lookup(c) ==
  /\ call[c].pc = "looking"
  /\ LET command == call[c].command IN
       call' = [call EXCEPT ![c] =
         IF ~Recorded(command) THEN Applying(command)
         ELSE IF Receipt(command) \in receipts THEN Answered(command, "REPLAYED")
         ELSE Answered(command, "VIOLATION")]
  /\ UNCHANGED <<store, fence, issued>>

\* The writes of CompleteEntry's transaction.
WriteCompletion(command) ==
  LET decision == Decision(command) IN
    /\ entry' = [status |-> decision.status, intent |-> decision.nextIntent,
                 revision |-> decision.nextRevision,
                 generation |-> decision.nextGeneration]
    /\ cause' = decision.cause
    /\ gate' = gate \cup {command.abort}
    /\ completions' = completions + 1
    /\ UNCHANGED pending

\* The writes of RequestAbort's transaction: the status is left alone.
WriteAbort(command) ==
  LET decision == Decision(command) IN
    /\ entry' = [entry EXCEPT !.intent = decision.nextIntent,
                              !.revision = decision.nextRevision,
                              !.generation = decision.nextGeneration]
    /\ pending' = command.abort
    /\ UNCHANGED <<cause, gate, completions>>

\* CompleteEntry / RequestAbort, committed.  "seen" is the reply the client
\* gets: the true one, or FAULT when the commit's outcome is unknown to it.
Commit(c, seen) ==
  /\ call[c].pc = "applying"
  /\ LET command == call[c].command IN
       /\ command.token = fence
       /\ ~Recorded(command)
       /\ StillHolds(command)
       /\ IF command.kind = "complete" THEN WriteCompletion(command)
                                       ELSE WriteAbort(command)
       /\ receipts' = receipts \cup {Receipt(command)}
       /\ call' = [call EXCEPT ![c] = Answered(command, seen)]
  /\ UNCHANGED <<fence, issued>>

\* Mutant: a replay is answered with the record as it was stored, APPLIED.
RejectAsApplied(c) ==
  /\ call[c].pc = "applying"
  /\ LET command == call[c].command IN
       /\ command.token # fence \/ Recorded(command) \/ ~StillHolds(command)
       /\ call' = [call EXCEPT ![c] = Answered(command,
            IF command.token # fence THEN "STALE"
            ELSE IF Recorded(command) THEN "APPLIED"
            ELSE "CONFLICT")]
  /\ UNCHANGED <<store, fence, issued>>

\* CompleteEntry / RequestAbort, answered without a write: the fence is
\* checked first, then the receipt, then the observed state.
Reject(c) ==
  /\ call[c].pc = "applying"
  /\ LET command == call[c].command IN
       /\ command.token # fence \/ Recorded(command) \/ ~StillHolds(command)
       /\ call' = [call EXCEPT ![c] = Answered(command,
            IF command.token # fence THEN "STALE"
            ELSE IF Receipt(command) \in receipts THEN "REPLAYED"
            ELSE IF Recorded(command) THEN "VIOLATION"
            ELSE "CONFLICT")]
  /\ UNCHANGED <<store, fence, issued>>

\* An adapter call fails with nothing written: every staged write is discarded.
Fail(c) ==
  /\ call[c].pc \in {"looking", "applying"}
  /\ call' = [call EXCEPT ![c] = Answered(call[c].command, "FAULT")]
  /\ UNCHANGED <<store, fence, issued>>

\* A client that does not know what became of its command sends it again.
Retry(c) ==
  /\ call[c].pc = "answered"
  /\ call[c].reply = "FAULT"
  /\ call' = [call EXCEPT ![c] = Looking(call[c].command)]
  /\ UNCHANGED <<store, fence, issued>>

\* The client takes its answer, or crashes and forgets the call.
Return(c) ==
  /\ call[c] # Idle
  /\ call' = [call EXCEPT ![c] = Idle]
  /\ UNCHANGED <<store, fence, issued>>

\* The host moves the claim to a new owner: tokens are never used twice.
Reclaim ==
  /\ issued < MaxClaims
  /\ issued' = issued + 1
  /\ fence' = issued + 1
  /\ UNCHANGED <<store, call>>

\* The host takes the claim away: a release, or an instance command.
Invalidate ==
  /\ fence # 0
  /\ fence' = 0
  /\ UNCHANGED <<store, issued, call>>

Step(c) ==
  \/ SubmitComplete(c) \/ SubmitAbort(c)
  \/ Lookup(c)
  \/ Commit(c, "APPLIED") \/ Commit(c, "FAULT")
  \/ Reject(c) \/ Fail(c) \/ Retry(c) \/ Return(c)

Next == (\E c \in Clients : Step(c)) \/ Reclaim \/ Invalidate

Spec == Init /\ [][Next]_vars

-----------------------------------------------------------------------------
(* Properties *)

CompletionDecisions ==
  [status: TerminalEntryStatuses, cause: TerminalCauses,
   nextIntent: TerminalIntents, nextRevision: Nat, nextGeneration: Nat]
AbortDecisions ==
  [nextIntent: {"ABORT"}, nextRevision: Nat, nextGeneration: Nat]

\* The types of the store and of the calls in progress.  Neither counter passes
\* MaxRevision: the successor of an observed counter is always representable.
TypeOK ==
  /\ entry \in Observations
  /\ entry.revision <= MaxRevision /\ entry.generation <= MaxRevision
  /\ cause \in TerminalCauses \cup {"UNSET"}
  /\ pending \in Identities
  /\ gate \subseteq Identities
  /\ completions \in Nat
  /\ receipts \subseteq [digest: Commands, decision: CompletionDecisions \cup AbortDecisions]
  /\ fence \in Nat
  /\ issued \in Nat
  /\ call \in [Clients -> Calls]

CompletionReceipts == {r \in receipts : r.digest.kind = "complete"}
AbortReceipts == {r \in receipts : r.digest.kind = "abort"}

\* The entry is terminated at most once, however many workers, recoveries and
\* retries race (EntryCompletionTransaction's "exactly one committed terminal
\* state"), and the batch is all or nothing: a terminal status, its cause, the
\* terminalized gate and the idempotency receipt are there together or not at
\* all.
TerminatedOnce ==
  /\ completions <= 1
  /\ completions = 1 <=> entry.status # "RUNNING"
  /\ completions = 1 <=> cause # "UNSET"
  /\ completions = 1 <=> Cardinality(gate) = 1
  /\ Cardinality(CompletionReceipts) = completions

\* What was recorded as the terminal answer is what the row still says: no
\* abort request that observed the entry RUNNING can land after it ended,
\* although RequestAbort's compare-and-swap does not look at the status.
TerminalAnswerStands ==
  \A r \in CompletionReceipts :
    /\ entry = [status |-> r.decision.status, intent |-> r.decision.nextIntent,
                revision |-> r.decision.nextRevision,
                generation |-> r.decision.nextGeneration]
    /\ cause = r.decision.cause

\* The gate is terminalized under the identity of the abort that was recorded,
\* and under none when none was: a completion cannot commit on an observation
\* made before the abort request landed.
GateNamesTheAbort ==
  /\ entry.status # "RUNNING" => gate = {pending}
  /\ pending # NoAbort => entry.intent = "ABORT"
  /\ {r.digest.abort : r \in AbortReceipts}
       = (IF pending = NoAbort THEN {} ELSE {pending})

\* "CONFLICT" is a verdict on a command for good: the caller that was told to
\* re-read and rebuild will never find the rejected command committed by an
\* earlier attempt it took for lost, or by a later one.
ConflictIsFinal ==
  \A c \in Clients :
    (call[c].pc = "answered" /\ call[c].reply = "CONFLICT")
      => ~Recorded(call[c].command)

\* A claim of having done the work is exclusive and backed by a receipt: of
\* two callers of the same command at most one is told APPLIED.
AppliedIsExclusive ==
  \A c, d \in Clients :
    (call[c].pc = "answered" /\ call[c].reply = "APPLIED") =>
      /\ Receipt(call[c].command) \in receipts
      /\ (c # d /\ call[d].pc = "answered" /\ call[d].reply = "APPLIED")
           => call[d].command # call[c].command

\* The services never have to reject what a conforming adapter answers: a
\* receipt found under a digest holds the decision the service just made.
AdapterHonoursContract ==
  \A c \in Clients :
    call[c].pc = "answered" => call[c].reply # "VIOLATION"

\* The calls, faults and retries above implement the one-line contract.
Contract == INSTANCE TerminationContract
              WITH status <- entry.status, intent <- entry.intent,
                   generation <- entry.generation
ImplementsContract == Contract!Spec

\* An entry ends once and in one batch: the counters stay representable; status,
\* cause, gate and receipt change together, under the abort on record; and what
\* was recorded as the end stands.
TerminatedAsOneBatch == TypeOK /\ TerminatedOnce /\ GateNamesTheAbort /\ TerminalAnswerStands

\* What callers are told is true and stays true: CONFLICT of a command that is
\* never committed, APPLIED to one caller of it, and no conforming store is
\* accused of breaking its contract.
AnswersAreFinal == ConflictIsFinal /\ AppliedIsExclusive /\ AdapterHonoursContract
=============================================================================
