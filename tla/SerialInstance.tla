--------------------------- MODULE SerialInstance ---------------------------
(***************************************************************************)
(* One instance executing its plan: the scheduling coordinators that start *)
(* its entries one at a time (Coordinator.ProcessNext), the executors that *)
(* run a started entry and end it (EntryCompletionTransaction), an         *)
(* operator's abort requests (AbortRequestTransaction) and the instance    *)
(* commands that end the whole instance (CancelInstance, AbortInstance).   *)
(*                                                                         *)
(* They share the instance's rows and one claim.  Whoever holds the claim  *)
(* is the sole worker permitted to mutate the instance; the claim may be   *)
(* lost at any moment, to a crash, a lapse of the lease or an instance     *)
(* command, and its old holder goes on without knowing.  The reads a       *)
(* process makes, and the writes it bases on them, are separate steps.     *)
(***************************************************************************)
EXTENDS AdvanceDecision, TerminalDecision, FiniteSets

CONSTANTS N,           \* entries of the plan
          Workers,     \* concurrent ProcessNext calls
          Executors,   \* processes that run a started entry
          Operators,   \* processes that request an abort
          Tokens,      \* claim tokens; a token nobody remembers is a new one
          NoToken,
          Commands,    \* the instance commands used, a subset of CANCEL, ABORT
          MaxFaults    \* bound: crashes, lapses and adapter failures

ASSUME SerialAssumption ==
  /\ N \in Nat \ {0}
  /\ NoToken \notin Tokens
  /\ Commands \subseteq {"CANCEL", "ABORT"}
  /\ MaxFaults \in Nat

VARIABLES policy,      \* the plan's failure policy
          states,      \* the entries, in plan order: EntryStates
          intent, revision, generation,   \* terminal intent and its counters
          status,      \* the instance's status
          fence,       \* the token of the claim in force, or NoToken
          worker, executor, operator,     \* what each process is doing
          faults       \* faults so far

rows == <<policy, states, intent, revision, generation, status>>
processes == <<worker, executor, operator>>
vars == <<rows, fence, processes, faults>>

Entries == 1..N

\* The token a process carries, whether or not its claim is still in force.
TokensHeld ==
  {worker[w].token : w \in Workers} \cup {executor[x].token : x \in Executors}
    \cup {operator[o].token : o \in Operators}

\* WorkerFence: a token is unique to one acquisition, so a new one differs
\* from every token that anybody still remembers.  Which one it is does not
\* matter.
FreshTokens == Tokens \ (TokensHeld \cup {fence})
NewToken == CHOOSE t \in FreshTokens : TRUE

Observation(i) ==
  [status |-> states[i].status, intent |-> intent,
   revision |-> revision, generation |-> generation]

-----------------------------------------------------------------------------
Idle == [pc |-> "idle", token |-> NoToken]
OwnTokens == Tokens \cup {NoToken}

WorkerStates ==
  {Idle} \cup [pc: {"claimed", "releasing"}, token: Tokens]
    \cup [pc: {"decided"}, token: Tokens, decision: Decisions(N)]

ExecutorStates ==
  {Idle} \cup [pc: {"running"}, token: Tokens, entry: Entries]
    \cup [pc: {"ending"}, token: Tokens, entry: Entries,
          executed: ExecutionOutcomes, obs: Observations]
    \cup [pc: {"releasing"}, token: Tokens]

OperatorStates ==
  {Idle} \cup [pc: {"requesting"}, token: OwnTokens, entry: Entries, obs: Observations]

Releasing(token) == [pc |-> "releasing", token |-> token]

Init ==
  /\ policy \in Policies
  /\ states = [i \in Entries |-> [status |-> "PENDING", cause |-> NoCause]]
  /\ intent \in {"NONE", "CANCEL"}
  /\ revision = 0
  /\ generation = 0
  /\ status = "QUEUED"
  /\ fence = NoToken
  /\ worker = [w \in Workers |-> Idle]
  /\ executor = [x \in Executors |-> Idle]
  /\ operator = [o \in Operators |-> Idle]
  /\ faults = 0

Fault == faults < MaxFaults /\ faults' = faults + 1
SetWorker(w, s) == worker' = [worker EXCEPT ![w] = s]
SetExecutor(x, s) == executor' = [executor EXCEPT ![x] = s]
SetOperator(o, s) == operator' = [operator EXCEPT ![o] = s]

-----------------------------------------------------------------------------
(* Coordinator.ProcessNext *)

\* ClaimNext: only an unclaimed instance that is not over is handed out, and
\* its first claim takes it out of the queue.
ClaimNext(w) ==
  /\ worker[w] = Idle
  /\ fence = NoToken
  /\ status \in {"QUEUED", "RUNNING"}
  /\ FreshTokens # {}
  /\ fence' = NewToken
  /\ SetWorker(w, [pc |-> "claimed", token |-> NewToken])
  /\ status' = "RUNNING"
  /\ UNCHANGED <<policy, states, intent, revision, generation, executor, operator, faults>>

\* LoadEntryStates and DecideAdvance.  A vector the decision refuses and an
\* empty decision both end the call.  The read does not look at the fence.
Decide(w) ==
  /\ worker[w].pc = "claimed"
  /\ \/ /\ ~SerialShape(states, policy)
        /\ SetWorker(w, Releasing(worker[w].token))
     \/ /\ SerialShape(states, policy)
        /\ \E d \in Candidates(states, policy) :
             /\ Decides(states, policy, d)
             /\ SetWorker(w, IF d = Nothing
                              THEN Releasing(worker[w].token)
                              ELSE [pc |-> "decided", token |-> worker[w].token,
                                    decision |-> d])
  /\ UNCHANGED <<rows, fence, executor, operator, faults>>

\* ApplyDecision under the claim: every transition and the final status.
ApplyDecision(w) ==
  /\ worker[w].pc = "decided"
  /\ worker[w].token = fence
  /\ LET d == worker[w].decision IN
       /\ states' = Applied(states, d)
       /\ status' = IF d.final = NoStatus THEN status ELSE d.final
  /\ SetWorker(w, Releasing(worker[w].token))
  /\ UNCHANGED <<policy, intent, revision, generation, fence, executor, operator, faults>>

\* ApplyDecision refused: the claim is no longer this worker's.
RefuseDecision(w) ==
  /\ worker[w].pc = "decided"
  /\ worker[w].token # fence
  /\ SetWorker(w, Releasing(worker[w].token))
  /\ UNCHANGED <<rows, fence, executor, operator, faults>>

\* An adapter call fails before it writes: ProcessNext returns the error.
FailWorker(w) ==
  /\ worker[w].pc \in {"claimed", "decided"}
  /\ Fault
  /\ SetWorker(w, Releasing(worker[w].token))
  /\ UNCHANGED <<rows, fence, executor, operator>>

\* The deferred Release, which a stale owner's token does not pass.
ReleaseWorker(w) ==
  /\ worker[w].pc = "releasing"
  /\ fence' = IF fence = worker[w].token THEN NoToken ELSE fence
  /\ SetWorker(w, Idle)
  /\ UNCHANGED <<rows, executor, operator, faults>>

\* The process dies anywhere in ProcessNext, or its Release times out.
CrashWorker(w) ==
  /\ worker[w] # Idle
  /\ Fault
  /\ SetWorker(w, Idle)
  /\ UNCHANGED <<rows, fence, executor, operator>>
-----------------------------------------------------------------------------
(* Running a started entry and ending it *)

\* The host gives the claim of an instance with a RUNNING entry to a process
\* that runs it, or that recovers it from one that died.
Acquire(x) ==
  /\ executor[x] = Idle
  /\ fence = NoToken
  /\ status = "RUNNING"
  /\ FreshTokens # {}
  /\ fence' = NewToken
  /\ \E i \in Entries :
       /\ states[i].status = "RUNNING"
       /\ SetExecutor(x, [pc |-> "running", token |-> NewToken, entry |-> i])
  /\ UNCHANGED <<rows, worker, operator, faults>>

\* EntryExecutor.Execute returns (or recovery reports INTERRUPTED); the entry
\* is observed and Complete decides.  A refusal ends the call.
EndRun(x) ==
  /\ executor[x].pc = "running"
  /\ LET e == executor[x] IN
       \E executed \in ExecutionOutcomes :
         SetExecutor(x, IF CompletionRefused(Observation(e.entry), executed)
                          THEN Releasing(e.token)
                          ELSE [pc |-> "ending", token |-> e.token, entry |-> e.entry,
                                executed |-> executed, obs |-> Observation(e.entry)])
  /\ UNCHANGED <<rows, fence, worker, operator, faults>>

\* Mutant: the row is not compared with what was observed.
CompleteUncompared(x) ==
  /\ executor[x].pc = "ending"
  /\ LET e == executor[x]
         d == CompletionDecision(e.obs, e.executed)
     IN /\ e.token = fence
        /\ states' = [states EXCEPT ![e.entry].status = d.status]
        /\ intent' = d.nextIntent
        /\ revision' = d.nextRevision
        /\ generation' = d.nextGeneration
        /\ SetExecutor(x, Releasing(e.token))
  /\ UNCHANGED <<policy, status, fence, worker, operator, faults>>

\* CompleteEntry commits: the claim is in force and the row is as observed.
CommitCompletion(x) ==
  /\ executor[x].pc = "ending"
  /\ LET e == executor[x]
         d == CompletionDecision(e.obs, e.executed)
     IN /\ e.token = fence
        /\ e.obs = Observation(e.entry)
        /\ states' = [states EXCEPT ![e.entry].status = d.status]
        /\ intent' = d.nextIntent
        /\ revision' = d.nextRevision
        /\ generation' = d.nextGeneration
        /\ SetExecutor(x, Releasing(e.token))
  /\ UNCHANGED <<policy, status, fence, worker, operator, faults>>

\* CompleteEntry refuses a stale fence for good, and a stale observation until
\* the caller has read the row again; the engine's outcome stays the same.
RefuseCompletion(x) ==
  /\ executor[x].pc = "ending"
  /\ LET e == executor[x] IN
       \/ /\ e.token # fence
          /\ SetExecutor(x, Releasing(e.token))
       \/ /\ e.token = fence
          /\ e.obs # Observation(e.entry)
          /\ SetExecutor(x, IF CompletionRefused(Observation(e.entry), e.executed)
                               THEN Releasing(e.token)
                               ELSE [e EXCEPT !.obs = Observation(e.entry)])
  /\ UNCHANGED <<rows, fence, worker, operator, faults>>

ReleaseExecutor(x) ==
  /\ executor[x].pc = "releasing"
  /\ fence' = IF fence = executor[x].token THEN NoToken ELSE fence
  /\ SetExecutor(x, Idle)
  /\ UNCHANGED <<rows, worker, operator, faults>>

\* The process dies, or the run panics out of Execute: the entry stays RUNNING.
CrashExecutor(x) ==
  /\ executor[x] # Idle
  /\ Fault
  /\ SetExecutor(x, Idle)
  /\ UNCHANGED <<rows, fence, worker, operator>>

-----------------------------------------------------------------------------
(* Requesting an abort, ending the instance, losing the claim *)

\* AbortRequestService.Request up to its decision: the operator reads the claim
\* in force and the RUNNING entry.
ObserveAbort(o) ==
  /\ operator[o] = Idle
  /\ \E i \in Entries :
       /\ ~AbortRefused(Observation(i))
       /\ SetOperator(o, [pc |-> "requesting", token |-> fence, entry |-> i,
                          obs |-> Observation(i)])
  /\ UNCHANGED <<rows, fence, worker, executor, faults>>

\* RequestAbort commits on the three counters; the entry's status is not
\* compared and not written.
CommitAbort(o) ==
  /\ operator[o].pc = "requesting"
  /\ LET r == operator[o]
         d == AbortDecision(r.obs)
     IN /\ r.token = fence /\ fence # NoToken
        /\ <<intent, revision, generation>>
             = <<r.obs.intent, r.obs.revision, r.obs.generation>>
        /\ intent' = d.nextIntent
        /\ revision' = d.nextRevision
        /\ generation' = d.nextGeneration
  /\ SetOperator(o, Idle)
  /\ UNCHANGED <<policy, states, status, fence, worker, executor, faults>>

\* RequestAbort refuses a stale fence or a stale observation, or the operator
\* gives up: nothing is written.
DropAbort(o) ==
  /\ operator[o] # Idle
  /\ SetOperator(o, Idle)
  /\ UNCHANGED <<rows, fence, worker, executor, faults>>

\* InstanceCommandStore.Cancel of a queued or running instance, and Abort of a
\* running one: the final status and the end of the claim in one transaction.
\* Abort presents the fence it invalidates, so there must be one.
EndInstance ==
  /\ \/ /\ "CANCEL" \in Commands
        /\ status \in {"QUEUED", "RUNNING"}
        /\ status' = "CANCELED"
     \/ /\ "ABORT" \in Commands
        /\ status = "RUNNING"
        /\ fence # NoToken
        /\ status' = "ABORTED"
  /\ fence' = NoToken
  /\ UNCHANGED <<policy, states, intent, revision, generation, processes, faults>>

\* The host takes back the claim of a process that is gone.
TakeBack ==
  /\ fence # NoToken
  /\ \A w \in Workers : worker[w].token # fence
  /\ \A x \in Executors : executor[x].token # fence
  /\ fence' = NoToken
  /\ UNCHANGED <<rows, processes, faults>>

\* The lease of a live process lapses; the process does not know.
Lapse ==
  /\ \/ \E w \in Workers : worker[w].token = fence
     \/ \E x \in Executors : executor[x].token = fence
  /\ fence # NoToken
  /\ Fault
  /\ fence' = NoToken
  /\ UNCHANGED <<rows, processes>>

-----------------------------------------------------------------------------
WorkerStep(w) ==
  \/ ClaimNext(w) \/ Decide(w) \/ ApplyDecision(w) \/ RefuseDecision(w) \/ ReleaseWorker(w)

ExecutorStep(x) ==
  \/ Acquire(x) \/ EndRun(x) \/ CommitCompletion(x) \/ RefuseCompletion(x)
  \/ ReleaseExecutor(x)

Next ==
  \/ \E w \in Workers : WorkerStep(w) \/ FailWorker(w) \/ CrashWorker(w)
  \/ \E x \in Executors : ExecutorStep(x) \/ CrashExecutor(x)
  \/ \E o \in Operators : ObserveAbort(o) \/ CommitAbort(o) \/ DropAbort(o)
  \/ EndInstance
  \/ TakeBack
  \/ Lapse

Spec == Init /\ [][Next]_vars

\* The host keeps calling ProcessNext, hands the claim of a started entry to an
\* executor in the end although coordinators compete for it, and takes back the
\* claim of a process that died.  Nothing is assumed of operators and faults.
Fairness ==
  /\ \A w \in Workers : WF_vars(WorkerStep(w))
  /\ \A x \in Executors : /\ SF_vars(Acquire(x))
                          /\ WF_vars(ExecutorStep(x))
  /\ WF_vars(TakeBack)

FairSpec == Spec /\ Fairness
-----------------------------------------------------------------------------
(* Properties *)

\* The types of the rows and of the processes.
TypeOK ==
  /\ policy \in Policies
  /\ states \in [Entries -> EntryStates]
  /\ intent \in TerminalIntents
  /\ revision \in 0..MaxRevision
  /\ generation \in 0..MaxRevision
  /\ status \in InstanceStatuses
  /\ fence \in OwnTokens
  /\ worker \in [Workers -> WorkerStates]
  /\ executor \in [Executors -> ExecutorStates]
  /\ operator \in [Operators -> OperatorStates]
  /\ faults \in 0..MaxFaults

\* DecideAdvance never refuses the entries with EXECUTION_ENTRY_STATES_INVALID:
\* whatever the coordinators, executors and commands did to them, and in
\* whatever order, they are a vector a serial execution leaves behind.
NeverUndecidable == SerialShape(states, policy)

\* The serial contract itself: one entry runs at a time, in plan order, and
\* none runs or ends after an entry that stops the plan.
SerialExecution ==
  \A i, j \in Entries : i < j =>
    /\ states[j].status \notin {"PENDING", "SKIPPED"}
         => states[i].status \in {"SUCCEEDED", "FAILED"}
    /\ (states[i].status = "FAILED" /\ policy = "STOP_ON_FAILURE")
         => states[j].status \in {"PENDING", "SKIPPED"}

\* ApplyDecision writes what was decided on an earlier read without comparing
\* the entries again; while the claim is in force the decision is still the
\* one DecideAdvance would make now.
PendingDecisionStillFits ==
  \A w \in Workers :
    (worker[w].pc = "decided" /\ worker[w].token = fence)
      => Decides(states, policy, worker[w].decision)

\* No write to the intent counters is lost or made twice: the revision counts
\* the entries that ran to an end and the abort request, the generation the
\* intents that were carried out.
EveryWriteIsCounted ==
  /\ revision = Cardinality({i \in Entries :
                     states[i].status \in TerminalEntryStatuses \ {"SKIPPED"}})
                  + (IF intent = "ABORT" THEN 1 ELSE 0)
  /\ generation = Cardinality({i \in Entries :
                       states[i].status \in {"CANCELED", "ABORTED"}})

\* An instance that scheduling ends has nothing left to run, and it is reported
\* SUCCEEDED only if every entry succeeded, FAILED only if one failed and none
\* was stopped by an intent.
FinalStatusIsEarned ==
  status \in {"SUCCEEDED", "FAILED"} =>
    /\ \A i \in Entries : states[i].status \in TerminalEntryStatuses \ {"CANCELED", "ABORTED"}
    /\ status = "SUCCEEDED" <=> \A i \in Entries : states[i].status = "SUCCEEDED"

\* Entries move along the edges of their status machine only: no stale worker
\* restarts, skips or re-ends an entry.
EntriesFollowTheMachine ==
  [][\A i \in Entries :
       states'[i].status # states[i].status
         => <<states[i].status, states'[i].status>> \in EntryEdges]_vars

\* An entry ends in the status that the intent in force at that moment calls
\* for, whenever the completion observed it.
IntentInForceDecides ==
  [][\A i \in Entries :
       (states[i].status = "RUNNING" /\ states'[i].status \notin {"RUNNING", "SUCCEEDED"})
         => states'[i].status = CASE intent = "NONE"   -> "FAILED"
                                  [] intent = "CANCEL" -> "CANCELED"
                                  [] intent = "ABORT"  -> "ABORTED"]_vars

\* Once the instance is over, by a decision or by a command that invalidated
\* the claim, no process that still works for it changes any of its rows.
FinalInstanceIsFrozen ==
  [][(status \in FinalInstanceStatuses) => UNCHANGED rows]_vars

\* Whatever crashes, lapses and failures happen, as long as they stop
\* happening, the instance ends.
Finishes == <>(status \in FinalInstanceStatuses)

\* "the intent still travels intact into the Next* fields so DecideAdvance
\* stops the next entry" (entry_completion.go): an abort that lost to a run
\* that succeeded keeps the next entry from starting.
CarriedIntentStopsTheNextEntry ==
  [][\A i \in Entries :
       (states[i].status = "PENDING" /\ states'[i].status = "RUNNING")
         => intent # "ABORT"]_vars

\* The serial contract: DecideAdvance can always decide, entries run one at a
\* time and in order, a decision made on an earlier read still fits, every write
\* of an intent is counted once, and the final status follows from the entries.
SerialContract ==
  /\ TypeOK
  /\ NeverUndecidable
  /\ SerialExecution
  /\ PendingDecisionStillFits
  /\ EveryWriteIsCounted
  /\ FinalStatusIsEarned

\* No step of whatever actor moves a row where the machines, the intent in force
\* or the end of the instance forbid it.
RowsMoveAsAllowed == EntriesFollowTheMachine /\ IntentInForceDecides /\ FinalInstanceIsFrozen
=============================================================================
