-------------------------- MODULE InstanceCommands --------------------------
(***************************************************************************)
(* The commands on whole instances (application/scheduling/                *)
(* instance_command_services.go): CancelInstance, AbortInstance and        *)
(* ReorderQueue, over the store a host implements (the reference store of  *)
(* instance_command_transaction_conformance_test.go), beside the claims    *)
(* and the endings that scheduling makes of the same instances.            *)
(*                                                                         *)
(* A call is built from rows read earlier, is one atomic transaction in    *)
(* the store, and, when it ended a running instance, is followed by a      *)
(* cancellation signal.  The transaction may fail before it commits, its   *)
(* reply may be lost after it, the signal may fail; the same command, with *)
(* its CommandID, is then sent again.  All instances are in one queue      *)
(* scope.                                                                  *)
(***************************************************************************)
EXTENDS Integers, Sequences, FiniteSets, Lifecycle

CONSTANTS Instances,
          Clients,       \* concurrent callers of the services
          CommandIDs,
          MaxFaults      \* bound: failed calls, lost replies, failed signals

ASSUME CommandAssumption == IsFiniteSet(Instances) /\ MaxFaults \in Nat

VARIABLES status, revision, position,  \* of each instance
          claimed,       \* is the instance's worker fence in force
          queueRevision,
          commands,      \* what each CommandID stands for: NoRecord or a record
          signals,       \* instances a cancellation signal reached
          call,          \* each client's call
          faults

instances == <<status, revision, position, claimed>>
store == <<instances, queueRevision, commands>>
vars == <<store, signals, call, faults>>

-----------------------------------------------------------------------------
\* Members of the queue: queued and not claimed.
Eligible == {i \in Instances : status[i] = "QUEUED" /\ ~claimed[i]}

\* The orders of a set of instances.
Orders(S) ==
  {order \in [1..Cardinality(S) -> S] :
     \A j, k \in DOMAIN order : j # k => order[j] # order[k]}

\* The members of S in the order of their queue positions.
ByPosition(S) ==
  CHOOSE order \in Orders(S) :
    \A j, k \in DOMAIN order : j < k => position[order[j]] <= position[order[k]]

\* Positions 0, 1, ... along an order; the others keep theirs.
Positioned(order) ==
  [i \in Instances |->
     IF \E k \in DOMAIN order : order[k] = i
       THEN (CHOOSE k \in DOMAIN order : order[k] = i) - 1
       ELSE position[i]]

CancelCommands ==
  [kind: {"cancel"}, id: CommandIDs, instance: Instances,
   expected: {"QUEUED", "RUNNING"}, revision: Nat]
AbortCommands ==
  [kind: {"abort"}, id: CommandIDs, instance: Instances, revision: Nat]
ReorderCommands ==
  [kind: {"reorder"}, id: CommandIDs, revision: Nat,
   order: UNION {Orders(S) : S \in SUBSET Instances}]
AnyCommand == CancelCommands \cup AbortCommands \cup ReorderCommands

\* CancelInstanceRequestDigest and its siblings: every field, under a tag per
\* kind.
Digest(command) == command

\* The status an instance command ends its instance in.
EndStatus(command) == IF command.kind = "cancel" THEN "CANCELED" ELSE "ABORTED"

\* InstanceCommandResult and ReorderQueueResult.
Results ==
  [instance: Instances, status: {"CANCELED", "ABORTED"}, revision: Nat, signal: BOOLEAN]
    \cup [order: UNION {Orders(S) : S \in SUBSET Instances}, revision: Nat]

NoRecord == [digest |-> [kind |-> "none"]]

-----------------------------------------------------------------------------
Init ==
  /\ status = [i \in Instances |-> "QUEUED"]
  /\ revision = [i \in Instances |-> 0]
  /\ position \in {[i \in Instances |-> (CHOOSE k \in DOMAIN order : order[k] = i) - 1] :
                     order \in Orders(Instances)}
  /\ claimed = [i \in Instances |-> FALSE]
  /\ queueRevision = 0
  /\ commands = [id \in CommandIDs |-> NoRecord]
  /\ signals = {}
  /\ call = [c \in Clients |-> [pc |-> "idle"]]
  /\ faults = 0

SetCall(c, s) == call' = [call EXCEPT ![c] = s]
Stored(command) == [pc |-> "storing", command |-> command]
Signaling(command, result) == [pc |-> "signaling", command |-> command, result |-> result]
Answered(command, reply) == [pc |-> "answered", command |-> command, reply |-> reply]
Fault == faults < MaxFaults /\ faults' = faults + 1

\* A caller reads the rows and calls CancelInstance or AbortInstance.  Abort
\* needs the fence it invalidates.
SubmitEnd(c) ==
  /\ call[c].pc = "idle"
  /\ \E id \in CommandIDs, i \in Instances :
       \/ /\ status[i] \in {"QUEUED", "RUNNING"}
          /\ SetCall(c, Stored([kind |-> "cancel", id |-> id, instance |-> i,
                                expected |-> status[i], revision |-> revision[i]]))
       \/ /\ claimed[i]
          /\ SetCall(c, Stored([kind |-> "abort", id |-> id, instance |-> i,
                                revision |-> revision[i]]))
  /\ UNCHANGED <<store, signals, faults>>

\* A caller reads the queue and calls ReorderQueue with a new order of it.
SubmitReorder(c) ==
  /\ call[c].pc = "idle"
  /\ Eligible # {}
  /\ \E id \in CommandIDs, order \in Orders(Eligible) :
       SetCall(c, Stored([kind |-> "reorder", id |-> id, revision |-> queueRevision,
                          order |-> order]))
  /\ UNCHANGED <<store, signals, faults>>

-----------------------------------------------------------------------------
(* The store's transactions *)

Known(command) == commands[command.id] # NoRecord
SameRequest(command) == commands[command.id].digest = Digest(command)

\* Mutant: an instance command compares nothing.
FitsAnyInstance(command) ==
  command.kind = "reorder" =>
    /\ queueRevision = command.revision
    /\ Eligible = {command.order[k] : k \in DOMAIN command.order}

\* The compare-and-swap of each command: Cancel on revision and status, Abort on
\* fence, revision and status, Reorder on the queue's revision and membership.
Fits(command) ==
  IF command.kind = "reorder"
    THEN /\ queueRevision = command.revision
         /\ Eligible = {command.order[k] : k \in DOMAIN command.order}
    ELSE /\ revision[command.instance] = command.revision
         /\ IF command.kind = "cancel" THEN status[command.instance] = command.expected
            ELSE /\ claimed[command.instance]
                 /\ status[command.instance] = "RUNNING"

\* Mutant: the fence of the ended instance stays.
WriteEndKeepingFence(command) ==
  LET i == command.instance IN
    /\ status' = [status EXCEPT ![i] = EndStatus(command)]
    /\ revision' = [revision EXCEPT ![i] = @ + 1]
    /\ UNCHANGED claimed
    /\ IF status[i] = "QUEUED"
         THEN /\ position' = Positioned(ByPosition(Eligible \ {i}))
              /\ queueRevision' = queueRevision + 1
         ELSE UNCHANGED <<position, queueRevision>>

\* A queued instance that is canceled leaves the queue, and the queue closes up.
WriteEnd(command) ==
  LET i == command.instance IN
    /\ status' = [status EXCEPT ![i] = EndStatus(command)]
    /\ revision' = [revision EXCEPT ![i] = @ + 1]
    /\ claimed' = [claimed EXCEPT ![i] = FALSE]
    /\ IF status[i] = "QUEUED"
         THEN /\ position' = Positioned(ByPosition(Eligible \ {i}))
              /\ queueRevision' = queueRevision + 1
         ELSE UNCHANGED <<position, queueRevision>>

WriteOrder(command) ==
  /\ position' = Positioned(command.order)
  /\ queueRevision' = queueRevision + 1
  /\ UNCHANGED <<status, revision, claimed>>

ResultOf(command) ==
  IF command.kind = "reorder"
    THEN [order |-> command.order, revision |-> queueRevision + 1]
    ELSE [instance |-> command.instance, status |-> EndStatus(command),
          revision |-> revision[command.instance] + 1,
          signal |-> status[command.instance] = "RUNNING"]

\* What a replay answers: the result as it was committed, not the rows as they
\* are now.
Replayed(command) == commands[command.id].result

\* validateInstanceResult, the SignalRequired check, ReorderQueue's comparison.
ResultValid(command, result) ==
  /\ result.revision = command.revision + 1
  /\ IF command.kind = "reorder" THEN result.order = command.order
     ELSE /\ result.instance = command.instance
          /\ result.status = EndStatus(command)
          /\ result.signal <=> (command.kind = "abort" \/ command.expected = "RUNNING")

\* The service's next step, given the store's result.
AfterResult(command, result) ==
  IF ~ResultValid(command, result) THEN Answered(command, "VIOLATION")
  ELSE IF command.kind # "reorder" /\ result.signal THEN Signaling(command, result)
  ELSE Answered(command, "OK")

\* The command is recorded with its result in the transaction that carries it out.
Commit(c) ==
  /\ call[c].pc = "storing"
  /\ LET command == call[c].command IN
       /\ ~Known(command)
       /\ Fits(command)
       /\ IF command.kind = "reorder" THEN WriteOrder(command) ELSE WriteEnd(command)
       /\ commands' = [commands EXCEPT ![command.id] =
                         [digest |-> Digest(command), result |-> ResultOf(command)]]
       /\ \/ /\ SetCall(c, AfterResult(command, ResultOf(command)))
             /\ UNCHANGED faults
          \/ /\ SetCall(c, Answered(command, "FAULT"))   \* the reply is lost
             /\ Fault
  /\ UNCHANGED signals

\* Mutant: the rows are compared before a replay is recognized.
AnswerConflictFirst(c) ==
  /\ call[c].pc = "storing"
  /\ LET command == call[c].command IN
       \/ /\ ~Fits(command)
          /\ SetCall(c, Answered(command, "CONFLICT"))
       \/ /\ Known(command)
          /\ Fits(command)
          /\ SetCall(c, Answered(command, "IDENTITY_CONFLICT"))
  /\ UNCHANGED <<store, signals, faults>>

\* Replays are recognized before anything is compared.
Answer(c) ==
  /\ call[c].pc = "storing"
  /\ LET command == call[c].command IN
       \/ /\ Known(command)
          /\ SetCall(c, IF SameRequest(command)
                          THEN AfterResult(command, Replayed(command))
                          ELSE Answered(command, "IDENTITY_CONFLICT"))
       \/ /\ ~Known(command)
          /\ ~Fits(command)
          /\ SetCall(c, Answered(command, "CONFLICT"))
  /\ UNCHANGED <<store, signals, faults>>

\* The transaction fails and writes nothing.
FailStore(c) ==
  /\ call[c].pc = "storing"
  /\ Fault
  /\ SetCall(c, Answered(call[c].command, "FAULT"))
  /\ UNCHANGED <<store, signals>>

\* signalIfRequired: after the commit; a failure keeps the committed result.
Signal(c) ==
  /\ call[c].pc = "signaling"
  /\ signals' = signals \cup {call[c].result.instance}
  /\ SetCall(c, Answered(call[c].command, "OK"))
  /\ UNCHANGED <<store, faults>>

FailSignal(c) ==
  /\ call[c].pc = "signaling"
  /\ Fault
  /\ SetCall(c, Answered(call[c].command, "SIGNAL_RETRYABLE"))
  /\ UNCHANGED <<store, signals>>

\* A retryable answer makes the caller send the same command again.
Retry(c) ==
  /\ call[c].pc = "answered"
  /\ call[c].reply \in {"FAULT", "SIGNAL_RETRYABLE"}
  /\ SetCall(c, Stored(call[c].command))
  /\ UNCHANGED <<store, signals, faults>>

\* The caller takes a final answer.
Return(c) ==
  /\ call[c].pc = "answered"
  /\ call[c].reply \notin {"FAULT", "SIGNAL_RETRYABLE"}
  /\ SetCall(c, [pc |-> "idle"])
  /\ UNCHANGED <<store, signals, faults>>

-----------------------------------------------------------------------------
(* Scheduling *)

\* Mutant: a claim takes an instance out of the queue without saying so.
ClaimSilently(i) ==
  /\ i \in Eligible
  /\ status' = [status EXCEPT ![i] = "RUNNING"]
  /\ revision' = [revision EXCEPT ![i] = @ + 1]
  /\ claimed' = [claimed EXCEPT ![i] = TRUE]
  /\ UNCHANGED <<position, queueRevision, commands, signals, call, faults>>

\* A worker claims a queued instance.
Claim(i) ==
  /\ i \in Eligible
  /\ status' = [status EXCEPT ![i] = "RUNNING"]
  /\ revision' = [revision EXCEPT ![i] = @ + 1]
  /\ claimed' = [claimed EXCEPT ![i] = TRUE]
  /\ queueRevision' = queueRevision + 1
  /\ UNCHANGED <<position, commands, signals, call, faults>>

\* The host applies a final decision of DecideAdvance and ends the claim.
EndBySchedule(i) ==
  /\ status[i] = "RUNNING"
  /\ claimed[i]
  /\ \E final \in FinalInstanceStatuses : status' = [status EXCEPT ![i] = final]
  /\ revision' = [revision EXCEPT ![i] = @ + 1]
  /\ claimed' = [claimed EXCEPT ![i] = FALSE]
  /\ UNCHANGED <<position, queueRevision, commands, signals, call, faults>>

Step(c) ==
  \/ SubmitEnd(c) \/ SubmitReorder(c)
  \/ Commit(c) \/ Answer(c) \/ FailStore(c)
  \/ Signal(c) \/ FailSignal(c) \/ Retry(c) \/ Return(c)

Next ==
  \/ \E c \in Clients : Step(c)
  \/ \E i \in Instances : Claim(i) \/ EndBySchedule(i)

Spec == Init /\ [][Next]_vars

-----------------------------------------------------------------------------
(* Properties *)

Replies == {"OK", "CONFLICT", "IDENTITY_CONFLICT", "FAULT", "SIGNAL_RETRYABLE", "VIOLATION"}
Calls ==
  [pc: {"idle"}]
    \cup [pc: {"storing"}, command: AnyCommand]
    \cup [pc: {"signaling"}, command: AnyCommand, result: Results]
    \cup [pc: {"answered"}, command: AnyCommand, reply: Replies]

\* The types of the rows, of the command records and of the calls.
TypeOK ==
  /\ status \in [Instances -> InstanceStatuses]
  /\ revision \in [Instances -> 0..2]
  /\ position \in [Instances -> 0..(Cardinality(Instances) - 1)]
  /\ claimed \in [Instances -> BOOLEAN]
  /\ queueRevision \in Nat
  /\ commands \in [CommandIDs -> {NoRecord} \cup [digest: AnyCommand, result: Results]]
  /\ signals \subseteq Instances
  /\ call \in [Clients -> Calls]
  /\ faults \in 0..MaxFaults

EndsInstance(id) == commands[id].digest.kind \in {"cancel", "abort"}

\* Whatever cancels, claims and reorders are mixed, no two instances that wait
\* share a queue position: there is always one next instance.
QueueHasOneOrder ==
  \A i, j \in Eligible : i # j => position[i] # position[j]

\* Nothing changes who waits in the queue, or in which order, without changing
\* the queue's revision: a reorder built on what a caller saw cannot undo a
\* claim, a cancel or another reorder that came in between.
QueueNeverChangesSilently ==
  [][(Eligible' # Eligible \/ ByPosition(Eligible)' # ByPosition(Eligible))
       => queueRevision' > queueRevision]_vars

\* A command that is recorded as having ended an instance did end it, alone and
\* for good: the row still carries the status and the revision the record
\* names, and no second command claims the same instance.
EndingsAreExclusive ==
  \A id \in CommandIDs :
    EndsInstance(id) =>
      LET result == commands[id].result IN
      /\ status[result.instance] = result.status
      /\ revision[result.instance] = result.revision
      /\ \A other \in CommandIDs \ {id} :
           EndsInstance(other) => commands[other].result.instance # result.instance

\* The execution is told to stop only after the end of its instance is
\* committed, and only if it was running.
SignalFollowsCommit ==
  \A i \in signals :
    /\ \E id \in CommandIDs :
         /\ EndsInstance(id)
         /\ commands[id].result.instance = i
         /\ commands[id].result.signal
    /\ ~claimed[i]

\* A caller that is told CONFLICT may build a new command: the one it sent was
\* not carried out, not even by an attempt whose reply was lost.
ConflictMeansNotDone ==
  \A c \in Clients :
    (call[c].pc = "answered" /\ call[c].reply = "CONFLICT")
      => commands[call[c].command.id].digest # Digest(call[c].command)

\* The services never blame a conforming store, also not for a replay long
\* after the rows have moved on.
StoreIsNeverBlamed ==
  \A c \in Clients : call[c].pc = "answered" => call[c].reply # "VIOLATION"

\* Claims of an instance end for good: after a command or a decision ended it
\* nothing brings it back into the queue or under a fence.  Until then commands,
\* claims and decisions together keep to ValidateInstanceStatusTransition.
EndedIsOver ==
  [][\A i \in Instances :
       /\ status[i] \in FinalInstanceStatuses
            => /\ status'[i] = status[i] /\ revision'[i] = revision[i]
               /\ ~claimed'[i]
       /\ status'[i] = status[i] \/ <<status[i], status'[i]>> \in InstanceEdges]_vars

\* A caller that is told OK has nothing left to do: if its command ended an
\* execution, also in an earlier attempt or by another caller, that execution has
\* been told to stop.
OKMeansSignaled ==
  \A c \in Clients :
    (call[c].pc = "answered" /\ call[c].reply = "OK" /\ call[c].command.kind # "reorder")
      => LET result == commands[call[c].command.id].result
         IN result.signal => result.instance \in signals

\* The end of an execution and its signal agree, however the two are torn apart
\* by crashes and repeated by callers.
SignalsAnswerToEndings == SignalFollowsCommit /\ OKMeansSignaled

\* The answers are true: no CONFLICT for what was carried out, no blame for a
\* store that keeps its contract.
AnswersAreTrue == ConflictMeansNotDone /\ StoreIsNeverBlamed

\* The rows that commands, claims and the scheduler leave are consistent: one end
\* for an instance, one order of the queue.
RowsAgree == TypeOK /\ EndingsAreExclusive /\ QueueHasOneOrder

\* Rows change as callers may rely on: the queue under its revision only, and an
\* instance that has ended not at all.
RowsChangeVisibly == QueueNeverChangesSilently /\ EndedIsOver
=============================================================================
