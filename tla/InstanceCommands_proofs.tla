----------------------- MODULE InstanceCommands_proofs -----------------------
(***************************************************************************)
(* Proofs that the rows, the queue, the signals and the answers of the     *)
(* instance commands agree, for any number of instances, callers, command  *)
(* identities and faults.                                                  *)
(***************************************************************************)
EXTENDS InstanceCommands, FiniteSetTheorems, TLAPS

\* The members of the queue as a reorder command lists them.
Members(command) == {command.order[k] : k \in DOMAIN command.order}

\* The status a cancel or an abort found its instance in.
Found(command) == IF command.kind = "cancel" THEN command.expected ELSE "RUNNING"

\* A command was built from rows: where their revision has not moved, they are
\* still the ones it was built from.
Built(command) ==
  IF command.kind = "reorder"
    THEN /\ command.revision <= queueRevision
         /\ command.revision = queueRevision => Members(command) = Eligible
    ELSE /\ command.revision <= revision[command.instance]
         /\ command.revision = revision[command.instance] =>
              status[command.instance] = Found(command)

\* The rows have moved on from what a command was built from.
Overtaken(command) ==
  IF command.kind = "reorder" THEN command.revision < queueRevision
                              ELSE command.revision < revision[command.instance]

\* The fence, the status and the revision of an instance move together.
RowsFit ==
  \A i \in Instances :
    /\ claimed[i] <=> status[i] = "RUNNING"
    /\ status[i] = "QUEUED" => revision[i] = 0
    /\ status[i] = "RUNNING" => revision[i] = 1

\* A record holds a result that its command accepts, and a recorded end is what the
\* row still says.
RecordHolds(id) ==
  LET command == commands[id].digest
      result == commands[id].result
  IN  /\ command.id = id
      /\ ResultValid(command, result)
      /\ command.kind # "reorder" =>
           /\ status[command.instance] = EndStatus(command)
           /\ revision[command.instance] = command.revision + 1

RecordsHold == \A id \in CommandIDs : commands[id] # NoRecord => RecordHolds(id)

\* What was recorded for a command as its end has reached the execution.
Told(command) ==
  LET result == commands[command.id].result
  IN  command.kind # "reorder" /\ result.signal => result.instance \in signals

\* What holds of a call whatever the others do.
CallHolds(x) ==
  /\ x.pc # "idle" => Built(x.command)
  /\ x.pc = "signaling" =>
       /\ SameRequest(x.command) /\ x.command.kind # "reorder"
       /\ x.result = commands[x.command.id].result /\ x.result.signal
  /\ x.pc = "answered" =>
       /\ x.reply # "VIOLATION"
       /\ x.reply = "CONFLICT" => Overtaken(x.command) /\ ~SameRequest(x.command)
       /\ x.reply = "OK" => SameRequest(x.command) /\ Told(x.command)

CallsHold == \A c \in Clients : CallHolds(call[c])

IInv ==
  /\ TypeOK
  /\ RowsFit /\ QueueHasOneOrder
  /\ RecordsHold /\ EndingsAreExclusive
  /\ SignalFollowsCommit
  /\ CallsHold

-----------------------------------------------------------------------------
(* Orders of the queue.                                                    *)

\* An order of a finite set names each of its members, once.
LEMMA OrderCovers ==
  ASSUME NEW S, IsFiniteSet(S), NEW order \in Orders(S)
  PROVE  /\ Cardinality(S) \in Nat /\ DOMAIN order = 1..Cardinality(S)
         /\ S = {order[k] : k \in DOMAIN order}
         /\ \A j, k \in DOMAIN order : j # k => order[j] # order[k]
<1> DEFINE n == Cardinality(S)
<1>1. n \in Nat
  BY FS_CardinalityType
<1>2. order \in [1..n -> S] /\ \A j, k \in 1..n : j # k => order[j] # order[k]
  BY DEF Orders
<1>3. order \in Injection(1..n, S)
  BY <1>2 DEF Injection, IsInjective
<1>4. Cardinality(1..n) = n
  BY <1>1, FS_Interval
<1>5. order \in Surjection(1..n, S)
  BY <1>3, <1>4, FS_Injection
<1>6. \A x \in S : \E k \in 1..n : order[k] = x
  BY <1>5 DEF Surjection
<1> QED
  BY <1>1, <1>2, <1>6

\* Positions along an order of some instances tell these apart.
LEMMA PositionsAlong ==
  ASSUME NEW S \in SUBSET Instances, NEW order \in Orders(S),
         position \in [Instances -> 0..(Cardinality(Instances) - 1)]
  PROVE  /\ Positioned(order) \in [Instances -> 0..(Cardinality(Instances) - 1)]
         /\ \A i, j \in S : i # j => Positioned(order)[i] # Positioned(order)[j]
<1> DEFINE n == Cardinality(S)
           at(i) == CHOOSE k \in DOMAIN order : order[k] = i
<1>1. /\ IsFiniteSet(S) /\ n \in Nat /\ n <= Cardinality(Instances)
      /\ Cardinality(Instances) \in Nat
  BY CommandAssumption, FS_Subset, FS_CardinalityType
<1>2. /\ DOMAIN order = 1..n
      /\ S = {order[k] : k \in DOMAIN order}
  BY <1>1, OrderCovers
<1>3. \A i \in S : at(i) \in 1..n /\ order[at(i)] = i
  BY <1>2
<1>4. \A i \in Instances : i \in S <=> \E k \in DOMAIN order : order[k] = i
  BY <1>2
<1>5. /\ \A i \in S : Positioned(order)[i] = at(i) - 1
      /\ \A i \in Instances \ S : Positioned(order)[i] = position[i]
  BY <1>4 DEF Positioned
<1> HIDE DEF at, n
<1>6. \A i \in S : at(i) - 1 \in 0..(Cardinality(Instances) - 1)
  BY <1>1, <1>3
<1>7. DOMAIN Positioned(order) = Instances
  BY DEF Positioned
<1>8. Positioned(order) \in [Instances -> 0..(Cardinality(Instances) - 1)]
  <2>1. \A i \in Instances : Positioned(order)[i] \in 0..(Cardinality(Instances) - 1)
    BY <1>5, <1>6
  <2>2. Positioned(order) = [i \in Instances |-> Positioned(order)[i]]
    BY DEF Positioned
  <2> QED
    BY <2>1, <2>2
<1>9. \A i, j \in S : i # j => at(i) # at(j)
  BY <1>3
<1>10. \A i \in S : at(i) \in Int
  BY <1>1, <1>3
<1> QED
  BY <1>5, <1>8, <1>9, <1>10

\* Instances with different positions have an order by position: the rank of each is
\* the number of those up to it.
LEMMA SortedOrder ==
  ASSUME NEW S, IsFiniteSet(S), NEW p \in [S -> Nat],
         \A i, j \in S : i # j => p[i] # p[j]
  PROVE  \E order \in Orders(S) :
           \A j, k \in DOMAIN order : j < k => p[order[j]] <= p[order[k]]
<1> DEFINE n == Cardinality(S)
           Upto(i) == {j \in S : p[j] <= p[i]}
           rank == [i \in S |-> Cardinality(Upto(i))]
<1>1. n \in Nat
  BY FS_CardinalityType
<1>2. ASSUME NEW i \in S
      PROVE  /\ IsFiniteSet(Upto(i)) /\ rank[i] = Cardinality(Upto(i))
             /\ rank[i] \in 1..n
  <2>1. Upto(i) \subseteq S /\ i \in Upto(i)
    OBVIOUS
  <2>2. /\ IsFiniteSet(Upto(i)) /\ Cardinality(Upto(i)) \in Nat
        /\ Cardinality(Upto(i)) <= n
    BY <2>1, FS_Subset, FS_CardinalityType
  <2>3. Cardinality(Upto(i)) # 0
    BY <2>1, <2>2, FS_EmptySet
  <2> QED
    BY <1>1, <2>2, <2>3
<1>3. ASSUME NEW i \in S, NEW j \in S, p[i] < p[j]
      PROVE  rank[i] < rank[j]
  <2>1. Upto(i) \subseteq Upto(j) /\ Upto(i) # Upto(j)
    <3>1. j \in Upto(j) /\ j \notin Upto(i)
      BY <1>3
    <3>2. \A k \in S : p[k] <= p[i] => p[k] <= p[j]
      BY <1>3
    <3> QED
      BY <3>1, <3>2
  <2>2. IsFiniteSet(Upto(j)) /\ rank[i] = Cardinality(Upto(i)) /\ rank[j] = Cardinality(Upto(j))
    BY <1>2
  <2>3. rank[i] <= rank[j] /\ rank[i] # rank[j]
    BY <2>1, <2>2, FS_Subset
  <2>4. rank[i] \in Nat /\ rank[j] \in Nat
    BY <1>2
  <2> QED
    BY <2>3, <2>4
<1>4. \A i, j \in S : i # j => rank[i] # rank[j]
  <2> SUFFICES ASSUME NEW i \in S, NEW j \in S, i # j PROVE rank[i] # rank[j]
    OBVIOUS
  <2>1. p[i] < p[j] \/ p[j] < p[i]
    OBVIOUS
  <2>2. rank[i] \in Nat /\ rank[j] \in Nat
    BY <1>2
  <2> QED
    BY <1>3, <2>1, <2>2
<1> HIDE DEF rank
<1>5. rank \in [S -> 1..n]
  BY <1>2 DEF rank
<1>6. \A k \in 1..n : \E i \in S : rank[i] = k
  <2>1. rank \in Injection(S, 1..n)
    BY <1>4, <1>5 DEF Injection, IsInjective
  <2>2. IsFiniteSet(1..n) /\ Cardinality(1..n) = n
    BY <1>1, FS_Interval
  <2>3. rank \in Surjection(S, 1..n)
    BY <2>1, <2>2, FS_Injection
  <2> QED
    BY <2>3 DEF Surjection
<1> DEFINE order == [k \in 1..n |-> CHOOSE i \in S : rank[i] = k]
<1>7. \A k \in 1..n : order[k] \in S /\ rank[order[k]] = k
  BY <1>6
<1>8. order \in [1..n -> S] /\ DOMAIN order = 1..n
  BY <1>7
<1> HIDE DEF order
<1>9. order \in Orders(S)
  BY <1>7, <1>8 DEF Orders
<1>10. ASSUME NEW j \in 1..n, NEW k \in 1..n, j < k
       PROVE  p[order[j]] <= p[order[k]]
  <2>1. order[j] \in S /\ order[k] \in S /\ rank[order[j]] = j /\ rank[order[k]] = k
    BY <1>7
  <2>2. p[order[j]] \in Nat /\ p[order[k]] \in Nat
    BY <2>1
  <2>3. j \in Int /\ k \in Int
    BY <1>1
  <2>4. ~(p[order[k]] < p[order[j]])
    BY <1>3, <1>10, <2>1, <2>3
  <2> QED
    BY <2>2, <2>4
<1> QED
  BY <1>8, <1>9, <1>10

\* The members of a queue with one order have an order by position, ByPosition.
LEMMA ByPositionIsAnOrder ==
  ASSUME position \in [Instances -> 0..(Cardinality(Instances) - 1)],
         QueueHasOneOrder, NEW S \in SUBSET Eligible
  PROVE  ByPosition(S) \in Orders(S)
<1> DEFINE p == [i \in S |-> position[i]]
<1>1. S \subseteq Instances /\ IsFiniteSet(S)
  BY CommandAssumption, FS_Subset DEF Eligible
<1>2. p \in [S -> Nat] /\ \A i, j \in S : i # j => p[i] # p[j]
  BY <1>1, CommandAssumption, FS_CardinalityType DEF QueueHasOneOrder
<1>3. PICK order \in Orders(S) : \A j, k \in DOMAIN order : j < k => p[order[j]] <= p[order[k]]
  BY <1>1, <1>2, SortedOrder
<1>4. \A k \in DOMAIN order : order[k] \in S
  BY DEF Orders
<1>5. \A j, k \in DOMAIN order : j < k => position[order[j]] <= position[order[k]]
  BY <1>3, <1>4
<1> QED
  BY <1>5 DEF ByPosition

-----------------------------------------------------------------------------
(* The values the model is made of.                                        *)

\* The fields of a command.
LEMMA CommandFields ==
  ASSUME NEW command \in AnyCommand
  PROVE  /\ command.kind \in {"cancel", "abort", "reorder"}
         /\ command.id \in CommandIDs
         /\ command.revision \in Nat
         /\ command.kind # "reorder" => command.instance \in Instances
         /\ command.kind = "cancel" => command.expected \in {"QUEUED", "RUNNING"}
         /\ command.kind = "reorder" => \E S \in SUBSET Instances : command.order \in Orders(S)
BY DEF AnyCommand, CancelCommands, AbortCommands, ReorderCommands

\* The fields of a call.
LEMMA CallFields ==
  ASSUME NEW x \in Calls
  PROVE  /\ x.pc \in {"idle", "storing", "signaling", "answered"}
         /\ x.pc # "idle" => x.command \in AnyCommand
         /\ x.pc = "signaling" => x.result \in Results
BY DEF Calls

\* The calls that the steps make.
LEMMA CallsMade ==
  ASSUME NEW command \in AnyCommand
  PROVE  /\ Stored(command) \in Calls /\ Stored(command).pc = "storing"
         /\ Stored(command).command = command
         /\ \A result \in Results :
              /\ Signaling(command, result) \in Calls
              /\ Signaling(command, result).pc = "signaling"
              /\ Signaling(command, result).command = command
              /\ Signaling(command, result).result = result
         /\ \A reply \in Replies :
              /\ Answered(command, reply) \in Calls
              /\ Answered(command, reply).pc = "answered"
              /\ Answered(command, reply).command = command
              /\ Answered(command, reply).reply = reply
BY DEF Calls, Stored, Signaling, Answered

\* The replies there are.
LEMMA RepliesThere ==
  {"OK", "CONFLICT", "IDENTITY_CONFLICT", "FAULT", "SIGNAL_RETRYABLE"} \subseteq Replies
BY DEF Replies

\* A command that its record was made for is known, with a result it accepts.
LEMMA SameRequestIsKnown ==
  ASSUME TypeOK, RecordsHold, NEW command \in AnyCommand, SameRequest(command)
  PROVE  /\ Known(command) /\ RecordHolds(command.id)
         /\ commands[command.id].digest = command
         /\ commands[command.id].result \in Results
         /\ ResultValid(command, commands[command.id].result)
<1>1. /\ commands[command.id].digest = command /\ command.id \in CommandIDs
      /\ command.kind # "none"
  BY CommandFields DEF SameRequest, Digest
<1>2. commands[command.id] # NoRecord
  BY <1>1 DEF NoRecord
<1>3. commands[command.id] \in [digest: AnyCommand, result: Results]
  BY <1>1, <1>2 DEF TypeOK
<1> QED
  BY <1>1, <1>2, <1>3 DEF RecordsHold, RecordHolds, Known

\* The record of an end is one of a cancel or of an abort.
LEMMA EndsAreKnown ==
  ASSUME TypeOK, RecordsHold, NEW id \in CommandIDs, EndsInstance(id)
  PROVE  /\ commands[id] # NoRecord
         /\ commands[id].digest \in AnyCommand /\ commands[id].digest.id = id
         /\ commands[id].digest.kind \in {"cancel", "abort"}
         /\ commands[id].result \in Results
         /\ ResultValid(commands[id].digest, commands[id].result)
         /\ commands[id].result.instance = commands[id].digest.instance
         /\ commands[id].result.instance \in Instances
         /\ commands[id].result.status = EndStatus(commands[id].digest)
         /\ status[commands[id].result.instance] = commands[id].result.status
         /\ revision[commands[id].result.instance] = commands[id].result.revision
<1>1. commands[id] # NoRecord
  BY DEF EndsInstance, NoRecord
<1>2. commands[id] \in [digest: AnyCommand, result: Results]
  BY <1>1 DEF TypeOK
<1>3. /\ commands[id].digest \in AnyCommand /\ commands[id].result \in Results
      /\ commands[id].digest.kind \in {"cancel", "abort"}
  BY <1>2 DEF EndsInstance
<1>4. RecordHolds(id)
  BY <1>1 DEF RecordsHold
<1> QED
  BY <1>1, <1>3, <1>4, CommandFields DEF RecordHolds, ResultValid

-----------------------------------------------------------------------------
(* The inductive invariant.                                                *)

\* Instances wait in an order, without commands, signals or calls.
LEMMA InitIInv == Init => IInv
<1> SUFFICES ASSUME Init PROVE IInv
  OBVIOUS
<1>1. PICK order \in Orders(Instances) :
        position = [i \in Instances |-> (CHOOSE k \in DOMAIN order : order[k] = i) - 1]
  BY DEF Init
<1>2. /\ Cardinality(Instances) \in Nat /\ DOMAIN order = 1..Cardinality(Instances)
      /\ Instances = {order[k] : k \in DOMAIN order}
  BY <1>1, OrderCovers, CommandAssumption
<1> DEFINE at(i) == CHOOSE k \in DOMAIN order : order[k] = i
<1>3. \A i \in Instances : at(i) \in 1..Cardinality(Instances) /\ order[at(i)] = i
  BY <1>2
<1>4. \A i \in Instances : position[i] = at(i) - 1
  BY <1>1
<1> HIDE DEF at
<1>5. position \in [Instances -> 0..(Cardinality(Instances) - 1)]
  <2>1. \A i \in Instances : position[i] \in 0..(Cardinality(Instances) - 1)
    <3> TAKE i \in Instances
    <3>1. at(i) \in 1..Cardinality(Instances) /\ Cardinality(Instances) \in Nat
      BY <1>2, <1>3
    <3>2. at(i) - 1 \in 0..(Cardinality(Instances) - 1)
      BY <3>1
    <3> QED
      BY <1>4, <3>2
  <2> QED
    BY <1>1, <2>1
<1>6. QueueHasOneOrder
  <2> SUFFICES ASSUME NEW i \in Instances, NEW j \in Instances, i # j
               PROVE  position[i] # position[j]
    BY DEF QueueHasOneOrder, Eligible
  <2>1. at(i) # at(j) /\ at(i) \in 1..Cardinality(Instances) /\ at(j) \in 1..Cardinality(Instances)
    BY <1>3
  <2>2. at(i) - 1 # at(j) - 1
    BY <2>1
  <2> QED
    BY <1>4, <2>2
<1>7. TypeOK
  BY <1>5, CommandAssumption DEF Init, TypeOK, InstanceStatuses, Calls
<1>8. /\ RowsFit /\ RecordsHold
      /\ \A id \in CommandIDs : ~EndsInstance(id)
  BY DEF Init, RowsFit, RecordsHold, EndsInstance, NoRecord
<1>9. EndingsAreExclusive /\ SignalFollowsCommit
  BY <1>8 DEF Init, EndingsAreExclusive, SignalFollowsCommit
<1>10. CallsHold
  BY DEF Init, CallsHold, CallHolds
<1> QED
  BY <1>6, <1>7, <1>8, <1>9, <1>10 DEF IInv

\* What holds of a call stands while only signals are added.
LEMMA CallStands ==
  ASSUME UNCHANGED store, signals \subseteq signals', NEW x, CallHolds(x)
  PROVE  CallHolds(x)'
<1>1. UNCHANGED <<status, revision, position, claimed, queueRevision, commands>>
  BY DEF store, instances
<1> QED
  BY <1>1 DEF CallHolds, Built, Overtaken, Eligible, SameRequest, Told

\* A step that leaves the rows alone, signals only what is recorded, and moves one
\* call to where it may be keeps the invariant.
LEMMA QuietStep ==
  ASSUME IInv, UNCHANGED store, faults' \in 0..MaxFaults,
         signals \subseteq signals',
         \A i \in signals' \ signals : \E id \in CommandIDs :
           EndsInstance(id) /\ commands[id].result.instance = i /\ commands[id].result.signal,
         NEW c \in Clients, NEW x \in Calls, call' = [call EXCEPT ![c] = x],
         CallHolds(x)'
  PROVE  IInv'
<1>1. /\ UNCHANGED <<status, revision, position, claimed, queueRevision, commands>>
      /\ call \in [Clients -> Calls] /\ call'[c] = x
      /\ \A d \in Clients : d # c => call'[d] = call[d]
  BY DEF IInv, TypeOK, store, instances
<1>2. \A i \in signals' \ signals : i \in Instances /\ ~claimed[i]
  <2> SUFFICES ASSUME NEW i \in signals' \ signals PROVE i \in Instances /\ ~claimed[i]
    OBVIOUS
  <2>1. PICK id \in CommandIDs : EndsInstance(id) /\ commands[id].result.instance = i
    OBVIOUS
  <2>2. i \in Instances /\ status[i] \in {"CANCELED", "ABORTED"}
    BY <2>1, EndsAreKnown DEF IInv, EndStatus
  <2> QED
    BY <2>2 DEF IInv, RowsFit
<1>3. TypeOK'
  BY <1>1, <1>2 DEF IInv, TypeOK
<1>4. RowsFit' /\ QueueHasOneOrder' /\ RecordsHold' /\ EndingsAreExclusive'
  BY <1>1 DEF IInv, RowsFit, QueueHasOneOrder, Eligible, RecordsHold, RecordHolds,
      EndingsAreExclusive, EndsInstance
<1>5. SignalFollowsCommit'
  BY <1>1, <1>2 DEF IInv, SignalFollowsCommit, EndsInstance
<1>6. \A y : CallHolds(y) => CallHolds(y)'
  BY CallStands
<1>7. CallsHold'
  BY <1>1, <1>6 DEF IInv, CallsHold
<1> QED
  BY <1>3, <1>4, <1>5, <1>7 DEF IInv

\* Such a step without a signal or a fault.
LEMMA SilentStep ==
  ASSUME IInv, UNCHANGED <<store, signals>>, faults' \in 0..MaxFaults,
         NEW c \in Clients, NEW x \in Calls, call' = [call EXCEPT ![c] = x], CallHolds(x)
  PROVE  IInv'
<1>1. CallHolds(x)'
  BY CallStands
<1> QED
  BY <1>1, QuietStep

\* A command is built from the rows as they are.
LEMMA SubmissionsKeep ==
  ASSUME IInv, NEW c \in Clients, SubmitEnd(c) \/ SubmitReorder(c)
  PROVE  IInv'
<1>1. /\ UNCHANGED <<store, signals>> /\ faults' \in 0..MaxFaults
  BY DEF IInv, TypeOK, SubmitEnd, SubmitReorder
<1>2. ASSUME NEW command \in AnyCommand, Built(command), SetCall(c, Stored(command))
      PROVE  IInv'
  <2>1. /\ Stored(command) \in Calls /\ Stored(command).pc = "storing"
        /\ Stored(command).command = command
    BY CallsMade
  <2>2. CallHolds(Stored(command))
    BY <1>2, <2>1 DEF CallHolds
  <2> QED
    BY <1>1, <1>2, <2>1, <2>2, SilentStep DEF SetCall
<1>3. CASE SubmitEnd(c)
  <2>1. PICK id \in CommandIDs, i \in Instances :
          \/ /\ status[i] \in {"QUEUED", "RUNNING"}
             /\ SetCall(c, Stored([kind |-> "cancel", id |-> id, instance |-> i,
                                   expected |-> status[i], revision |-> revision[i]]))
          \/ /\ claimed[i]
             /\ SetCall(c, Stored([kind |-> "abort", id |-> id, instance |-> i,
                                   revision |-> revision[i]]))
    BY <1>3 DEF SubmitEnd
  <2>2. revision[i] \in Nat
    BY DEF IInv, TypeOK
  <2>3. CASE /\ status[i] \in {"QUEUED", "RUNNING"}
             /\ SetCall(c, Stored([kind |-> "cancel", id |-> id, instance |-> i,
                                   expected |-> status[i], revision |-> revision[i]]))
    <3> DEFINE command == [kind |-> "cancel", id |-> id, instance |-> i,
                           expected |-> status[i], revision |-> revision[i]]
    <3>1. command \in AnyCommand
      BY <2>2, <2>3 DEF AnyCommand, CancelCommands
    <3>2. Built(command)
      BY <2>2 DEF Built, Found
    <3> QED
      BY <1>2, <2>3, <3>1, <3>2
  <2>4. CASE /\ claimed[i]
             /\ SetCall(c, Stored([kind |-> "abort", id |-> id, instance |-> i,
                                   revision |-> revision[i]]))
    <3> DEFINE command == [kind |-> "abort", id |-> id, instance |-> i,
                           revision |-> revision[i]]
    <3>1. command \in AnyCommand
      BY <2>2 DEF AnyCommand, AbortCommands
    <3>2. status[i] = "RUNNING"
      BY <2>4 DEF IInv, RowsFit
    <3>3. Built(command)
      BY <2>2, <3>2 DEF Built, Found
    <3> QED
      BY <1>2, <2>4, <3>1, <3>3
  <2> QED
    BY <2>1, <2>3, <2>4
<1>4. CASE SubmitReorder(c)
  <2>1. PICK id \in CommandIDs, order \in Orders(Eligible) :
          SetCall(c, Stored([kind |-> "reorder", id |-> id, revision |-> queueRevision,
                             order |-> order]))
    BY <1>4 DEF SubmitReorder
  <2> DEFINE command == [kind |-> "reorder", id |-> id, revision |-> queueRevision,
                         order |-> order]
  <2>2. Eligible \in SUBSET Instances /\ IsFiniteSet(Eligible)
    BY CommandAssumption, FS_Subset DEF Eligible
  <2>3. queueRevision \in Nat
    BY DEF IInv, TypeOK
  <2>4. command \in AnyCommand
    BY <2>2, <2>3 DEF AnyCommand, ReorderCommands
  <2>5. Members(command) = Eligible
    BY <2>2, OrderCovers DEF Members
  <2>6. Built(command)
    BY <2>3, <2>5 DEF Built
  <2> QED
    BY <1>2, <2>1, <2>4, <2>6
<1> QED
  BY <1>3, <1>4

\* A replay is answered from its record; a command that no longer fits was overtaken.
LEMMA AnswerKeeps ==
  ASSUME IInv, NEW c \in Clients, Answer(c)
  PROVE  IInv'
<1> DEFINE command == call[c].command
<1>1. /\ call[c] \in Calls /\ CallHolds(call[c]) /\ call[c].pc = "storing"
      /\ UNCHANGED <<store, signals>> /\ faults' \in 0..MaxFaults
      /\ \/ /\ Known(command)
            /\ SetCall(c, IF SameRequest(command)
                            THEN AfterResult(command, Replayed(command))
                            ELSE Answered(command, "IDENTITY_CONFLICT"))
         \/ ~Known(command) /\ ~Fits(command) /\ SetCall(c, Answered(command, "CONFLICT"))
  BY DEF IInv, TypeOK, CallsHold, Answer
<1>2. command \in AnyCommand /\ Built(command)
  BY <1>1, CallFields DEF CallHolds
<1>3. ASSUME NEW x \in Calls, SetCall(c, x), CallHolds(x)
      PROVE  IInv'
  BY <1>1, <1>3, SilentStep DEF SetCall
<1>4. \A reply \in {"OK", "CONFLICT", "IDENTITY_CONFLICT"} :
        /\ Answered(command, reply) \in Calls
        /\ Answered(command, reply).pc = "answered"
        /\ Answered(command, reply).command = command
        /\ Answered(command, reply).reply = reply
  BY <1>2, CallsMade, RepliesThere
<1> HIDE DEF command
<1>5. CASE Known(command) /\ SameRequest(command)
  <2> DEFINE result == commands[command.id].result
  <2>1. SetCall(c, AfterResult(command, result)) /\ result \in Results /\ ResultValid(command, result)
    BY <1>1, <1>2, <1>5, SameRequestIsKnown DEF IInv, Known, Replayed
  <2>2. CASE command.kind # "reorder" /\ result.signal
    <3>1. AfterResult(command, result) = Signaling(command, result)
      BY <2>1, <2>2 DEF AfterResult
    <3>2. /\ Signaling(command, result) \in Calls
          /\ Signaling(command, result).pc = "signaling"
          /\ Signaling(command, result).command = command
          /\ Signaling(command, result).result = result
      BY <1>2, <2>1, CallsMade
    <3>3. CallHolds(Signaling(command, result))
      BY <1>2, <1>5, <2>2, <3>2 DEF CallHolds
    <3> QED
      BY <1>3, <2>1, <3>1, <3>2, <3>3
  <2>3. CASE ~(command.kind # "reorder" /\ result.signal)
    <3>1. AfterResult(command, result) = Answered(command, "OK")
      BY <2>1, <2>3 DEF AfterResult
    <3>2. CallHolds(Answered(command, "OK"))
      BY <1>2, <1>4, <1>5, <2>3 DEF CallHolds, Told
    <3> QED
      BY <1>3, <1>4, <2>1, <3>1, <3>2
  <2> QED
    BY <2>2, <2>3
<1>6. CASE Known(command) /\ ~SameRequest(command)
  <2>1. SetCall(c, Answered(command, "IDENTITY_CONFLICT"))
    BY <1>1, <1>6 DEF command
  <2>2. CallHolds(Answered(command, "IDENTITY_CONFLICT"))
    BY <1>2, <1>4 DEF CallHolds
  <2> QED
    BY <1>3, <1>4, <2>1, <2>2
<1>7. CASE ~Known(command)
  <2>1. ~Fits(command) /\ SetCall(c, Answered(command, "CONFLICT"))
    BY <1>1, <1>7 DEF command
  <2>2. ~SameRequest(command)
    BY <1>2, <1>7, SameRequestIsKnown DEF IInv
  <2>3. Overtaken(command)
    <3>1. /\ command.kind \in {"cancel", "abort", "reorder"} /\ command.revision \in Nat
          /\ queueRevision \in Nat
          /\ command.kind # "reorder" =>
               command.instance \in Instances /\ revision[command.instance] \in Nat
      BY <1>2, CommandFields DEF IInv, TypeOK
    <3>2. CASE command.kind = "reorder"
      BY <1>2, <2>1, <3>1, <3>2 DEF Built, Fits, Members, Overtaken
    <3>3. CASE command.kind = "cancel"
      BY <1>2, <2>1, <3>1, <3>3 DEF Built, Fits, Found, Overtaken
    <3>4. CASE command.kind = "abort"
      BY <1>2, <2>1, <3>1, <3>4 DEF IInv, RowsFit, Built, Fits, Found, Overtaken
    <3> QED
      BY <3>1, <3>2, <3>3, <3>4
  <2>4. CallHolds(Answered(command, "CONFLICT"))
    BY <1>2, <1>4, <2>2, <2>3 DEF CallHolds
  <2> QED
    BY <1>3, <1>4, <2>1, <2>4
<1> QED
  BY <1>5, <1>6, <1>7

\* A signal follows the record of the end.
LEMMA SignalKeeps ==
  ASSUME IInv, NEW c \in Clients, Signal(c), NEW command, command = call[c].command
  PROVE  IInv'
<1>1. /\ call[c] \in Calls /\ CallHolds(call[c]) /\ faults' \in 0..MaxFaults
      /\ call[c].pc = "signaling" /\ signals' = signals \cup {call[c].result.instance}
      /\ UNCHANGED store /\ call' = [call EXCEPT ![c] = Answered(command, "OK")]
  BY DEF IInv, TypeOK, CallsHold, Signal, SetCall
<1>2. /\ SameRequest(command) /\ command.kind # "reorder" /\ Built(command)
      /\ call[c].result = commands[command.id].result /\ call[c].result.signal
  BY <1>1 DEF CallHolds
<1>3. command \in AnyCommand /\ command.id \in CommandIDs /\ EndsInstance(command.id)
  <2>1. command \in AnyCommand
    BY <1>1, CallFields
  <2> QED
    BY <1>2, <2>1, CommandFields DEF SameRequest, Digest, EndsInstance
<1>4. \A i \in signals' \ signals :
        EndsInstance(command.id) /\ commands[command.id].result.instance = i
          /\ commands[command.id].result.signal
  BY <1>1, <1>2, <1>3
<1>5. /\ Answered(command, "OK") \in Calls
      /\ Answered(command, "OK").pc = "answered"
      /\ Answered(command, "OK").command = command
      /\ Answered(command, "OK").reply = "OK"
  BY <1>3, CallsMade, RepliesThere
<1>6. CallHolds(Answered(command, "OK"))'
  <2>1. UNCHANGED <<status, revision, position, claimed, queueRevision, commands>>
    BY <1>1 DEF store, instances
  <2>2. Built(command)' /\ SameRequest(command)'
    BY <1>2, <2>1 DEF Built, Eligible, SameRequest
  <2>3. Told(command)'
    BY <1>1, <1>2, <2>1 DEF Told
  <2> QED
    BY <1>5, <2>2, <2>3 DEF CallHolds
<1>7. signals \subseteq signals'
  BY <1>1
<1> QED
  BY <1>1, <1>3, <1>4, <1>5, <1>6, <1>7, QuietStep

\* A failed signal or transaction is sent again with its command.
LEMMA FaultsKeep ==
  ASSUME IInv, NEW c \in Clients,
         FailSignal(c) \/ FailStore(c) \/ Retry(c) \/ Return(c)
  PROVE  IInv'
<1> DEFINE command == call[c].command
<1>1. call[c] \in Calls /\ CallHolds(call[c]) /\ faults \in 0..MaxFaults
  BY DEF IInv, TypeOK, CallsHold
<1>2. call[c].pc # "idle" => command \in AnyCommand /\ Built(command)
  BY <1>1, CallFields DEF CallHolds
<1>3. /\ UNCHANGED <<store, signals>>
      /\ faults' \in 0..MaxFaults
  BY <1>1, CommandAssumption DEF FailSignal, FailStore, Retry, Return, Fault
<1>4. ASSUME call[c].pc # "idle", NEW reply \in {"FAULT", "SIGNAL_RETRYABLE"}
      PROVE  /\ Answered(command, reply) \in Calls
             /\ Answered(command, reply).pc = "answered"
             /\ Answered(command, reply).command = command
             /\ Answered(command, reply).reply = reply
  BY <1>2, <1>4, CallsMade, RepliesThere
<1>5. CASE FailSignal(c) \/ FailStore(c)
  <2>1. PICK reply \in {"FAULT", "SIGNAL_RETRYABLE"} :
          call[c].pc # "idle" /\ call' = [call EXCEPT ![c] = Answered(command, reply)]
    BY <1>5 DEF FailSignal, FailStore, SetCall
  <2>2. /\ Answered(command, reply) \in Calls
        /\ Answered(command, reply).pc = "answered"
        /\ Answered(command, reply).command = command
        /\ Answered(command, reply).reply = reply
    BY <1>4, <2>1
  <2>3. CallHolds(Answered(command, reply))
    BY <1>2, <2>1, <2>2 DEF CallHolds
  <2> QED
    BY <1>3, <1>5, <2>1, <2>2, <2>3, SilentStep
<1>6. CASE Retry(c)
  <2>1. call[c].pc # "idle" /\ call' = [call EXCEPT ![c] = Stored(command)]
    BY <1>6 DEF Retry, SetCall
  <2>2. /\ Stored(command) \in Calls /\ Stored(command).pc = "storing"
        /\ Stored(command).command = command
    BY <1>2, <2>1, CallsMade
  <2>3. CallHolds(Stored(command))
    BY <1>2, <2>1, <2>2 DEF CallHolds
  <2> QED
    BY <1>3, <1>6, <2>1, <2>2, <2>3, SilentStep
<1>7. CASE Return(c)
  <2>1. [pc |-> "idle"] \in Calls
    BY DEF Calls
  <2>2. CallHolds([pc |-> "idle"])
    BY DEF CallHolds
  <2> QED
    BY <1>3, <1>7, <2>1, <2>2, SilentStep DEF Return, SetCall
<1> QED
  BY <1>5, <1>6, <1>7

-----------------------------------------------------------------------------
(* Steps that move rows.                                                   *)

\* Rows whose revisions only grow, and which keep what they say unless these do,
\* leave what a command was built from as its caller knows it.
LEMMA CommandsStand ==
  ASSUME \A j \in Instances :
           /\ revision[j] \in Nat /\ revision'[j] \in Nat /\ revision[j] <= revision'[j]
           /\ revision'[j] = revision[j] => status'[j] = status[j],
         queueRevision \in Nat, queueRevision' \in Nat, queueRevision <= queueRevision',
         queueRevision' = queueRevision => Eligible' = Eligible,
         NEW command \in AnyCommand
  PROVE  /\ Built(command) => Built(command)'
         /\ Overtaken(command) => Overtaken(command)'
<1>1. /\ command.kind \in {"cancel", "abort", "reorder"} /\ command.revision \in Nat
      /\ command.kind # "reorder" => command.instance \in Instances
  BY CommandFields
<1>2. CASE command.kind = "reorder"
  BY <1>1, <1>2 DEF Built, Overtaken, Members
<1>3. CASE command.kind # "reorder"
  BY <1>1, <1>3 DEF Built, Overtaken, Found
<1> QED
  BY <1>2, <1>3

\* An instance that moves on gains a revision and keeps its fence in step; it leaves
\* the queue if it was there; and it is none that a record says has ended.
LEMMA InstanceMoves ==
  ASSUME IInv, NEW i \in Instances, status[i] \in {"QUEUED", "RUNNING"},
         NEW s \in InstanceStatuses, s # "QUEUED", s = "RUNNING" => status[i] = "QUEUED",
         NEW b \in BOOLEAN, b <=> s = "RUNNING",
         status' = [status EXCEPT ![i] = s],
         revision' = [revision EXCEPT ![i] = @ + 1],
         claimed' = [claimed EXCEPT ![i] = b]
  PROVE  /\ status' \in [Instances -> InstanceStatuses]
         /\ revision' \in [Instances -> 0..2]
         /\ claimed' \in [Instances -> BOOLEAN]
         /\ RowsFit'
         /\ Eligible' = Eligible \ {i} /\ (status[i] = "RUNNING" => Eligible' = Eligible)
         /\ \A j \in Instances :
              /\ revision[j] \in Nat /\ revision'[j] \in Nat /\ revision[j] <= revision'[j]
              /\ revision'[j] = revision[j] => status'[j] = status[j]
         /\ \A id \in CommandIDs :
              EndsInstance(id) =>
                /\ commands[id].result.instance # i
                /\ status'[commands[id].result.instance] = commands[id].result.status
                /\ revision'[commands[id].result.instance] = commands[id].result.revision
                /\ ~claimed'[commands[id].result.instance]
<1>1. /\ status \in [Instances -> InstanceStatuses] /\ revision \in [Instances -> 0..2]
      /\ claimed \in [Instances -> BOOLEAN]
  BY DEF IInv, TypeOK
<1>2. /\ status'[i] = s /\ revision'[i] = revision[i] + 1 /\ claimed'[i] = b
      /\ \A j \in Instances : j # i =>
           status'[j] = status[j] /\ revision'[j] = revision[j] /\ claimed'[j] = claimed[j]
  BY <1>1
<1>3. revision[i] = IF status[i] = "QUEUED" THEN 0 ELSE 1
  BY DEF IInv, RowsFit
<1>4. /\ status' \in [Instances -> InstanceStatuses] /\ claimed' \in [Instances -> BOOLEAN]
      /\ revision' \in [Instances -> 0..2]
  BY <1>1, <1>3
<1>5. RowsFit'
  <2> SUFFICES ASSUME NEW j \in Instances
               PROVE  /\ claimed'[j] <=> status'[j] = "RUNNING"
                      /\ status'[j] = "QUEUED" => revision'[j] = 0
                      /\ status'[j] = "RUNNING" => revision'[j] = 1
    BY DEF RowsFit
  <2>1. CASE j = i
    BY <1>2, <1>3, <2>1
  <2>2. CASE j # i
    BY <1>2, <2>2 DEF IInv, RowsFit
  <2> QED
    BY <2>1, <2>2
<1>6. Eligible' = Eligible \ {i} /\ (status[i] = "RUNNING" => Eligible' = Eligible)
  BY <1>2 DEF Eligible
<1>7. \A j \in Instances :
        /\ revision[j] \in Nat /\ revision'[j] \in Nat /\ revision[j] <= revision'[j]
        /\ revision'[j] = revision[j] => status'[j] = status[j]
  <2> TAKE j \in Instances
  <2>1. revision[j] \in Nat
    BY <1>1
  <2>2. CASE j = i
    BY <1>2, <2>1, <2>2
  <2>3. CASE j # i
    BY <1>2, <2>1, <2>3
  <2> QED
    BY <2>2, <2>3
<1>8. ASSUME NEW id \in CommandIDs, EndsInstance(id)
      PROVE  /\ commands[id].result.instance # i
             /\ status'[commands[id].result.instance] = commands[id].result.status
             /\ revision'[commands[id].result.instance] = commands[id].result.revision
             /\ ~claimed'[commands[id].result.instance]
  <2> DEFINE j == commands[id].result.instance
  <2>1. /\ j \in Instances /\ status[j] = commands[id].result.status
        /\ revision[j] = commands[id].result.revision
        /\ status[j] \in {"CANCELED", "ABORTED"}
    BY <1>8, EndsAreKnown DEF IInv, EndStatus
  <2>2. j # i /\ ~claimed[j]
    BY <2>1 DEF IInv, RowsFit
  <2> QED
    BY <1>2, <2>1, <2>2
<1> QED
  BY <1>4, <1>5, <1>6, <1>7, <1>8

\* The scheduler's moves write no record and no call.
LEMMA SchedulingKeeps ==
  ASSUME IInv, NEW i \in Instances, Claim(i) \/ EndBySchedule(i)
  PROVE  IInv'
<1>1. PICK s \in InstanceStatuses, b \in BOOLEAN :
        /\ status[i] \in {"QUEUED", "RUNNING"}
        /\ s # "QUEUED" /\ (s = "RUNNING" => status[i] = "QUEUED") /\ (b <=> s = "RUNNING")
        /\ status' = [status EXCEPT ![i] = s]
        /\ revision' = [revision EXCEPT ![i] = @ + 1]
        /\ claimed' = [claimed EXCEPT ![i] = b]
        /\ UNCHANGED <<position, commands, signals, call, faults>>
        /\ queueRevision' = IF status[i] = "QUEUED" THEN queueRevision + 1 ELSE queueRevision
  <2>1. CASE Claim(i)
    <3>1. "RUNNING" \in InstanceStatuses /\ TRUE \in BOOLEAN /\ status[i] = "QUEUED"
      BY <2>1 DEF InstanceStatuses, Claim, Eligible
    <3> QED
      BY <2>1, <3>1 DEF Claim
  <2>2. CASE EndBySchedule(i)
    <3>1. PICK final \in FinalInstanceStatuses : status' = [status EXCEPT ![i] = final]
      BY <2>2 DEF EndBySchedule
    <3>2. final \in InstanceStatuses /\ final \notin {"QUEUED", "RUNNING"} /\ FALSE \in BOOLEAN
      BY DEF InstanceStatuses, FinalInstanceStatuses
    <3>3. status[i] = "RUNNING" /\ status[i] # "QUEUED"
      BY <2>2 DEF EndBySchedule
    <3> QED
      BY <2>2, <3>1, <3>2, <3>3 DEF EndBySchedule
  <2> QED
    BY <2>1, <2>2
<1>2. /\ status' \in [Instances -> InstanceStatuses]
      /\ revision' \in [Instances -> 0..2]
      /\ claimed' \in [Instances -> BOOLEAN]
      /\ RowsFit'
      /\ Eligible' = Eligible \ {i} /\ (status[i] = "RUNNING" => Eligible' = Eligible)
  BY <1>1, InstanceMoves
<1>3. \A j \in Instances :
        /\ revision[j] \in Nat /\ revision'[j] \in Nat /\ revision[j] <= revision'[j]
        /\ revision'[j] = revision[j] => status'[j] = status[j]
  BY <1>1, InstanceMoves
<1>4. \A id \in CommandIDs :
        EndsInstance(id) =>
          /\ commands[id].result.instance # i
          /\ status'[commands[id].result.instance] = commands[id].result.status
          /\ revision'[commands[id].result.instance] = commands[id].result.revision
          /\ ~claimed'[commands[id].result.instance]
  BY <1>1, InstanceMoves
<1>5. /\ queueRevision \in Nat /\ queueRevision' \in Nat /\ queueRevision <= queueRevision'
      /\ queueRevision' = queueRevision => Eligible' = Eligible
  BY <1>1, <1>2 DEF IInv, TypeOK
<1>6. UNCHANGED <<position, commands, signals, call, faults>>
  BY <1>1
<1>7. TypeOK'
  BY <1>2, <1>5, <1>6 DEF IInv, TypeOK
<1>8. QueueHasOneOrder'
  BY <1>2, <1>6 DEF IInv, QueueHasOneOrder
<1>9. RecordsHold'
  <2> SUFFICES ASSUME NEW id \in CommandIDs, commands[id] # NoRecord
               PROVE  RecordHolds(id)'
    BY <1>6 DEF RecordsHold
  <2>1. RecordHolds(id)
    BY DEF IInv, RecordsHold
  <2>2. commands[id].digest \in AnyCommand
    BY DEF IInv, TypeOK
  <2>3. CASE commands[id].digest.kind = "reorder"
    BY <1>6, <2>1, <2>3 DEF RecordHolds, ResultValid, EndStatus
  <2>4. CASE commands[id].digest.kind # "reorder"
    <3>1. EndsInstance(id)
      BY <2>2, <2>4, CommandFields DEF EndsInstance
    <3>2. commands[id].result.instance = commands[id].digest.instance
      BY <3>1, EndsAreKnown DEF IInv
    <3>3. /\ status'[commands[id].digest.instance] = EndStatus(commands[id].digest)
          /\ revision'[commands[id].digest.instance] = commands[id].digest.revision + 1
      BY <1>4, <2>1, <2>4, <3>1, <3>2 DEF RecordHolds, ResultValid
    <3> QED
      BY <1>6, <2>1, <3>3 DEF RecordHolds, ResultValid, EndStatus
  <2> QED
    BY <2>3, <2>4
<1>10. EndingsAreExclusive'
  <2>1. \A id \in CommandIDs : EndsInstance(id)' <=> EndsInstance(id)
    BY <1>6 DEF EndsInstance
  <2> QED
    BY <1>4, <1>6, <2>1 DEF IInv, EndingsAreExclusive
<1>11. SignalFollowsCommit'
  <2>1. \A id \in CommandIDs : EndsInstance(id)' <=> EndsInstance(id)
    BY <1>6 DEF EndsInstance
  <2> QED
    BY <1>4, <1>6, <2>1 DEF IInv, SignalFollowsCommit
<1>12. CallsHold'
  <2> SUFFICES ASSUME NEW c \in Clients PROVE CallHolds(call[c])'
    BY DEF CallsHold
  <2>1. CallHolds(call[c]) /\ (call[c].pc # "idle" => call[c].command \in AnyCommand)
    BY CallFields DEF IInv, TypeOK, CallsHold
  <2>2. \A command \in AnyCommand :
          /\ Built(command) => Built(command)'
          /\ Overtaken(command) => Overtaken(command)'
    BY <1>3, <1>5, CommandsStand
  <2>3. \A command : (SameRequest(command) <=> SameRequest(command)') /\ (Told(command) <=> Told(command)')
    BY <1>6 DEF SameRequest, Told
  <2> DEFINE x == call[c]
  <2>4. x' = x
    BY <1>6
  <2> QED
    BY <1>6, <2>1, <2>2, <2>3, <2>4 DEF CallHolds
<1> QED
  BY <1>2, <1>7, <1>8, <1>9, <1>10, <1>11, <1>12 DEF IInv

\* What a commit writes beside the rows.
LEMMA CommitWrites ==
  ASSUME IInv, NEW c \in Clients, Commit(c), NEW command, command = call[c].command
  PROVE  /\ command \in AnyCommand /\ command.id \in CommandIDs /\ Built(command)
         /\ commands[command.id] = NoRecord /\ Fits(command)
         /\ ResultOf(command) \in Results /\ ResultValid(command, ResultOf(command))
         /\ commands' = [commands EXCEPT ![command.id] =
                           [digest |-> command, result |-> ResultOf(command)]]
         /\ faults' \in 0..MaxFaults /\ UNCHANGED signals
         /\ \E x : /\ x = AfterResult(command, ResultOf(command)) \/ x = Answered(command, "FAULT")
                   /\ call' = [call EXCEPT ![c] = x]
<1>1. /\ call[c] \in Calls /\ CallHolds(call[c]) /\ call[c].pc = "storing"
      /\ faults \in 0..MaxFaults /\ queueRevision \in Nat
      /\ ~Known(command) /\ Fits(command) /\ UNCHANGED signals
      /\ revision \in [Instances -> 0..2]
  BY DEF IInv, TypeOK, CallsHold, Commit
<1>2. /\ command \in AnyCommand /\ Built(command)
  BY <1>1, CallFields DEF CallHolds
<1>3. /\ command.kind \in {"cancel", "abort", "reorder"} /\ command.id \in CommandIDs
      /\ command.revision \in Nat
      /\ command.kind # "reorder" => command.instance \in Instances
      /\ command.kind = "cancel" => command.expected \in {"QUEUED", "RUNNING"}
      /\ command.kind = "reorder" => \E S \in SUBSET Instances : command.order \in Orders(S)
  BY <1>2, CommandFields
<1>4. faults' \in 0..MaxFaults
  BY <1>1, CommandAssumption DEF Commit, Fault
<1>5. commands' = [commands EXCEPT ![command.id] =
                     [digest |-> command, result |-> ResultOf(command)]]
  BY DEF Commit, Digest
<1>6. \E x : /\ x = AfterResult(command, ResultOf(command)) \/ x = Answered(command, "FAULT")
             /\ call' = [call EXCEPT ![c] = x]
  BY DEF Commit, SetCall
<1>7. ResultOf(command) \in Results /\ ResultValid(command, ResultOf(command))
  <2>1. CASE command.kind = "reorder"
    <3>1. /\ ResultOf(command) = [order |-> command.order, revision |-> queueRevision + 1]
          /\ queueRevision = command.revision
      BY <1>1, <2>1 DEF ResultOf, Fits
    <3>2. ResultOf(command) \in Results
      BY <1>1, <1>3, <2>1, <3>1 DEF Results
    <3> QED
      BY <2>1, <3>1, <3>2 DEF ResultValid
  <2>2. CASE command.kind # "reorder"
    <3> DEFINE i == command.instance
    <3>1. /\ ResultOf(command) =
               [instance |-> i, status |-> EndStatus(command),
                revision |-> revision[i] + 1, signal |-> status[i] = "RUNNING"]
          /\ revision[i] = command.revision
      BY <1>1, <2>2 DEF ResultOf, Fits
    <3>2. EndStatus(command) \in {"CANCELED", "ABORTED"}
      BY DEF EndStatus
    <3>3. (status[i] = "RUNNING") <=> (command.kind = "abort" \/ command.expected = "RUNNING")
      BY <1>1, <1>3, <2>2 DEF Fits
    <3>4. ResultOf(command) \in Results
      BY <1>3, <2>2, <3>1, <3>2 DEF Results
    <3>5. /\ ResultOf(command).instance = i /\ ResultOf(command).status = EndStatus(command)
          /\ ResultOf(command).revision = command.revision + 1
          /\ ResultOf(command).signal = (status[i] = "RUNNING")
      BY <3>1
    <3> QED
      BY <2>2, <3>3, <3>4, <3>5 DEF ResultValid
  <2> QED
    BY <2>1, <2>2
<1> QED
  BY <1>1, <1>2, <1>3, <1>4, <1>5, <1>6, <1>7 DEF Known

\* A call keeps what holds of it when the command of another is recorded: what it
\* relies on was recorded before, and a command found overtaken fits no more.
LEMMA OtherCallsStand ==
  ASSUME IInv, NEW command \in AnyCommand, commands[command.id] = NoRecord,
         ~Overtaken(command),
         commands' = [commands EXCEPT ![command.id] =
                        [digest |-> command, result |-> ResultOf(command)]],
         UNCHANGED signals,
         NEW x \in Calls, CallHolds(x),
         x.pc # "idle" => /\ Built(x.command) => Built(x.command)'
                          /\ Overtaken(x.command) => Overtaken(x.command)'
  PROVE  CallHolds(x)'
<1>1. /\ commands \in [CommandIDs -> {NoRecord} \cup [digest: AnyCommand, result: Results]]
      /\ x.pc # "idle" => x.command \in AnyCommand
      /\ command.id \in CommandIDs
  BY CallFields, CommandFields DEF IInv, TypeOK
<1>2. ASSUME x.pc # "idle", SameRequest(x.command)
      PROVE  commands'[x.command.id] = commands[x.command.id]
  <2>1. x.command.id \in CommandIDs /\ commands[x.command.id] # NoRecord
    BY <1>1, <1>2, SameRequestIsKnown, CommandFields DEF IInv, Known
  <2> QED
    BY <1>1, <2>1
<1>3. ASSUME x.pc # "idle", Overtaken(x.command), ~SameRequest(x.command)
      PROVE  ~SameRequest(x.command)'
  <2>1. x.command # command /\ x.command.id \in CommandIDs
    BY <1>1, <1>3, CommandFields
  <2>2. CASE x.command.id = command.id
    <3>1. commands'[x.command.id].digest = command
      BY <1>1, <2>2
    <3> QED
      BY <2>1, <3>1 DEF SameRequest, Digest
  <2>3. CASE x.command.id # command.id
    <3>1. commands'[x.command.id] = commands[x.command.id]
      BY <1>1, <2>1, <2>3
    <3> QED
      BY <1>3, <3>1 DEF SameRequest, Digest
  <2> QED
    BY <2>2, <2>3
<1>4. x.pc # "idle" => Built(x.command)'
  BY DEF CallHolds
<1>5. CASE x.pc = "signaling"
  <2>1. commands'[x.command.id] = commands[x.command.id]
    BY <1>2, <1>5 DEF CallHolds
  <2> QED
    BY <1>4, <1>5, <2>1 DEF CallHolds, SameRequest
<1>6. CASE x.pc = "answered" /\ x.reply = "CONFLICT"
  <2>1. ~SameRequest(x.command)'
    BY <1>3, <1>6 DEF CallHolds
  <2> QED
    BY <1>4, <1>6, <2>1 DEF CallHolds
<1>7. CASE x.pc = "answered" /\ x.reply = "OK"
  <2>1. commands'[x.command.id] = commands[x.command.id]
    BY <1>2, <1>7 DEF CallHolds
  <2> QED
    BY <1>4, <1>7, <2>1 DEF CallHolds, SameRequest, Told
<1> QED
  BY <1>4, <1>5, <1>6, <1>7 DEF CallHolds

\* What holds of a call whose command was just recorded, also if it does not learn so.
LEMMA OwnCallHolds ==
  ASSUME NEW command \in AnyCommand, NEW result \in Results, ResultValid(command, result),
         commands'[command.id] = [digest |-> command, result |-> result],
         Built(command)',
         NEW x, x = AfterResult(command, result) \/ x = Answered(command, "FAULT")
  PROVE  x \in Calls /\ CallHolds(x)'
<1>1. SameRequest(command)' /\ commands'[command.id].result = result
  BY DEF SameRequest, Digest
<1>2. CASE x = Signaling(command, result) /\ command.kind # "reorder" /\ result.signal
  <2>1. /\ x \in Calls /\ x.pc = "signaling" /\ x.command = command /\ x.result = result
    BY <1>2, CallsMade
  <2> QED
    BY <1>1, <1>2, <2>1 DEF CallHolds
<1>3. CASE x = Answered(command, "OK") /\ ~(command.kind # "reorder" /\ result.signal)
  <2>1. /\ x \in Calls /\ x.pc = "answered" /\ x.command = command /\ x.reply = "OK"
    BY <1>3, CallsMade, RepliesThere
  <2>2. Told(command)'
    BY <1>1, <1>3 DEF Told
  <2> QED
    BY <1>1, <2>1, <2>2 DEF CallHolds
<1>4. CASE x = Answered(command, "FAULT")
  <2>1. /\ x \in Calls /\ x.pc = "answered" /\ x.command = command /\ x.reply = "FAULT"
    BY <1>4, CallsMade, RepliesThere
  <2> QED
    BY <2>1 DEF CallHolds
<1> QED
  BY <1>2, <1>3, <1>4 DEF AfterResult

\* The rows a commit leaves, whichever kind of command it carries out.
RowsAfter(command) ==
  /\ status' \in [Instances -> InstanceStatuses]
  /\ revision' \in [Instances -> 0..2]
  /\ position' \in [Instances -> 0..(Cardinality(Instances) - 1)]
  /\ claimed' \in [Instances -> BOOLEAN]
  /\ RowsFit' /\ QueueHasOneOrder'
  /\ \A j \in Instances :
       /\ revision[j] \in Nat /\ revision'[j] \in Nat /\ revision[j] <= revision'[j]
       /\ revision'[j] = revision[j] => status'[j] = status[j]
  /\ queueRevision \in Nat /\ queueRevision' \in Nat /\ queueRevision <= queueRevision'
  /\ queueRevision' = queueRevision => Eligible' = Eligible
  /\ \A id \in CommandIDs :
       EndsInstance(id) =>
         /\ command.kind # "reorder" => commands[id].result.instance # command.instance
         /\ status'[commands[id].result.instance] = commands[id].result.status
         /\ revision'[commands[id].result.instance] = commands[id].result.revision
         /\ ~claimed'[commands[id].result.instance]
  /\ command.kind # "reorder" =>
       /\ status'[command.instance] = EndStatus(command)
       /\ revision'[command.instance] = command.revision + 1

\* A reorder moves nothing but positions, along an order of the queue as it is.
LEMMA ReorderRows ==
  ASSUME IInv, NEW c \in Clients, Commit(c), NEW command, command = call[c].command,
         command.kind = "reorder"
  PROVE  RowsAfter(command)
<1>1. /\ Fits(command) /\ command \in AnyCommand
  BY CommitWrites
<1>2. /\ position' = Positioned(command.order) /\ queueRevision' = queueRevision + 1
      /\ UNCHANGED <<status, revision, claimed>>
  BY DEF Commit, WriteOrder
<1>3. PICK S \in SUBSET Instances : command.order \in Orders(S)
  BY <1>1, CommandFields
<1>4. S = Eligible
  <2>1. IsFiniteSet(S)
    BY CommandAssumption, FS_Subset
  <2>2. S = {command.order[k] : k \in DOMAIN command.order}
    BY <1>3, <2>1, OrderCovers
  <2> QED
    BY <1>1, <2>2 DEF Fits
<1>5. /\ position' \in [Instances -> 0..(Cardinality(Instances) - 1)]
      /\ \A i, j \in Eligible : i # j => position'[i] # position'[j]
  BY <1>2, <1>3, <1>4, PositionsAlong DEF IInv, TypeOK
<1>6. Eligible' = Eligible
  BY <1>2 DEF Eligible
<1>7. QueueHasOneOrder'
  BY <1>5, <1>6 DEF QueueHasOneOrder
<1>8. RowsFit'
  BY <1>2 DEF IInv, RowsFit
<1>9. /\ status' \in [Instances -> InstanceStatuses]
      /\ revision' \in [Instances -> 0..2]
      /\ claimed' \in [Instances -> BOOLEAN]
      /\ queueRevision \in Nat /\ queueRevision' \in Nat /\ queueRevision <= queueRevision'
      /\ \A j \in Instances : revision[j] \in Nat
  BY <1>2 DEF IInv, TypeOK
<1>10. ASSUME NEW id \in CommandIDs, EndsInstance(id)
       PROVE  /\ status'[commands[id].result.instance] = commands[id].result.status
              /\ revision'[commands[id].result.instance] = commands[id].result.revision
              /\ ~claimed'[commands[id].result.instance]
  <2>1. /\ commands[id].result.instance \in Instances
        /\ status[commands[id].result.instance] = commands[id].result.status
        /\ revision[commands[id].result.instance] = commands[id].result.revision
        /\ commands[id].result.status \in {"CANCELED", "ABORTED"}
    BY <1>10, EndsAreKnown DEF IInv, EndStatus
  <2> QED
    BY <1>2, <2>1 DEF IInv, RowsFit
<1> QED
  BY <1>2, <1>5, <1>6, <1>7, <1>8, <1>9, <1>10 DEF RowsAfter

\* A cancel or an abort moves the instance it fits, and closes the queue up.
LEMMA EndRows ==
  ASSUME IInv, NEW c \in Clients, Commit(c), NEW command, command = call[c].command,
         command.kind # "reorder"
  PROVE  RowsAfter(command)
<1> DEFINE i == command.instance
<1>1. /\ Fits(command) /\ command \in AnyCommand
  BY CommitWrites
<1>2. /\ i \in Instances /\ command.kind \in {"cancel", "abort"}
      /\ command.kind = "cancel" => command.expected \in {"QUEUED", "RUNNING"}
  BY <1>1, CommandFields
<1>3. /\ status[i] \in {"QUEUED", "RUNNING"} /\ revision[i] = command.revision
  BY <1>1, <1>2 DEF Fits
<1>4. /\ status' = [status EXCEPT ![i] = EndStatus(command)]
      /\ revision' = [revision EXCEPT ![i] = @ + 1]
      /\ claimed' = [claimed EXCEPT ![i] = FALSE]
      /\ IF status[i] = "QUEUED"
           THEN /\ position' = Positioned(ByPosition(Eligible \ {i}))
                /\ queueRevision' = queueRevision + 1
           ELSE UNCHANGED <<position, queueRevision>>
  BY DEF Commit, WriteEnd
<1>5. /\ EndStatus(command) \in InstanceStatuses
      /\ EndStatus(command) \notin {"QUEUED", "RUNNING"}
      /\ FALSE \in BOOLEAN
  BY DEF EndStatus, InstanceStatuses
<1> HIDE DEF i
<1>6. /\ status' \in [Instances -> InstanceStatuses]
      /\ revision' \in [Instances -> 0..2]
      /\ claimed' \in [Instances -> BOOLEAN]
      /\ RowsFit'
      /\ Eligible' = Eligible \ {i} /\ (status[i] = "RUNNING" => Eligible' = Eligible)
  BY <1>2, <1>3, <1>4, <1>5, InstanceMoves
<1>7. \A j \in Instances :
        /\ revision[j] \in Nat /\ revision'[j] \in Nat /\ revision[j] <= revision'[j]
        /\ revision'[j] = revision[j] => status'[j] = status[j]
  BY <1>2, <1>3, <1>4, <1>5, InstanceMoves
<1>8. \A id \in CommandIDs :
        EndsInstance(id) =>
          /\ commands[id].result.instance # i
          /\ status'[commands[id].result.instance] = commands[id].result.status
          /\ revision'[commands[id].result.instance] = commands[id].result.revision
          /\ ~claimed'[commands[id].result.instance]
  BY <1>2, <1>3, <1>4, <1>5, InstanceMoves
<1>9. /\ queueRevision \in Nat /\ queueRevision' \in Nat /\ queueRevision <= queueRevision'
      /\ queueRevision' = queueRevision => Eligible' = Eligible
  BY <1>3, <1>4, <1>6 DEF IInv, TypeOK
<1>10. /\ position' \in [Instances -> 0..(Cardinality(Instances) - 1)]
       /\ QueueHasOneOrder'
  <2>1. position \in [Instances -> 0..(Cardinality(Instances) - 1)]
    BY DEF IInv, TypeOK
  <2>2. CASE status[i] = "QUEUED"
    <3>1. /\ Eligible \ {i} \in SUBSET Eligible /\ Eligible \ {i} \in SUBSET Instances
      BY DEF Eligible
    <3>2. ByPosition(Eligible \ {i}) \in Orders(Eligible \ {i})
      BY <2>1, <3>1, ByPositionIsAnOrder DEF IInv
    <3>3. /\ position' \in [Instances -> 0..(Cardinality(Instances) - 1)]
          /\ \A j, k \in Eligible \ {i} : j # k => position'[j] # position'[k]
      BY <1>4, <2>1, <2>2, <3>1, <3>2, PositionsAlong
    <3> QED
      BY <1>6, <3>3 DEF QueueHasOneOrder
  <2>3. CASE status[i] = "RUNNING"
    BY <1>4, <1>6, <2>1, <2>3 DEF IInv, QueueHasOneOrder
  <2> QED
    BY <1>3, <2>2, <2>3
<1>11. /\ status'[i] = EndStatus(command)
       /\ revision'[i] = command.revision + 1
  BY <1>2, <1>3, <1>4 DEF IInv, TypeOK
<1> QED
  BY <1>6, <1>7, <1>8, <1>9, <1>10, <1>11 DEF RowsAfter, i

\* A commit records its command with what it did, and no other record or signal
\* speaks of the instance it ended.
LEMMA CommitKeeps ==
  ASSUME IInv, NEW c \in Clients, Commit(c), NEW command, command = call[c].command
  PROVE  IInv'
<1> DEFINE result == ResultOf(command)
<1>1. /\ command \in AnyCommand /\ command.id \in CommandIDs /\ Built(command)
      /\ commands[command.id] = NoRecord /\ Fits(command)
      /\ result \in Results /\ ResultValid(command, result)
      /\ commands' = [commands EXCEPT ![command.id] = [digest |-> command, result |-> result]]
      /\ faults' \in 0..MaxFaults /\ UNCHANGED signals
      /\ \E x : /\ x = AfterResult(command, result) \/ x = Answered(command, "FAULT")
                /\ call' = [call EXCEPT ![c] = x]
  BY CommitWrites
<1>2. RowsAfter(command)
  BY ReorderRows, EndRows
<1>3. /\ command.kind \in {"cancel", "abort", "reorder"}
      /\ command.revision \in Nat
      /\ command.kind # "reorder" => command.instance \in Instances
  BY <1>1, CommandFields
<1> HIDE DEF result
<1>4. /\ commands'[command.id] = [digest |-> command, result |-> result]
      /\ \A id \in CommandIDs \ {command.id} :
           /\ commands'[id] = commands[id]
           /\ EndsInstance(id)' <=> EndsInstance(id)
  <2>1. commands \in [CommandIDs -> {NoRecord} \cup [digest: AnyCommand, result: Results]]
    BY DEF IInv, TypeOK
  <2> QED
    BY <1>1, <2>1 DEF EndsInstance
<1>5. /\ commands'[command.id].digest = command /\ commands'[command.id].result = result
      /\ EndsInstance(command.id)' <=> command.kind # "reorder"
      /\ ~EndsInstance(command.id)
  BY <1>1, <1>3, <1>4 DEF EndsInstance, NoRecord
<1>6. \A other \in AnyCommand :
        /\ Built(other) => Built(other)'
        /\ Overtaken(other) => Overtaken(other)'
  BY <1>2, CommandsStand DEF RowsAfter
<1>7. PICK x \in Calls : CallHolds(x)' /\ call' = [call EXCEPT ![c] = x]
  BY <1>1, <1>4, <1>6, OwnCallHolds
<1>8. TypeOK'
  <2>1. commands' \in [CommandIDs -> {NoRecord} \cup [digest: AnyCommand, result: Results]]
    BY <1>1 DEF IInv, TypeOK
  <2>2. call' \in [Clients -> Calls]
    BY <1>7 DEF IInv, TypeOK
  <2> QED
    BY <1>1, <1>2, <2>1, <2>2 DEF IInv, TypeOK, RowsAfter
<1>9. RecordsHold'
  <2> SUFFICES ASSUME NEW id \in CommandIDs, commands'[id] # NoRecord
               PROVE  RecordHolds(id)'
    BY DEF RecordsHold
  <2>1. CASE id = command.id
    <3>1. command.kind # "reorder" =>
            /\ status'[command.instance] = EndStatus(command)
            /\ revision'[command.instance] = command.revision + 1
      BY <1>2 DEF RowsAfter
    <3>2. ResultValid(command, result) /\ commands'[id].digest = command /\ commands'[id].result = result
      BY <1>1, <1>5, <2>1
    <3> QED
      BY <2>1, <3>1, <3>2 DEF RecordHolds, ResultValid, EndStatus
  <2>2. CASE id # command.id
    <3>1. RecordHolds(id) /\ commands'[id] = commands[id] /\ commands[id].digest \in AnyCommand
      BY <1>4, <2>2 DEF IInv, TypeOK, RecordsHold
    <3>2. CASE commands[id].digest.kind = "reorder"
      BY <3>1, <3>2 DEF RecordHolds, ResultValid, EndStatus
    <3>3. CASE commands[id].digest.kind # "reorder"
      <4>1. EndsInstance(id)
        BY <3>1, <3>3, CommandFields DEF EndsInstance
      <4>2. commands[id].result.instance = commands[id].digest.instance
        BY <4>1, EndsAreKnown DEF IInv
      <4>3. /\ status'[commands[id].digest.instance] = EndStatus(commands[id].digest)
            /\ revision'[commands[id].digest.instance] = commands[id].digest.revision + 1
        BY <1>2, <3>1, <3>3, <4>1, <4>2 DEF RecordHolds, ResultValid, RowsAfter
      <4> QED
        BY <3>1, <4>3 DEF RecordHolds, ResultValid, EndStatus
    <3> QED
      BY <3>2, <3>3
  <2> QED
    BY <2>1, <2>2
<1>10. \A id \in CommandIDs :
         EndsInstance(id) /\ command.kind # "reorder" =>
           commands[id].result.instance # command.instance
  BY <1>2 DEF RowsAfter
<1>11. command.kind # "reorder" =>
         /\ result.instance = command.instance
         /\ status'[result.instance] = result.status
         /\ revision'[result.instance] = result.revision
  BY <1>1, <1>2 DEF RowsAfter, ResultValid
<1>12. EndingsAreExclusive'
  <2>1. \A id \in CommandIDs : EndsInstance(id)' =>
          /\ status'[commands'[id].result.instance] = commands'[id].result.status
          /\ revision'[commands'[id].result.instance] = commands'[id].result.revision
    BY <1>2, <1>4, <1>5, <1>11 DEF RowsAfter
  <2>2. \A id \in CommandIDs, other \in CommandIDs :
          id # other /\ EndsInstance(id)' /\ EndsInstance(other)' =>
            commands'[other].result.instance # commands'[id].result.instance
    <3> SUFFICES ASSUME NEW id \in CommandIDs, NEW other \in CommandIDs,
                        id # other, EndsInstance(id)', EndsInstance(other)'
                 PROVE  commands'[other].result.instance # commands'[id].result.instance
      OBVIOUS
    <3>1. CASE id = command.id
      BY <1>4, <1>5, <1>10, <1>11, <3>1
    <3>2. CASE other = command.id
      BY <1>4, <1>5, <1>10, <1>11, <3>2
    <3>3. CASE id # command.id /\ other # command.id
      BY <1>4, <3>3 DEF IInv, EndingsAreExclusive
    <3> QED
      BY <3>1, <3>2, <3>3
  <2> QED
    BY <2>1, <2>2 DEF EndingsAreExclusive
<1>13. SignalFollowsCommit'
  <2> SUFFICES ASSUME NEW i \in signals
               PROVE  /\ \E id \in CommandIDs :
                           /\ EndsInstance(id)'
                           /\ commands'[id].result.instance = i
                           /\ commands'[id].result.signal
                      /\ ~claimed'[i]
    BY <1>1 DEF SignalFollowsCommit
  <2>1. PICK id \in CommandIDs :
          EndsInstance(id) /\ commands[id].result.instance = i /\ commands[id].result.signal
    BY DEF IInv, SignalFollowsCommit
  <2>2. id # command.id
    BY <1>5, <2>1
  <2> QED
    BY <1>2, <1>4, <2>1, <2>2 DEF RowsAfter
<1>14. CallsHold'
  <2> SUFFICES ASSUME NEW d \in Clients PROVE CallHolds(call[d])'
    BY DEF CallsHold
  <2>1. CASE d = c
    BY <1>7, <2>1 DEF IInv, TypeOK
  <2>2. CASE d # c
    <3>1. /\ call'[d] = call[d] /\ call[d] \in Calls /\ CallHolds(call[d])
      BY <1>7, <2>2 DEF IInv, TypeOK, CallsHold
    <3>2. ~Overtaken(command)
      BY <1>1, <1>3 DEF Fits, Overtaken, IInv, TypeOK
    <3>3. \A y \in Calls : CallHolds(y) => CallHolds(y)'
      <4> SUFFICES ASSUME NEW y \in Calls, CallHolds(y) PROVE CallHolds(y)'
        OBVIOUS
      <4>1. y.pc # "idle" => y.command \in AnyCommand
        BY CallFields
      <4> QED
        BY <1>1, <1>6, <3>2, <4>1, OtherCallsStand DEF result
    <3> QED
      BY <3>1, <3>3
  <2> QED
    BY <2>1, <2>2
<1> QED
  BY <1>2, <1>8, <1>9, <1>12, <1>13, <1>14 DEF IInv, RowsAfter

\* Every step keeps the invariant.
LEMMA NextIInv == IInv /\ [Next]_vars => IInv'
<1> SUFFICES ASSUME IInv, [Next]_vars PROVE IInv'
  OBVIOUS
<1>1. ASSUME NEW c \in Clients, Step(c) PROVE IInv'
  <2>1. CASE SubmitEnd(c) \/ SubmitReorder(c)
    BY <2>1, SubmissionsKeep
  <2>2. CASE Commit(c)
    BY <2>2, CommitKeeps
  <2>3. CASE Answer(c)
    BY <2>3, AnswerKeeps
  <2>4. CASE Signal(c)
    BY <2>4, SignalKeeps
  <2>5. CASE FailStore(c) \/ FailSignal(c) \/ Retry(c) \/ Return(c)
    BY <2>5, FaultsKeep
  <2> QED
    BY <1>1, <2>1, <2>2, <2>3, <2>4, <2>5 DEF Step
<1>2. ASSUME NEW i \in Instances, Claim(i) \/ EndBySchedule(i) PROVE IInv'
  BY <1>2, SchedulingKeeps
<1>3. CASE UNCHANGED vars
  <2>1. UNCHANGED store /\ UNCHANGED <<signals, call, faults>>
    BY <1>3 DEF vars
  <2>2. UNCHANGED <<status, revision, position, claimed, queueRevision, commands>>
    BY <2>1 DEF store, instances
  <2>3. TypeOK'
    BY <2>1, <2>2 DEF IInv, TypeOK
  <2>4. RowsFit' /\ QueueHasOneOrder' /\ RecordsHold' /\ EndingsAreExclusive' /\ SignalFollowsCommit'
    BY <2>1, <2>2 DEF IInv, RowsFit, QueueHasOneOrder, Eligible, RecordsHold, RecordHolds,
        EndingsAreExclusive, SignalFollowsCommit, EndsInstance
  <2>5. \A y : CallHolds(y) => CallHolds(y)'
    BY <2>1, CallStands
  <2>6. CallsHold'
    BY <2>1, <2>5 DEF IInv, CallsHold
  <2> QED
    BY <2>3, <2>4, <2>6 DEF IInv
<1> QED
  BY <1>1, <1>2, <1>3 DEF Next

\* The invariant holds in every state of every behaviour.
THEOREM IInvHolds == Spec => []IInv
BY InitIInv, NextIInv, PTL DEF Spec

-----------------------------------------------------------------------------
(* What callers rely on.                                                   *)

\* The rows that commands, claims and the scheduler leave are consistent: one end
\* for an instance, one order of the queue.
THEOREM RowsTheorem == Spec => []RowsAgree
<1>1. IInv => RowsAgree
  BY DEF IInv, RowsAgree
<1> QED
  BY <1>1, IInvHolds, PTL

\* An execution is told to stop only after its end is committed, and a caller that is
\* told OK for such an end has nothing left to signal.
THEOREM SignalsTheorem == Spec => []SignalsAnswerToEndings
<1>1. IInv => SignalsAnswerToEndings
  BY DEF IInv, SignalsAnswerToEndings, CallsHold, CallHolds, OKMeansSignaled, Told
<1> QED
  BY <1>1, IInvHolds, PTL

\* CONFLICT is never told of a command that was carried out, and a store that keeps
\* its contract is never blamed.
THEOREM AnswersTheorem == Spec => []AnswersAreTrue
<1>1. IInv => AnswersAreTrue
  BY DEF IInv, AnswersAreTrue, CallsHold, CallHolds, ConflictMeansNotDone,
      StoreIsNeverBlamed, SameRequest
<1> QED
  BY <1>1, IInvHolds, PTL

\* The order of some instances by positions that are given.
SortedBy(p, S) ==
  CHOOSE order \in Orders(S) :
    \A j, k \in DOMAIN order : j < k => p[order[j]] <= p[order[k]]

\* A step that leaves the queue's revision leaves the queue and its positions.
LEMMA QueueMovesByRevision ==
  ASSUME IInv, [Next]_vars
  PROVE  \/ queueRevision' > queueRevision
         \/ Eligible' = Eligible /\ position' = position
<1>1. queueRevision \in Nat /\ queueRevision + 1 > queueRevision
  BY DEF IInv, TypeOK
<1>2. ASSUME UNCHANGED store PROVE Eligible' = Eligible /\ position' = position
  BY <1>2 DEF store, instances, Eligible
<1>3. ASSUME NEW c \in Clients, Commit(c)
      PROVE  \/ queueRevision' > queueRevision
             \/ Eligible' = Eligible /\ position' = position
  <2>1. PICK command : command = call[c].command
    OBVIOUS
  <2>2. RowsAfter(command)
    BY <1>3, <2>1, ReorderRows, EndRows
  <2>3. \/ queueRevision' = queueRevision + 1
        \/ queueRevision' = queueRevision /\ position' = position
    BY <1>3 DEF Commit, WriteOrder, WriteEnd
  <2> QED
    BY <1>1, <2>2, <2>3 DEF RowsAfter
<1>4. ASSUME NEW c \in Clients, Step(c), ~Commit(c) PROVE UNCHANGED store
  BY <1>4 DEF Step, SubmitEnd, SubmitReorder, Answer, FailStore, Signal, FailSignal,
      Retry, Return
<1>5. ASSUME NEW i \in Instances, Claim(i) PROVE queueRevision' > queueRevision
  BY <1>1, <1>5 DEF Claim
<1>6. ASSUME NEW i \in Instances, EndBySchedule(i)
      PROVE  Eligible' = Eligible /\ position' = position
  <2>1. PICK final \in FinalInstanceStatuses : status' = [status EXCEPT ![i] = final]
    BY <1>6 DEF EndBySchedule
  <2>2. final # "QUEUED" /\ status[i] = "RUNNING"
    BY <1>6 DEF EndBySchedule, FinalInstanceStatuses
  <2> QED
    BY <1>6, <2>1, <2>2 DEF EndBySchedule, Eligible, IInv, TypeOK
<1>7. CASE UNCHANGED vars
  BY <1>2, <1>7 DEF vars
<1> QED
  BY <1>2, <1>3, <1>4, <1>5, <1>6, <1>7 DEF Next

\* A step moves an instance along its status machine or not at all, and one that has
\* ended not at all.
LEMMA InstancesMoveForward ==
  ASSUME IInv, [Next]_vars, NEW i \in Instances
  PROVE  /\ status[i] \in FinalInstanceStatuses
              => /\ status'[i] = status[i] /\ revision'[i] = revision[i]
                 /\ ~claimed'[i]
         /\ status'[i] = status[i] \/ <<status[i], status'[i]>> \in InstanceEdges
<1> DEFINE Forward ==
      /\ status[i] \in FinalInstanceStatuses
           => /\ status'[i] = status[i] /\ revision'[i] = revision[i]
              /\ ~claimed'[i]
      /\ status'[i] = status[i] \/ <<status[i], status'[i]>> \in InstanceEdges
<1>1. /\ status \in [Instances -> InstanceStatuses] /\ revision \in [Instances -> 0..2]
      /\ claimed \in [Instances -> BOOLEAN]
      /\ claimed[i] <=> status[i] = "RUNNING"
  BY DEF IInv, TypeOK, RowsFit
<1>2. ASSUME UNCHANGED <<status, revision, claimed>> PROVE Forward
  BY <1>1, <1>2 DEF FinalInstanceStatuses
<1>3. ASSUME NEW j \in Instances, NEW s, NEW b, NEW r,
             <<status[j], s>> \in InstanceEdges, status[j] \notin FinalInstanceStatuses,
             status' = [status EXCEPT ![j] = s], revision' = [revision EXCEPT ![j] = r],
             claimed' = [claimed EXCEPT ![j] = b]
      PROVE  Forward
  <2>1. CASE j = i
    BY <1>1, <1>3, <2>1
  <2>2. CASE j # i
    BY <1>1, <1>3, <2>2 DEF FinalInstanceStatuses
  <2> QED
    BY <2>1, <2>2
<1>4. ASSUME NEW c \in Clients, Commit(c) PROVE Forward
  <2>1. PICK command : command = call[c].command
    OBVIOUS
  <2>2. Fits(command) /\ command \in AnyCommand
    BY <1>4, <2>1, CommitWrites
  <2>3. CASE command.kind = "reorder"
    BY <1>2, <1>4, <2>1, <2>3 DEF Commit, WriteOrder
  <2>4. CASE command.kind # "reorder"
    <3> DEFINE j == command.instance
    <3>1. /\ j \in Instances /\ status[j] \in {"QUEUED", "RUNNING"}
          /\ status[j] = "QUEUED" => command.kind = "cancel"
      BY <2>2, <2>4, CommandFields DEF Fits
    <3>2. /\ <<status[j], EndStatus(command)>> \in InstanceEdges
          /\ status[j] \notin FinalInstanceStatuses
      BY <3>1 DEF EndStatus, InstanceEdges, FinalInstanceStatuses
    <3>3. /\ status' = [status EXCEPT ![j] = EndStatus(command)]
          /\ revision' = [revision EXCEPT ![j] = revision[j] + 1]
          /\ claimed' = [claimed EXCEPT ![j] = FALSE]
      BY <1>4, <2>1, <2>4 DEF Commit, WriteEnd
    <3> QED
      BY <1>3, <3>1, <3>2, <3>3
  <2> QED
    BY <2>3, <2>4
<1>5. ASSUME NEW c \in Clients, Step(c), ~Commit(c) PROVE Forward
  <2>1. UNCHANGED store
    BY <1>5 DEF Step, SubmitEnd, SubmitReorder, Answer, FailStore, Signal, FailSignal,
        Retry, Return
  <2> QED
    BY <1>2, <2>1 DEF store, instances
<1>6. ASSUME NEW j \in Instances, Claim(j) PROVE Forward
  <2>1. /\ <<status[j], "RUNNING">> \in InstanceEdges /\ status[j] \notin FinalInstanceStatuses
    BY <1>6 DEF Claim, Eligible, InstanceEdges, FinalInstanceStatuses
  <2> QED
    BY <1>3, <1>6, <2>1 DEF Claim
<1>7. ASSUME NEW j \in Instances, EndBySchedule(j) PROVE Forward
  <2>1. PICK final \in FinalInstanceStatuses : status' = [status EXCEPT ![j] = final]
    BY <1>7 DEF EndBySchedule
  <2>2. /\ <<status[j], final>> \in InstanceEdges /\ status[j] \notin FinalInstanceStatuses
    BY <1>7 DEF EndBySchedule, InstanceEdges, FinalInstanceStatuses
  <2> QED
    BY <1>3, <1>7, <2>1, <2>2 DEF EndBySchedule
<1>8. CASE UNCHANGED vars
  BY <1>2, <1>8 DEF vars, store, instances
<1> QED
  BY <1>4, <1>5, <1>6, <1>7, <1>8 DEF Next

\* The queue changes under its revision only, and an instance that has ended not at all.
THEOREM ChangesTheorem == Spec => RowsChangeVisibly
<1>1. IInv /\ [Next]_vars =>
        [(Eligible' # Eligible \/ ByPosition(Eligible)' # ByPosition(Eligible))
           => queueRevision' > queueRevision]_vars
  <2> SUFFICES ASSUME IInv, [Next]_vars, Eligible' = Eligible, position' = position
               PROVE  ByPosition(Eligible)' = ByPosition(Eligible)
    BY QueueMovesByRevision
  <2>1. ByPosition(Eligible) = SortedBy(position, Eligible)
    BY DEF ByPosition, SortedBy
  <2>2. ByPosition(Eligible)' = SortedBy(position', Eligible')
    BY DEF ByPosition, SortedBy
  <2> QED
    BY <2>1, <2>2
<1>2. IInv /\ [Next]_vars =>
        [\A i \in Instances :
           /\ status[i] \in FinalInstanceStatuses
                => /\ status'[i] = status[i] /\ revision'[i] = revision[i]
                   /\ ~claimed'[i]
           /\ status'[i] = status[i] \/ <<status[i], status'[i]>> \in InstanceEdges]_vars
  BY InstancesMoveForward
<1> QED
  BY <1>1, <1>2, IInvHolds, PTL
     DEF Spec, RowsChangeVisibly, QueueNeverChangesSilently, EndedIsOver
=============================================================================
