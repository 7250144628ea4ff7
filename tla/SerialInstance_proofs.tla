----------------------- MODULE SerialInstance_proofs -----------------------
(***************************************************************************)
(* Proofs that the safety properties of SerialInstance hold for every plan *)
(* length, every number of coordinators, executors and operators, every    *)
(* set of tokens and every bound on faults and revisions.                  *)
(***************************************************************************)
EXTENDS SerialInstance, FiniteSetTheorems, TLAPS

-----------------------------------------------------------------------------
(* What the decisions of DecideAdvance do to the entries: a vector of      *)
(* serial shape stays one when the decision made on it is written, and     *)
(* when its RUNNING entry ends.                                            *)

\* stopFor: the statuses that stop a plan, and that each has a cause.
LEMMA StopsMeaning ==
  ASSUME NEW s, NEW regime
  PROVE  /\ Stops(s, regime) <=> \/ s = "FAILED" /\ regime = "STOP_ON_FAILURE"
                                 \/ s \in {"CANCELED", "ABORTED"}
         /\ Stops(s, regime) => /\ s \in FinalInstanceStatuses
                                /\ StopCause(s, regime) \in SkipCauses
  BY DEF Stops, StopCause, NoCause, SkipCauses, FinalInstanceStatuses

\* What follows an entry that stops the plan neither runs nor stops it again,
\* so there is one such entry and nothing RUNNING beside it.
LEMMA StopperIsLast ==
  ASSUME NEW n \in Nat, NEW vector \in [1..n -> EntryStates], NEW regime,
         SerialShape(vector, regime),
         NEW i \in 1..n, Stops(vector[i].status, regime)
  PROVE  /\ \A j \in 1..n : j > i => /\ vector[j].status \in {"PENDING", "SKIPPED"}
                                     /\ vector[j].status = "SKIPPED"
                                          => vector[j].cause = StopCause(vector[i].status, regime)
         /\ \A j \in 1..n : j < i => /\ vector[j].status \in {"SUCCEEDED", "FAILED"}
                                     /\ ~Stops(vector[j].status, regime)
<1>1. DOMAIN vector = 1..n /\ \A j \in 1..n : vector[j].status \in EntryStatuses
  BY DEF EntryStates
<1>2. ASSUME NEW j \in 1..n, j > i
      PROVE  /\ vector[j].status \in {"PENDING", "SKIPPED"}
             /\ vector[j].status = "SKIPPED"
                  => vector[j].cause = StopCause(vector[i].status, regime)
  BY <1>1, <1>2 DEF SerialShape
<1>3. ASSUME NEW j \in 1..n, j < i
      PROVE  /\ vector[j].status \in {"SUCCEEDED", "FAILED"}
             /\ ~Stops(vector[j].status, regime)
  <2>1. vector[i].status \notin {"PENDING", "SKIPPED"}
    BY StopsMeaning
  <2>2. \A k \in 1..n : k < i => ~Stops(vector[k].status, regime)
    BY <1>1, <2>1 DEF SerialShape
  <2>3. ~StoppedBefore(vector, regime, j)
    BY <1>1, <1>3, <2>2 DEF StoppedBefore
  <2>4. vector[j].status \notin {"PENDING", "RUNNING", "SKIPPED"}
    BY <1>1, <1>3, <2>1, <2>3 DEF SerialShape
  <2>5. vector[j].status \notin {"CANCELED", "ABORTED"}
    BY <1>3, <2>2, StopsMeaning
  <2> QED
    BY <1>1, <1>3, <2>2, <2>4, <2>5 DEF EntryStatuses
<1> QED
  BY <1>2, <1>3

\* Before a RUNNING entry nothing stopped the plan or was skipped, and
\* everything after it is PENDING.
LEMMA RunningIsFrontier ==
  ASSUME NEW n \in Nat, NEW vector \in [1..n -> EntryStates], NEW regime,
         SerialShape(vector, regime),
         NEW i \in 1..n, vector[i].status = "RUNNING"
  PROVE  /\ \A j \in 1..n : j > i => vector[j].status = "PENDING"
         /\ \A j \in 1..n : j < i => /\ vector[j].status \in {"SUCCEEDED", "FAILED"}
                                     /\ ~Stops(vector[j].status, regime)
<1>1. DOMAIN vector = 1..n /\ \A j \in 1..n : vector[j].status \in EntryStatuses
  BY DEF EntryStates
<1>2. \A j \in 1..n : j < i => ~Stops(vector[j].status, regime)
  BY <1>1 DEF SerialShape
<1>3. \A j \in 1..n : j <= i => ~StoppedBefore(vector, regime, j)
  BY <1>1, <1>2 DEF StoppedBefore
<1>4. \A j \in 1..n : j > i => vector[j].status = "PENDING"
  BY <1>1, <1>3 DEF SerialShape
<1>5. ASSUME NEW j \in 1..n, j < i
      PROVE  vector[j].status \in {"SUCCEEDED", "FAILED"}
  <2>1. vector[j].status \notin {"PENDING", "RUNNING", "SKIPPED"}
    BY <1>1, <1>3, <1>5 DEF SerialShape
  <2>2. vector[j].status \notin {"CANCELED", "ABORTED"}
    BY <1>2, <1>5, StopsMeaning
  <2> QED
    BY <1>1, <2>1, <2>2 DEF EntryStatuses
<1> QED
  BY <1>2, <1>4, <1>5

-----------------------------------------------------------------------------
\* The four kinds of decision, field by field.
LEMMA DecisionFields ==
  ASSUME NEW vector, NEW regime, NEW i
  PROVE  /\ StopAfter(vector, regime, i) =
              [start |-> 0,
               skips |-> {j \in DOMAIN vector : j > i /\ vector[j].status = "PENDING"},
               cause |-> StopCause(vector[i].status, regime),
               final |-> vector[i].status]
         /\ Start(i) = [start |-> i, skips |-> {}, cause |-> NoCause, final |-> NoStatus]
         /\ \E s \in {"SUCCEEDED", "FAILED"} :
              Finish(vector) = [start |-> 0, skips |-> {}, cause |-> NoCause, final |-> s]
<1>1. Start(i) = [start |-> i, skips |-> {}, cause |-> NoCause, final |-> NoStatus]
  BY DEF Start, Nothing
<1>2. CASE \E j \in DOMAIN vector : vector[j].status = "FAILED"
  <2>1. Finish(vector) = [start |-> 0, skips |-> {}, cause |-> NoCause, final |-> "FAILED"]
    BY <1>2 DEF Finish, Nothing
  <2> QED
    BY <1>1, <2>1 DEF StopAfter
<1>3. CASE ~\E j \in DOMAIN vector : vector[j].status = "FAILED"
  <2>1. Finish(vector) = [start |-> 0, skips |-> {}, cause |-> NoCause, final |-> "SUCCEEDED"]
    BY <1>3 DEF Finish, Nothing
  <2> QED
    BY <1>1, <2>1 DEF StopAfter
<1> QED
  BY <1>2, <1>3

\* Every decision is in the set of decisions.
LEMMA DecisionType ==
  ASSUME NEW n \in Nat, NEW vector \in [1..n -> EntryStates], NEW regime,
         NEW d, Decides(vector, regime, d)
  PROVE  d \in Decisions(n)
<1>1. DOMAIN vector = 1..n
  OBVIOUS
<1>2. Nothing \in Decisions(n)
  BY DEF Nothing, Decisions
<1>3. ASSUME NEW i \in 1..n, Stops(vector[i].status, regime)
      PROVE  StopAfter(vector, regime, i) \in Decisions(n)
  BY <1>1, <1>3, StopsMeaning, DecisionFields DEF Decisions
<1>4. ASSUME NEW i \in 1..n PROVE Start(i) \in Decisions(n)
  BY DEF Start, Nothing, Decisions
<1>5. Finish(vector) \in Decisions(n)
  BY DEF Finish, Nothing, Decisions, FinalInstanceStatuses
<1> QED
  BY <1>1, <1>2, <1>3, <1>4, <1>5 DEF Decides

\* What each decision does to one entry: only PENDING entries move.
LEMMA AppliedEntries ==
  ASSUME NEW n \in Nat, NEW vector \in [1..n -> EntryStates], NEW regime,
         NEW d, Decides(vector, regime, d)
  PROVE  /\ Applied(vector, d) \in [1..n -> EntryStates]
         /\ \A i \in 1..n :
              \/ Applied(vector, d)[i] = vector[i]
              \/ /\ vector[i].status = "PENDING"
                 /\ i = d.start
                 /\ Applied(vector, d)[i] = [status |-> "RUNNING", cause |-> NoCause]
              \/ /\ vector[i].status = "PENDING"
                 /\ i \in d.skips
                 /\ Applied(vector, d)[i] = [status |-> "SKIPPED", cause |-> d.cause]
<1>1. DOMAIN vector = 1..n
  OBVIOUS
<1>2. ASSUME NEW i \in 1..n, i \in d.skips \/ i = d.start
      PROVE  vector[i].status = "PENDING"
  <2>1. CASE \E j \in 1..n : d = StopAfter(vector, regime, j)
    BY <1>2, <2>1, DecisionFields
  <2>2. CASE \E j \in 1..n : vector[j].status = "PENDING" /\ d = Start(j)
    <3>1. PICK j \in 1..n : vector[j].status = "PENDING" /\ d = Start(j)
      BY <2>2
    <3>2. d.start = j /\ d.skips = {}
      BY <3>1 DEF Start, Nothing
    <3> QED
      BY <1>2, <3>1, <3>2
  <2>3. CASE d = Nothing \/ d = Finish(vector)
    <3>1. Nothing.start = 0 /\ Nothing.skips = {}
      BY DEF Nothing
    <3>2. Finish(vector).start = 0 /\ Finish(vector).skips = {}
      <4>1. PICK s : Finish(vector) = [start |-> 0, skips |-> {}, cause |-> NoCause, final |-> s]
        BY DecisionFields
      <4> QED
        BY <4>1
    <3>3. d.start = 0 /\ d.skips = {}
      BY <2>3, <3>1, <3>2
    <3> QED
      BY <1>2, <3>3
  <2> QED
    BY <1>1, <2>1, <2>2, <2>3 DEF Decides
<1>3. d \in Decisions(n)
  BY DecisionType
<1>4. [status |-> "RUNNING", cause |-> NoCause] \in EntryStates
  BY DEF EntryStates, EntryStatuses
<1>5. [status |-> "SKIPPED", cause |-> d.cause] \in EntryStates
  BY <1>3 DEF EntryStates, EntryStatuses, Decisions
<1> QED
  BY <1>1, <1>2, <1>4, <1>5 DEF Applied

\* Writing a decision keeps the vector one that the next decision accepts.
LEMMA AppliedKeepsShape ==
  ASSUME NEW n \in Nat, NEW vector \in [1..n -> EntryStates], NEW regime,
         SerialShape(vector, regime),
         NEW d, Decides(vector, regime, d)
  PROVE  SerialShape(Applied(vector, d), regime)
<1> DEFINE next == Applied(vector, d)
<1>1. /\ DOMAIN vector = 1..n
      /\ \A j \in 1..n : vector[j].status \in EntryStatuses
  BY DEF EntryStates
<1>2. DOMAIN next = 1..n
  BY <1>1 DEF Applied
<1>3. CASE \E i \in 1..n : Stops(vector[i].status, regime) /\ d = StopAfter(vector, regime, i)
  <2>1. PICK i \in 1..n : Stops(vector[i].status, regime) /\ d = StopAfter(vector, regime, i)
    BY <1>3
  <2> DEFINE cause == StopCause(vector[i].status, regime)
  <2>2. /\ d.start = 0 /\ d.cause = cause
        /\ d.skips = {j \in 1..n : j > i /\ vector[j].status = "PENDING"}
    BY <1>1, <2>1 DEF StopAfter, Nothing
  <2>3. \A j \in 1..n : j <= i => next[j] = vector[j]
    BY <1>1, <2>2 DEF Applied
  <2>4. \A j \in 1..n : j > i => next[j].status = "SKIPPED" /\ next[j].cause = cause
    BY <1>1, <2>1, <2>2, StopperIsLast DEF Applied
  <2>5. \A j \in 1..n : j < i => /\ next[j].status \in {"SUCCEEDED", "FAILED"}
                                 /\ ~Stops(next[j].status, regime)
    <3> SUFFICES ASSUME NEW j \in 1..n, j < i
                 PROVE  next[j].status \in {"SUCCEEDED", "FAILED"} /\ ~Stops(next[j].status, regime)
      OBVIOUS
    <3>1. vector[j].status \in {"SUCCEEDED", "FAILED"} /\ ~Stops(vector[j].status, regime)
      BY <2>1, StopperIsLast
    <3>2. next[j] = vector[j]
      BY <2>3
    <3> QED
      BY <3>1, <3>2
  <2>6. Stops(next[i].status, regime) /\ next[i].status \in FinalInstanceStatuses
    BY <2>1, <2>3, StopsMeaning
  <2>7. \A j \in 1..n : next[j].status = "SKIPPED" => j > i
    BY <2>5, <2>6 DEF FinalInstanceStatuses
  <2>8. \A j \in 1..n : j <= i => next[j].status # "SKIPPED" /\ next[j].cause = NoCause
    BY <1>1, <2>3, <2>7 DEF SerialShape
  <2>9. cause # NoCause
    BY <2>1 DEF Stops
  <2>10. \A j \in 1..n : next[j].status \in EntryStatuses
    BY <1>1, <2>3, <2>4 DEF EntryStatuses
  <2>11. \A j \in 1..n : j > i => StoppedBefore(next, regime, j)
    BY <1>2, <2>6 DEF StoppedBefore
  <2>12. \A j \in 1..n : next[j].status \notin {"PENDING", "RUNNING"}
    BY <2>4, <2>5, <2>6 DEF FinalInstanceStatuses
  <2>13. \A j \in 1..n : Stops(next[j].status, regime) => j = i
    BY <2>4, <2>5, StopsMeaning
  <2>14. StopCause(next[i].status, regime) = cause
    BY <2>3
  <2> HIDE DEF next, cause
  <2>15. SerialShape(next, regime)
    BY <1>2, <2>4, <2>7, <2>8, <2>9, <2>10, <2>11, <2>12, <2>13, <2>14 DEF SerialShape
  <2> QED
    BY <2>15 DEF next
<1>4. CASE \E i \in 1..n :
             /\ \A j \in 1..n : ~Stops(vector[j].status, regime) /\ vector[j].status # "RUNNING"
             /\ vector[i].status = "PENDING"
             /\ \A j \in 1..n : j < i => vector[j].status # "PENDING"
             /\ d = Start(i)
  <2>1. PICK i \in 1..n :
             /\ \A j \in 1..n : ~Stops(vector[j].status, regime) /\ vector[j].status # "RUNNING"
             /\ vector[i].status = "PENDING"
             /\ \A j \in 1..n : j < i => vector[j].status # "PENDING"
             /\ d = Start(i)
    BY <1>4
  <2>2. /\ next[i] = [status |-> "RUNNING", cause |-> NoCause]
        /\ \A j \in 1..n : j # i => next[j] = vector[j]
    BY <1>1, <2>1 DEF Applied, Start, Nothing
  <2>3. \A j \in 1..n : ~StoppedBefore(vector, regime, j)
    BY <1>1, <2>1 DEF StoppedBefore
  <2>4. \A j \in 1..n : j > i => vector[j].status = "PENDING"
    BY <1>1, <2>1, <2>3 DEF SerialShape
  <2>5. \A j \in 1..n : vector[j].status # "SKIPPED" /\ vector[j].cause = NoCause
    BY <1>1, <2>3 DEF SerialShape
  <2>6. \A j \in 1..n : ~Stops(next[j].status, regime)
    BY <2>1, <2>2, StopsMeaning
  <2>7. \A j \in 1..n : next[j].status # "SKIPPED" /\ next[j].cause = NoCause
    BY <2>2, <2>5
  <2>8. \A j \in 1..n : j > i => next[j].status = "PENDING"
    BY <2>2, <2>4
  <2>9. \A j \in 1..n : j < i => next[j].status \notin {"PENDING", "RUNNING"}
    BY <2>1, <2>2
  <2>10. \A j \in 1..n : next[j].status \in EntryStatuses
    BY <1>1, <2>2 DEF EntryStatuses
  <2> HIDE DEF next
  <2>11. SerialShape(next, regime)
    BY <1>2, <2>6, <2>7, <2>8, <2>9, <2>10 DEF SerialShape
  <2> QED
    BY <2>11 DEF next
<1>5. CASE d = Nothing \/ d = Finish(vector)
  <2>1. next = vector
    BY <1>1, <1>5 DEF Applied, Finish, Nothing
  <2> QED
    BY <2>1
<1> QED
  BY <1>1, <1>3, <1>4, <1>5 DEF Decides

\* A decision that ends the instance leaves no entry RUNNING or PENDING.
LEMMA FinalMeansOver ==
  ASSUME NEW n \in Nat, NEW vector \in [1..n -> EntryStates], NEW regime,
         SerialShape(vector, regime),
         NEW d, Decides(vector, regime, d), d.final # NoStatus
  PROVE  \A i \in 1..n : Applied(vector, d)[i].status \notin {"PENDING", "RUNNING"}
<1>1. /\ DOMAIN vector = 1..n
      /\ \A j \in 1..n : vector[j].status \in EntryStatuses
  BY DEF EntryStates
<1>2. CASE \E i \in 1..n : Stops(vector[i].status, regime) /\ d = StopAfter(vector, regime, i)
  <2>1. PICK i \in 1..n : Stops(vector[i].status, regime) /\ d = StopAfter(vector, regime, i)
    BY <1>2
  <2>2. /\ d.start = 0
        /\ d.skips = {j \in 1..n : j > i /\ vector[j].status = "PENDING"}
    BY <1>1, <2>1 DEF StopAfter, Nothing
  <2>3. vector[i].status \in FinalInstanceStatuses
    BY <2>1, StopsMeaning
  <2>4. ASSUME NEW j \in 1..n
        PROVE  Applied(vector, d)[j].status \notin {"PENDING", "RUNNING"}
    <3>1. CASE j < i
      <4>1. vector[j].status \in {"SUCCEEDED", "FAILED"}
        BY <2>1, <3>1, StopperIsLast
      <4>2. j # d.start /\ j \notin d.skips
        BY <2>2, <3>1
      <4>3. Applied(vector, d)[j] = vector[j]
        BY <1>1, <4>2 DEF Applied
      <4> QED
        BY <4>1, <4>3
    <3>2. CASE j = i
      BY <1>1, <2>2, <2>3, <3>2 DEF Applied, FinalInstanceStatuses
    <3>3. CASE j > i
      <4>1. vector[j].status # "RUNNING"
        BY <2>1, <3>3, StopperIsLast
      <4>2. j # d.start /\ (j \in d.skips <=> vector[j].status = "PENDING")
        BY <2>2, <3>3
      <4> QED
        BY <1>1, <4>1, <4>2 DEF Applied
    <3> QED
      BY <3>1, <3>2, <3>3
  <2> QED
    BY <2>4
<1>3. CASE /\ \A i \in 1..n : vector[i].status \notin {"PENDING", "RUNNING"}
           /\ d = Finish(vector)
  BY <1>1, <1>3 DEF Applied, Finish, Nothing
<1> QED
  BY <1>1, <1>2, <1>3 DEF Decides, Start, Nothing

\* Ending the RUNNING entry keeps the vector one that the next decision accepts.
LEMMA EndingKeepsShape ==
  ASSUME NEW n \in Nat, NEW vector \in [1..n -> EntryStates], NEW regime,
         SerialShape(vector, regime),
         NEW e \in 1..n, vector[e].status = "RUNNING",
         NEW s \in FinalInstanceStatuses
  PROVE  /\ [vector EXCEPT ![e].status = s] \in [1..n -> EntryStates]
         /\ SerialShape([vector EXCEPT ![e].status = s], regime)
<1> DEFINE next == [vector EXCEPT ![e].status = s]
<1>1. /\ DOMAIN vector = 1..n /\ DOMAIN next = 1..n
      /\ \A j \in 1..n : vector[j].status \in EntryStatuses
  BY DEF EntryStates
<1>2. /\ next[e].status = s /\ next[e].cause = vector[e].cause
      /\ \A j \in 1..n : j # e => next[j] = vector[j]
  BY DEF EntryStates
<1>3. next \in [1..n -> EntryStates]
  BY DEF EntryStates, EntryStatuses, FinalInstanceStatuses
<1>4. /\ \A j \in 1..n : j > e => next[j].status = "PENDING"
      /\ \A j \in 1..n : j < e => /\ next[j].status \in {"SUCCEEDED", "FAILED"}
                                  /\ ~Stops(next[j].status, regime)
  BY <1>2, RunningIsFrontier
<1>5. \A j \in 1..n : next[j].status # "SKIPPED" /\ vector[j].status # "SKIPPED"
  BY <1>2, <1>4 DEF FinalInstanceStatuses
<1>6. \A j \in 1..n : next[j].cause = NoCause
  BY <1>1, <1>2, <1>5 DEF SerialShape
<1>7. next[e].status \notin {"PENDING", "RUNNING"}
  BY <1>2 DEF FinalInstanceStatuses
<1>8. \A j \in 1..n : next[j].status \in EntryStatuses
  BY <1>3 DEF EntryStates
<1>9. \A j \in 1..n : j > e => ~Stops(next[j].status, regime)
  BY <1>4, StopsMeaning
<1> HIDE DEF next
<1>10. SerialShape(next, regime)
  BY <1>1, <1>4, <1>5, <1>6, <1>7, <1>8, <1>9 DEF SerialShape
<1> QED
  BY <1>3, <1>10 DEF next

\* A decision that ends the instance FAILED or SUCCEEDED leaves entries that bear
\* it out: none was stopped by an intent, and SUCCEEDED means each one succeeded.
LEMMA FinalIsEarned ==
  ASSUME NEW n \in Nat, NEW vector \in [1..n -> EntryStates],
         NEW regime \in Policies,
         SerialShape(vector, regime),
         NEW d, Decides(vector, regime, d), d.final \in {"SUCCEEDED", "FAILED"}
  PROVE  /\ \A i \in 1..n :
              Applied(vector, d)[i].status \in {"SUCCEEDED", "FAILED", "SKIPPED"}
         /\ d.final = "SUCCEEDED"
              <=> \A i \in 1..n : Applied(vector, d)[i].status = "SUCCEEDED"
<1> DEFINE next == Applied(vector, d)
<1>1. /\ DOMAIN vector = 1..n
      /\ \A j \in 1..n : vector[j].status \in EntryStatuses
  BY DEF EntryStates
<1>2. CASE \E i \in 1..n : Stops(vector[i].status, regime) /\ d = StopAfter(vector, regime, i)
  <2>1. PICK i \in 1..n : Stops(vector[i].status, regime) /\ d = StopAfter(vector, regime, i)
    BY <1>2
  <2>2. /\ d.start = 0 /\ d.final = vector[i].status
        /\ d.skips = {j \in 1..n : j > i /\ vector[j].status = "PENDING"}
    BY <1>1, <2>1 DEF StopAfter
  <2>3. vector[i].status = "FAILED"
    BY <2>1, <2>2, StopsMeaning
  <2>4. \A j \in 1..n : j <= i => next[j] = vector[j]
    BY <1>1, <2>2 DEF Applied
  <2>5. \A j \in 1..n : j < i => next[j].status \in {"SUCCEEDED", "FAILED"}
    BY <2>1, <2>4, StopperIsLast
  <2>6. ASSUME NEW j \in 1..n, j > i PROVE next[j].status = "SKIPPED"
    <3>1. vector[j].status \in {"PENDING", "SKIPPED"}
      BY <2>1, <2>6, StopperIsLast
    <3>2. next[j] = IF vector[j].status = "PENDING"
                      THEN [status |-> "SKIPPED", cause |-> d.cause]
                      ELSE vector[j]
      BY <1>1, <2>2, <2>6 DEF Applied
    <3> HIDE DEF next
    <3> QED
      BY <3>1, <3>2
  <2>7. next[i].status = "FAILED"
    BY <2>3, <2>4
  <2> HIDE DEF next
  <2> QED
    BY <2>2, <2>3, <2>5, <2>6, <2>7 DEF next
<1>3. CASE /\ \A i \in 1..n : ~Stops(vector[i].status, regime)
           /\ \A i \in 1..n : vector[i].status \notin {"PENDING", "RUNNING"}
           /\ d = Finish(vector)
  <2>1. next = vector
    BY <1>1, <1>3 DEF Applied, Finish, Nothing
  <2>2. \A i \in 1..n : ~StoppedBefore(vector, regime, i)
    BY <1>1, <1>3 DEF StoppedBefore
  <2>3. \A i \in 1..n : vector[i].status # "SKIPPED"
    BY <1>1, <2>2 DEF SerialShape
  <2>4. \A i \in 1..n : vector[i].status \in {"SUCCEEDED", "FAILED"}
    BY <1>1, <1>3, <2>3, StopsMeaning DEF EntryStatuses
  <2>5. d.final = IF \E i \in 1..n : vector[i].status = "FAILED" THEN "FAILED" ELSE "SUCCEEDED"
    BY <1>1, <1>3 DEF Finish, Nothing
  <2> QED
    BY <2>1, <2>4, <2>5
<1>4. d # Nothing /\ \A i \in 1..n : d # Start(i)
  BY DEF Nothing, Start, NoStatus
<1> QED
  BY <1>1, <1>2, <1>3, <1>4 DEF Decides

-----------------------------------------------------------------------------
(* The inductive invariant.                                                *)

\* The claim in force belongs to one process: a second process that still
\* carries its token cannot exist, since a token nobody has is handed out.
Exclusive ==
  /\ \A v, w \in Workers :
       (v # w /\ worker[v].token = fence /\ worker[w].token = fence) => fence = NoToken
  /\ \A x, y \in Executors :
       (x # y /\ executor[x].token = fence /\ executor[y].token = fence) => fence = NoToken
  /\ \A w \in Workers, x \in Executors :
       (worker[w].token = fence /\ executor[x].token = fence) => fence = NoToken

\* What was decided on an observation can be written.
EndingDecidable ==
  \A x \in Executors :
    executor[x].pc = "ending" => ~CompletionRefused(executor[x].obs, executor[x].executed)

RequestDecidable ==
  \A o \in Operators :
    operator[o].pc = "requesting" => ~AbortRefused(operator[o].obs)

\* A worker that holds the claim works on an instance that is not over.
ClaimedRuns ==
  \A w \in Workers :
    (worker[w].pc \in {"claimed", "decided"} /\ worker[w].token = fence) => status = "RUNNING"

\* A claimed instance that scheduling ended has no entry left to end.
ClaimedFinalIsEmpty ==
  (fence # NoToken /\ status \in FinalInstanceStatuses)
    => \A i \in Entries : states[i].status # "RUNNING"

\* The revision that an abort request saw is either gone or still the one under
\* which its entry runs: ending an entry moves the revision.
RequestsAreFresh ==
  \A o \in Operators :
    operator[o].pc = "requesting" =>
      /\ operator[o].obs.revision <= revision
      /\ operator[o].obs.revision = revision
           => states[operator[o].entry].status = "RUNNING"

IInv ==
  /\ TypeOK
  /\ NeverUndecidable
  /\ Exclusive
  /\ EndingDecidable
  /\ RequestDecidable
  /\ PendingDecisionStillFits
  /\ ClaimedRuns
  /\ ClaimedFinalIsEmpty
  /\ RequestsAreFresh

-----------------------------------------------------------------------------
\* The fields that a process has at each of its steps.
LEMMA ProcessTypes ==
  ASSUME TypeOK
  PROVE  /\ \A w \in Workers :
              /\ worker[w].token \in OwnTokens
              /\ worker[w].pc \in {"claimed", "decided", "releasing"}
                   => worker[w].token \in Tokens
              /\ worker[w].pc = "decided" => worker[w].decision \in Decisions(N)
         /\ \A x \in Executors :
              /\ executor[x].token \in OwnTokens
              /\ executor[x].pc \in {"running", "ending", "releasing"}
                   => executor[x].token \in Tokens
              /\ executor[x].pc \in {"running", "ending"} => executor[x].entry \in Entries
              /\ executor[x].pc = "ending" => /\ executor[x].executed \in ExecutionOutcomes
                                              /\ executor[x].obs \in Observations
         /\ \A o \in Operators :
              operator[o].pc = "requesting" => /\ operator[o].token \in OwnTokens
                                               /\ operator[o].entry \in Entries
                                               /\ operator[o].obs \in Observations
<1>1. \A w \in Workers : worker[w] \in WorkerStates
  BY DEF TypeOK
<1>2. \A x \in Executors : executor[x] \in ExecutorStates
  BY DEF TypeOK
<1>3. \A o \in Operators : operator[o] \in OperatorStates
  BY DEF TypeOK
<1>4. /\ \A w \in Workers :
           /\ worker[w].token \in OwnTokens
           /\ worker[w].pc \in {"claimed", "decided", "releasing"}
                => worker[w].token \in Tokens
           /\ worker[w].pc = "decided" => worker[w].decision \in Decisions(N)
  BY <1>1 DEF WorkerStates, Idle, OwnTokens
<1>5. \A x \in Executors :
        /\ executor[x].token \in OwnTokens
        /\ executor[x].pc \in {"running", "ending", "releasing"}
             => executor[x].token \in Tokens
        /\ executor[x].pc \in {"running", "ending"} => executor[x].entry \in Entries
        /\ executor[x].pc = "ending" => /\ executor[x].executed \in ExecutionOutcomes
                                        /\ executor[x].obs \in Observations
  BY <1>2 DEF ExecutorStates, Idle, OwnTokens
<1>6. \A o \in Operators :
        operator[o].pc = "requesting" => /\ operator[o].token \in OwnTokens
                                         /\ operator[o].entry \in Entries
                                         /\ operator[o].obs \in Observations
  BY <1>3 DEF OperatorStates, Idle
<1> QED
  BY <1>4, <1>5, <1>6

\* A new claim's token is nobody's.
LEMMA NewTokenIsNew ==
  ASSUME FreshTokens # {}
  PROVE  /\ NewToken \in Tokens
         /\ NewToken # NoToken
         /\ NewToken # fence
         /\ \A w \in Workers : worker[w].token # NewToken
         /\ \A x \in Executors : executor[x].token # NewToken
<1>1. NewToken \in FreshTokens
  BY DEF NewToken
<1> QED
  BY <1>1, SerialAssumption DEF FreshTokens, TokensHeld

\* The observation of an entry is one.
LEMMA ObservationType ==
  ASSUME TypeOK, NEW i \in Entries
  PROVE  Observation(i) \in Observations
  BY MaxRevisionAssumption DEF TypeOK, Observation, Observations, EntryStates

\* The status a completion decides, and that it is one an entry may end in.
LEMMA TerminalStatusMeaning ==
  ASSUME NEW intn \in TerminalIntents, NEW executed \in ExecutionOutcomes
  PROVE  /\ TerminalStatusOf(intn, executed) \in FinalInstanceStatuses
         /\ TerminalStatusOf(intn, executed) # "SUCCEEDED" =>
              TerminalStatusOf(intn, executed) = CASE intn = "NONE"   -> "FAILED"
                                                   [] intn = "CANCEL" -> "CANCELED"
                                                   [] intn = "ABORT"  -> "ABORTED"
<1>1. CASE executed = "SUCCEEDED"
  BY <1>1 DEF TerminalStatusOf, FinalInstanceStatuses
<1>2. CASE executed # "SUCCEEDED" /\ intn = "NONE"
  BY <1>2 DEF TerminalStatusOf, FinalInstanceStatuses
<1>3. CASE executed # "SUCCEEDED" /\ intn = "CANCEL"
  BY <1>3 DEF TerminalStatusOf, FinalInstanceStatuses
<1>4. CASE executed # "SUCCEEDED" /\ intn = "ABORT"
  BY <1>4 DEF TerminalStatusOf, FinalInstanceStatuses
<1> QED
  BY <1>1, <1>2, <1>3, <1>4 DEF TerminalIntents

-----------------------------------------------------------------------------
\* ApplyDecision writes to an instance that is not over, the decision that
\* DecideAdvance would make on the rows it overwrites.
LEMMA ApplyEffect ==
  ASSUME IInv, NEW w \in Workers, ApplyDecision(w)
  PROVE  /\ fence \in Tokens /\ status = "RUNNING"
         /\ Decides(states, policy, worker[w].decision)
         /\ states' \in [Entries -> EntryStates]
         /\ SerialShape(states', policy)
         /\ \A i \in Entries :
              \/ states'[i] = states[i]
              \/ /\ states[i].status = "PENDING"
                 /\ states'[i].status \in {"RUNNING", "SKIPPED"}
         /\ status' \in {"RUNNING"} \cup FinalInstanceStatuses
         /\ status' \in FinalInstanceStatuses
              => \A i \in Entries : states'[i].status # "RUNNING"
<1> DEFINE d == worker[w].decision
<1>1. /\ fence = worker[w].token /\ worker[w].pc = "decided"
      /\ states' = Applied(states, d)
      /\ status' = IF d.final = NoStatus THEN status ELSE d.final
  BY DEF ApplyDecision
<1>2. fence \in Tokens /\ d \in Decisions(N)
  BY <1>1, ProcessTypes DEF IInv
<1>3. status = "RUNNING"
  BY <1>1 DEF IInv, ClaimedRuns
<1>4. Decides(states, policy, d)
  BY <1>1 DEF IInv, PendingDecisionStillFits
<1>5. /\ N \in Nat /\ states \in [1..N -> EntryStates] /\ SerialShape(states, policy)
  BY SerialAssumption DEF IInv, TypeOK, NeverUndecidable, Entries
<1>6. states' \in [Entries -> EntryStates]
  BY <1>1, <1>4, <1>5, AppliedEntries DEF Entries
<1>7. \A i \in Entries :
        \/ states'[i] = states[i]
        \/ /\ states[i].status = "PENDING"
           /\ states'[i].status \in {"RUNNING", "SKIPPED"}
  <2> HIDE DEF d
  <2> SUFFICES ASSUME NEW i \in 1..N, states'[i] # states[i]
               PROVE  /\ states[i].status = "PENDING"
                      /\ states'[i].status \in {"RUNNING", "SKIPPED"}
    BY DEF Entries
  <2>1. /\ states[i].status = "PENDING"
        /\ \/ states'[i] = [status |-> "RUNNING", cause |-> NoCause]
           \/ states'[i] = [status |-> "SKIPPED", cause |-> d.cause]
    BY <1>1, <1>4, <1>5, AppliedEntries
  <2> QED
    BY <2>1
<1>8. SerialShape(states', policy)
  BY <1>1, <1>4, <1>5, AppliedKeepsShape
<1>9. status' \in {"RUNNING"} \cup FinalInstanceStatuses
  BY <1>1, <1>2, <1>3 DEF Decisions
<1>10. ASSUME status' \in FinalInstanceStatuses
       PROVE  \A i \in Entries : states'[i].status # "RUNNING"
  <2>1. d.final # NoStatus
    BY <1>1, <1>3, <1>10 DEF FinalInstanceStatuses
  <2> QED
    BY <1>1, <1>4, <1>5, <2>1, FinalMeansOver DEF Entries
<1> QED
  BY <1>2, <1>3, <1>4, <1>6, <1>7, <1>8, <1>9, <1>10

\* CompleteEntry ends the one RUNNING entry of an instance that is not over, in
\* the status that the intent in force calls for.
LEMMA CompletionEffect ==
  ASSUME IInv, NEW x \in Executors, CommitCompletion(x)
  PROVE  LET i == executor[x].entry IN
         /\ fence \in Tokens /\ status \notin FinalInstanceStatuses
         /\ i \in Entries /\ states[i].status = "RUNNING"
         /\ states' \in [Entries -> EntryStates]
         /\ SerialShape(states', policy)
         /\ states'[i].status = TerminalStatusOf(intent, executor[x].executed)
         /\ states'[i].status \in FinalInstanceStatuses
         /\ \A j \in Entries : j # i => states'[j] = states[j]
         /\ intent' = intent
         /\ revision' = revision + 1 /\ revision' \in 0..MaxRevision
         /\ generation' = generation + (IF SpendsGeneration(states'[i].status) THEN 1 ELSE 0)
         /\ generation' \in 0..MaxRevision
<1> DEFINE e == executor[x]
           i == e.entry
           d == CompletionDecision(e.obs, e.executed)
<1>1. /\ fence = e.token /\ e.pc = "ending" /\ e.obs = Observation(i)
      /\ states' = [states EXCEPT ![i].status = d.status]
      /\ intent' = d.nextIntent /\ revision' = d.nextRevision
      /\ generation' = d.nextGeneration
  BY DEF CommitCompletion
<1>2. /\ fence \in Tokens /\ i \in Entries /\ e.executed \in ExecutionOutcomes
  BY <1>1, ProcessTypes DEF IInv
<1>3. ~CompletionRefused(e.obs, e.executed)
  BY <1>1 DEF IInv, EndingDecidable
<1>4. /\ e.obs.status = states[i].status /\ e.obs.intent = intent
      /\ e.obs.revision = revision /\ e.obs.generation = generation
  BY <1>1 DEF Observation
<1>5. /\ intent \in TerminalIntents /\ revision \in 0..MaxRevision
      /\ generation \in 0..MaxRevision /\ MaxRevision \in Nat
      /\ N \in Nat /\ states \in [1..N -> EntryStates] /\ SerialShape(states, policy)
  BY MaxRevisionAssumption, SerialAssumption DEF IInv, TypeOK, NeverUndecidable, Entries
<1>6. /\ states[i].status = "RUNNING" /\ ~CompletionExhausted(e.obs, e.executed)
  BY <1>3, <1>4 DEF CompletionRefused
<1>7. status \notin FinalInstanceStatuses
  BY <1>2, <1>6, SerialAssumption DEF IInv, ClaimedFinalIsEmpty
<1>8. /\ d.status = TerminalStatusOf(intent, e.executed)
      /\ d.nextIntent = intent /\ d.nextRevision = revision + 1
      /\ d.nextGeneration = generation + (IF SpendsGeneration(d.status) THEN 1 ELSE 0)
  BY <1>4 DEF CompletionDecision
<1>9. d.status \in FinalInstanceStatuses
  BY <1>2, <1>5, <1>8, TerminalStatusMeaning
<1>10. states' \in [Entries -> EntryStates] /\ SerialShape(states', policy)
  BY <1>1, <1>2, <1>5, <1>6, <1>9, EndingKeepsShape DEF Entries
<1>11. /\ states'[i].status = d.status
       /\ \A j \in Entries : j # i => states'[j] = states[j]
  <2> HIDE DEF d
  <2> QED
    BY <1>1, <1>2, <1>5 DEF Entries, EntryStates
<1>12. revision < MaxRevision /\ (SpendsGeneration(d.status) => generation < MaxRevision)
  BY <1>4, <1>5, <1>6, <1>8 DEF CompletionExhausted
<1>13. /\ intent' = intent /\ revision' = revision + 1 /\ revision' \in 0..MaxRevision
       /\ generation' = generation + (IF SpendsGeneration(states'[i].status) THEN 1 ELSE 0)
       /\ generation' \in 0..MaxRevision
  <2> HIDE DEF d
  <2> QED
    BY <1>1, <1>5, <1>8, <1>11, <1>12
<1> QED
  BY <1>2, <1>6, <1>7, <1>8, <1>9, <1>10, <1>11, <1>13

\* RequestAbort writes to an instance that is not over, although it compares
\* no entry and no instance status.
LEMMA AbortEffect ==
  ASSUME IInv, NEW o \in Operators, CommitAbort(o)
  PROVE  /\ status \notin FinalInstanceStatuses
         /\ intent # "ABORT" /\ intent' = "ABORT"
         /\ revision' = revision + 1 /\ revision' \in 0..MaxRevision
         /\ generation' = generation
<1> DEFINE r == operator[o]
<1>1. /\ r.pc = "requesting" /\ fence # NoToken
      /\ intent = r.obs.intent /\ revision = r.obs.revision /\ generation = r.obs.generation
      /\ intent' = AbortDecision(r.obs).nextIntent
      /\ revision' = AbortDecision(r.obs).nextRevision
      /\ generation' = AbortDecision(r.obs).nextGeneration
  BY DEF CommitAbort
<1>2. ~AbortRefused(r.obs) /\ states[r.entry].status = "RUNNING" /\ r.entry \in Entries
  BY <1>1, ProcessTypes DEF IInv, RequestDecidable, RequestsAreFresh
<1>3. /\ revision \in 0..MaxRevision /\ MaxRevision \in Nat /\ revision < MaxRevision
      /\ intent # "ABORT"
  BY <1>1, <1>2, MaxRevisionAssumption DEF IInv, TypeOK, AbortRefused
<1>4. status \notin FinalInstanceStatuses
  BY <1>1, <1>2 DEF IInv, ClaimedFinalIsEmpty
<1> QED
  BY <1>1, <1>3, <1>4 DEF AbortDecision

-----------------------------------------------------------------------------
(* Each action preserves the inductive invariant *)

\* ClaimNext gives a worker a token nobody has; the instance starts RUNNING.
LEMMA ClaimNextKeeps ==
  ASSUME IInv, NEW w \in Workers, ClaimNext(w)
  PROVE  IInv'
<1>1. /\ NewToken \in Tokens /\ NewToken # NoToken /\ fence' = NewToken
      /\ \A v \in Workers : worker[v].token # NewToken
      /\ \A x \in Executors : executor[x].token # NewToken
  BY NewTokenIsNew DEF ClaimNext
<1>2. /\ worker' = [worker EXCEPT ![w] = [pc |-> "claimed", token |-> NewToken]]
      /\ status' = "RUNNING"
      /\ UNCHANGED <<policy, states, intent, revision, generation, executor, operator, faults>>
  BY DEF ClaimNext, SetWorker
<1> HIDE DEF NewToken
<1>3. worker \in [Workers -> WorkerStates]
  BY DEF IInv, TypeOK
<1>4. TypeOK'
  BY <1>1, <1>2 DEF IInv, TypeOK, WorkerStates, OwnTokens, InstanceStatuses
<1>5. \A v \in Workers : v # w => worker'[v] = worker[v]
  BY <1>2, <1>3
<1>6. worker'[w] = [pc |-> "claimed", token |-> NewToken]
  BY <1>2, <1>3
<1>7. Exclusive'
  BY <1>1, <1>2, <1>5, <1>6 DEF Exclusive
<1>8. PendingDecisionStillFits'
  BY <1>1, <1>2, <1>5, <1>6 DEF PendingDecisionStillFits
<1>9. ClaimedRuns' /\ ClaimedFinalIsEmpty'
  BY <1>2 DEF ClaimedRuns, ClaimedFinalIsEmpty, FinalInstanceStatuses
<1>10. NeverUndecidable' /\ EndingDecidable' /\ RequestDecidable' /\ RequestsAreFresh'
  BY <1>2 DEF IInv, NeverUndecidable, EndingDecidable, RequestDecidable, RequestsAreFresh
<1> QED
  BY <1>4, <1>7, <1>8, <1>9, <1>10 DEF IInv

\* LoadEntryStates and DecideAdvance write nothing; the decision fits the rows
\* it was made on.
LEMMA DecideKeeps ==
  ASSUME IInv, NEW w \in Workers, Decide(w)
  PROVE  IInv'
<1> DEFINE t == worker[w].token
<1>1. worker[w].pc = "claimed" /\ t \in Tokens
  BY ProcessTypes DEF Decide, IInv
<1>2. UNCHANGED <<policy, states, intent, revision, generation, status, fence, executor, operator, faults>>
  BY DEF Decide, rows
<1>3. \E s : /\ worker' = [worker EXCEPT ![w] = s]
             /\ \/ s = Releasing(t)
                \/ \E d : /\ Decides(states, policy, d)
                          /\ s = [pc |-> "decided", token |-> t, decision |-> d]
  BY DEF Decide, SetWorker
<1>4. PICK s : /\ worker' = [worker EXCEPT ![w] = s]
               /\ \/ s = Releasing(t)
                  \/ \E d : /\ Decides(states, policy, d)
                            /\ s = [pc |-> "decided", token |-> t, decision |-> d]
  BY <1>3
<1>5. s \in WorkerStates
  <2>1. CASE s = Releasing(t)
    BY <1>1, <2>1 DEF Releasing, WorkerStates
  <2>2. CASE \E d : /\ Decides(states, policy, d)
                    /\ s = [pc |-> "decided", token |-> t, decision |-> d]
    <3>1. PICK d : Decides(states, policy, d) /\ s = [pc |-> "decided", token |-> t, decision |-> d]
      BY <2>2
    <3>2. d \in Decisions(N)
      BY <3>1, DecisionType, SerialAssumption DEF IInv, TypeOK, Entries
    <3> QED
      BY <1>1, <3>1, <3>2 DEF WorkerStates
  <2> QED
    BY <1>4, <2>1, <2>2
<1>6. /\ s.token = t
      /\ s.pc \in {"releasing", "decided"}
      /\ s.pc = "decided" => Decides(states, policy, s.decision)
  BY <1>4 DEF Releasing
<1>7. TypeOK'
  BY <1>2, <1>4, <1>5 DEF IInv, TypeOK
<1>8. worker'[w] = s /\ \A v \in Workers : v # w => worker'[v] = worker[v]
  BY <1>4 DEF IInv, TypeOK
<1>9. Exclusive'
  BY <1>2, <1>6, <1>8 DEF IInv, Exclusive
<1>10. PendingDecisionStillFits'
  BY <1>2, <1>6, <1>8 DEF IInv, PendingDecisionStillFits
<1>11. ClaimedRuns'
  BY <1>1, <1>2, <1>6, <1>8 DEF IInv, ClaimedRuns
<1>12. /\ NeverUndecidable' /\ EndingDecidable' /\ RequestDecidable'
       /\ ClaimedFinalIsEmpty' /\ RequestsAreFresh'
  BY <1>2 DEF IInv, NeverUndecidable, EndingDecidable, RequestDecidable,
              ClaimedFinalIsEmpty, RequestsAreFresh
<1> QED
  BY <1>7, <1>9, <1>10, <1>11, <1>12 DEF IInv

\* A worker that is done, or gone, keeps the rows; the claim stays or ends.
LEMMA WorkerLeavesKeeps ==
  ASSUME IInv, NEW w \in Workers, NEW s \in WorkerStates,
         s = Idle \/ s = Releasing(worker[w].token),
         worker' = [worker EXCEPT ![w] = s],
         fence' \in {fence, NoToken}, faults' \in 0..MaxFaults,
         UNCHANGED <<rows, executor, operator>>
  PROVE  IInv'
<1>1. UNCHANGED <<policy, states, intent, revision, generation, status, executor, operator>>
  BY DEF rows
<1>2. s.pc \in {"idle", "releasing"} /\ s.token \in {NoToken, worker[w].token}
  BY DEF Idle, Releasing
<1>3. worker'[w] = s /\ \A v \in Workers : v # w => worker'[v] = worker[v]
  BY DEF IInv, TypeOK
<1>4. TypeOK'
  BY <1>1 DEF IInv, TypeOK, OwnTokens
<1>5. Exclusive'
  BY <1>1, <1>2, <1>3 DEF IInv, Exclusive
<1>6. \A v \in Workers : worker'[v].pc \in {"claimed", "decided"} =>
        v # w /\ worker'[v] = worker[v] /\ worker[v].token # NoToken
  BY <1>2, <1>3, ProcessTypes, SerialAssumption DEF IInv
<1>7. PendingDecisionStillFits' /\ ClaimedRuns'
  BY <1>1, <1>6 DEF IInv, PendingDecisionStillFits, ClaimedRuns
<1>8. /\ NeverUndecidable' /\ EndingDecidable' /\ RequestDecidable'
      /\ ClaimedFinalIsEmpty' /\ RequestsAreFresh'
  BY <1>1 DEF IInv, NeverUndecidable, EndingDecidable, RequestDecidable,
              ClaimedFinalIsEmpty, RequestsAreFresh
<1> QED
  BY <1>4, <1>5, <1>7, <1>8 DEF IInv

\* An executor moves between steps that write no row; the claim stays or ends.
LEMMA ExecutorMovesKeeps ==
  ASSUME IInv, NEW x \in Executors, NEW s \in ExecutorStates,
         s.token \in {NoToken, executor[x].token},
         s.pc = "ending" => ~CompletionRefused(s.obs, s.executed),
         executor' = [executor EXCEPT ![x] = s],
         fence' \in {fence, NoToken}, faults' \in 0..MaxFaults,
         UNCHANGED <<rows, worker, operator>>
  PROVE  IInv'
<1>1. UNCHANGED <<policy, states, intent, revision, generation, status, worker, operator>>
  BY DEF rows
<1>2. executor'[x] = s /\ \A y \in Executors : y # x => executor'[y] = executor[y]
  BY DEF IInv, TypeOK
<1>3. TypeOK'
  BY <1>1 DEF IInv, TypeOK, OwnTokens
<1>4. Exclusive'
  BY <1>1, <1>2 DEF IInv, Exclusive
<1>5. EndingDecidable'
  BY <1>2 DEF IInv, EndingDecidable
<1>6. \A v \in Workers : worker'[v].pc \in {"claimed", "decided"} => worker[v].token # NoToken
  BY <1>1, ProcessTypes, SerialAssumption DEF IInv
<1>7. PendingDecisionStillFits' /\ ClaimedRuns'
  BY <1>1, <1>6 DEF IInv, PendingDecisionStillFits, ClaimedRuns
<1>8. NeverUndecidable' /\ RequestDecidable' /\ ClaimedFinalIsEmpty' /\ RequestsAreFresh'
  BY <1>1 DEF IInv, NeverUndecidable, RequestDecidable, ClaimedFinalIsEmpty, RequestsAreFresh
<1> QED
  BY <1>3, <1>4, <1>5, <1>7, <1>8 DEF IInv

\* ApplyDecision under the claim leaves a vector DecideAdvance accepts; without
\* the claim it leaves everything.
LEMMA ApplyDecisionKeeps ==
  ASSUME IInv, NEW w \in Workers, ApplyDecision(w)
  PROVE  IInv'
<1>1. /\ fence \in Tokens /\ status = "RUNNING"
      /\ states' \in [Entries -> EntryStates] /\ SerialShape(states', policy)
      /\ \A i \in Entries : \/ states'[i] = states[i]
                            \/ /\ states[i].status = "PENDING"
                               /\ states'[i].status \in {"RUNNING", "SKIPPED"}
      /\ status' \in {"RUNNING"} \cup FinalInstanceStatuses
      /\ status' \in FinalInstanceStatuses => \A i \in Entries : states'[i].status # "RUNNING"
  BY ApplyEffect
<1>2. /\ worker[w].token = fence
      /\ worker' = [worker EXCEPT ![w] = Releasing(worker[w].token)]
      /\ UNCHANGED <<policy, intent, revision, generation, fence, executor, operator, faults>>
  BY DEF ApplyDecision, SetWorker
<1>3. /\ worker'[w] = Releasing(fence)
      /\ \A v \in Workers : v # w => worker'[v] = worker[v]
  BY <1>2 DEF IInv, TypeOK
<1>4. TypeOK'
  <2>1. Releasing(fence) \in WorkerStates
    BY <1>1 DEF Releasing, WorkerStates
  <2>2. status' \in InstanceStatuses
    BY <1>1 DEF InstanceStatuses, FinalInstanceStatuses
  <2> QED
    BY <1>1, <1>2, <2>1, <2>2 DEF IInv, TypeOK
<1>5. Exclusive'
  BY <1>2, <1>3 DEF IInv, Exclusive, Releasing
<1>6. \A v \in Workers : worker'[v].token = fence => v = w
  BY <1>1, <1>2, <1>3, SerialAssumption DEF IInv, Exclusive
<1>7. PendingDecisionStillFits' /\ ClaimedRuns'
  BY <1>2, <1>3, <1>6 DEF PendingDecisionStillFits, ClaimedRuns, Releasing
<1>8. NeverUndecidable' /\ ClaimedFinalIsEmpty'
  BY <1>1, <1>2 DEF NeverUndecidable, ClaimedFinalIsEmpty
<1>9. EndingDecidable' /\ RequestDecidable'
  BY <1>2 DEF IInv, EndingDecidable, RequestDecidable
<1>10. RequestsAreFresh'
  BY <1>1, <1>2, ProcessTypes DEF IInv, RequestsAreFresh
<1> QED
  BY <1>4, <1>5, <1>7, <1>8, <1>9, <1>10 DEF IInv

\* An executor takes up an entry that runs, with the claim it is given.
LEMMA AcquireKeeps ==
  ASSUME IInv, NEW x \in Executors, Acquire(x)
  PROVE  IInv'
<1>1. /\ NewToken \in Tokens /\ NewToken # NoToken /\ fence' = NewToken
      /\ \A w \in Workers : worker[w].token # NewToken
      /\ \A y \in Executors : executor[y].token # NewToken
  BY NewTokenIsNew DEF Acquire
<1>2. /\ status = "RUNNING"
      /\ UNCHANGED <<policy, states, intent, revision, generation, status, worker, operator, faults>>
  BY DEF Acquire, rows
<1>3. PICK i \in Entries :
        executor' = [executor EXCEPT ![x] = [pc |-> "running", token |-> NewToken, entry |-> i]]
  BY DEF Acquire, SetExecutor
<1> HIDE DEF NewToken
<1>4. TypeOK'
  <2>1. [pc |-> "running", token |-> NewToken, entry |-> i] \in ExecutorStates
    BY <1>1 DEF ExecutorStates
  <2> QED
    BY <1>1, <1>2, <1>3, <2>1 DEF IInv, TypeOK, OwnTokens
<1>5. /\ executor'[x].token = NewToken /\ executor'[x].pc = "running"
      /\ \A y \in Executors : y # x => executor'[y] = executor[y]
  BY <1>3 DEF IInv, TypeOK
<1>6. Exclusive'
  BY <1>1, <1>2, <1>5 DEF Exclusive
<1>7. PendingDecisionStillFits' /\ ClaimedRuns' /\ EndingDecidable'
  BY <1>1, <1>2, <1>5 DEF IInv, PendingDecisionStillFits, ClaimedRuns, EndingDecidable
<1>8. NeverUndecidable' /\ RequestDecidable' /\ ClaimedFinalIsEmpty' /\ RequestsAreFresh'
  BY <1>2 DEF IInv, NeverUndecidable, RequestDecidable, ClaimedFinalIsEmpty,
              RequestsAreFresh, FinalInstanceStatuses
<1> QED
  BY <1>4, <1>6, <1>7, <1>8 DEF IInv

\* EntryExecutor.Execute returns: the entry is observed and a completion that
\* DecideEntryCompletion accepts is to be written.
LEMMA EndRunKeeps ==
  ASSUME IInv, NEW x \in Executors, EndRun(x)
  PROVE  IInv'
<1> DEFINE e == executor[x]
<1>1. e.token \in Tokens /\ e.entry \in Entries
  BY ProcessTypes DEF EndRun, IInv
<1>2. PICK executed \in ExecutionOutcomes :
        executor' = [executor EXCEPT ![x] =
          IF CompletionRefused(Observation(e.entry), executed)
            THEN Releasing(e.token)
            ELSE [pc |-> "ending", token |-> e.token, entry |-> e.entry,
                  executed |-> executed, obs |-> Observation(e.entry)]]
  BY DEF EndRun, SetExecutor
<1>3. UNCHANGED <<rows, fence, worker, operator, faults>> /\ faults \in 0..MaxFaults
  BY DEF EndRun, IInv, TypeOK
<1>4. CASE CompletionRefused(Observation(e.entry), executed)
  BY <1>1, <1>2, <1>3, <1>4, ExecutorMovesKeeps DEF Releasing, ExecutorStates
<1>5. CASE ~CompletionRefused(Observation(e.entry), executed)
  <2> DEFINE s == [pc |-> "ending", token |-> e.token, entry |-> e.entry,
                   executed |-> executed, obs |-> Observation(e.entry)]
  <2>1. s \in ExecutorStates
    BY <1>1, ObservationType DEF IInv, ExecutorStates
  <2>2. executor' = [executor EXCEPT ![x] = s]
    BY <1>2, <1>5
  <2>3. s.token = e.token /\ ~CompletionRefused(s.obs, s.executed)
    BY <1>5
  <2> HIDE DEF s
  <2> QED
    BY <1>3, <2>1, <2>2, <2>3, ExecutorMovesKeeps
<1> QED
  BY <1>4, <1>5

\* A completion on an outdated observation is refused and decided anew.
LEMMA RefuseCompletionKeeps ==
  ASSUME IInv, NEW x \in Executors, RefuseCompletion(x)
  PROVE  IInv'
<1> DEFINE e == executor[x]
<1>1. /\ e.pc = "ending" /\ e.token \in Tokens /\ e.entry \in Entries
      /\ e.executed \in ExecutionOutcomes /\ e \in ExecutorStates
  BY ProcessTypes DEF RefuseCompletion, IInv, TypeOK
<1>2. UNCHANGED <<rows, fence, worker, operator, faults>> /\ faults \in 0..MaxFaults
  BY DEF RefuseCompletion, IInv, TypeOK
<1>3. CASE executor' = [executor EXCEPT ![x] = Releasing(e.token)]
  BY <1>1, <1>2, <1>3, ExecutorMovesKeeps DEF Releasing, ExecutorStates
<1>4. CASE /\ ~CompletionRefused(Observation(e.entry), e.executed)
           /\ executor' = [executor EXCEPT ![x] = [e EXCEPT !.obs = Observation(e.entry)]]
  <2> DEFINE s == [e EXCEPT !.obs = Observation(e.entry)]
  <2>1. e \in [pc: {"ending"}, token: Tokens, entry: Entries,
               executed: ExecutionOutcomes, obs: Observations]
    BY <1>1 DEF ExecutorStates, Idle
  <2>2. s = [pc |-> "ending", token |-> e.token, entry |-> e.entry,
             executed |-> e.executed, obs |-> Observation(e.entry)]
    BY <2>1
  <2>3. s \in ExecutorStates
    BY <1>1, <2>2, ObservationType DEF IInv, ExecutorStates
  <2>4. s.token = e.token /\ ~CompletionRefused(s.obs, s.executed)
    BY <1>4, <2>2
  <2>5. executor' = [executor EXCEPT ![x] = s]
    BY <1>4
  <2> HIDE DEF s
  <2> QED
    BY <1>2, <2>3, <2>4, <2>5, ExecutorMovesKeeps
<1> QED
  BY <1>3, <1>4 DEF RefuseCompletion, SetExecutor

\* A completion that commits ends the one RUNNING entry.
LEMMA CommitCompletionKeeps ==
  ASSUME IInv, NEW x \in Executors, CommitCompletion(x)
  PROVE  IInv'
<1> DEFINE i == executor[x].entry
<1>1. /\ fence \in Tokens /\ status \notin FinalInstanceStatuses
      /\ states' \in [Entries -> EntryStates] /\ SerialShape(states', policy)
      /\ intent' = intent /\ revision' = revision + 1 /\ revision' \in 0..MaxRevision
      /\ generation' \in 0..MaxRevision
  BY CompletionEffect
<1>2. /\ executor[x].token = fence
      /\ executor' = [executor EXCEPT ![x] = Releasing(fence)]
      /\ UNCHANGED <<policy, status, fence, worker, operator, faults>>
  BY DEF CommitCompletion, SetExecutor
<1>3. /\ executor'[x] = Releasing(fence)
      /\ \A y \in Executors : y # x => executor'[y] = executor[y]
  BY <1>2 DEF IInv, TypeOK
<1>4. TypeOK'
  <2>1. Releasing(fence) \in ExecutorStates
    BY <1>1 DEF Releasing, ExecutorStates
  <2> QED
    BY <1>1, <1>2, <2>1 DEF IInv, TypeOK
<1>5. Exclusive' /\ EndingDecidable'
  BY <1>2, <1>3 DEF IInv, Exclusive, EndingDecidable, Releasing
<1>6. \A v \in Workers : worker[v].token # fence
  BY <1>1, <1>2, SerialAssumption DEF IInv, Exclusive
<1>7. PendingDecisionStillFits' /\ ClaimedRuns'
  BY <1>2, <1>6 DEF PendingDecisionStillFits, ClaimedRuns
<1>8. NeverUndecidable' /\ ClaimedFinalIsEmpty' /\ RequestDecidable'
  BY <1>1, <1>2 DEF IInv, NeverUndecidable, ClaimedFinalIsEmpty, RequestDecidable
<1>9. RequestsAreFresh'
  <2>1. revision \in Nat
    BY DEF IInv, TypeOK
  <2>2. \A o \in Operators : operator[o].pc = "requesting" => operator[o].obs.revision \in Nat
    BY ProcessTypes DEF IInv, Observations
  <2> QED
    BY <1>1, <1>2, <2>1, <2>2 DEF IInv, RequestsAreFresh
<1> QED
  BY <1>4, <1>5, <1>7, <1>8, <1>9 DEF IInv

\* Abort requests observe, and write the counters only.
LEMMA OperatorKeeps ==
  ASSUME IInv, NEW o \in Operators, ObserveAbort(o) \/ CommitAbort(o) \/ DropAbort(o)
  PROVE  IInv'
<1>1. UNCHANGED <<policy, states, status, fence, worker, executor, faults>>
  BY DEF ObserveAbort, CommitAbort, DropAbort, rows
<1>2. /\ revision \in 0..MaxRevision /\ MaxRevision \in Nat
      /\ revision' \in 0..MaxRevision /\ revision' >= revision
      /\ generation' \in 0..MaxRevision /\ intent' \in TerminalIntents
      /\ revision' = revision \/ revision' = revision + 1
  <2>1. CASE ObserveAbort(o) \/ DropAbort(o)
    BY <2>1, MaxRevisionAssumption DEF ObserveAbort, DropAbort, rows, IInv, TypeOK
  <2>2. CASE CommitAbort(o)
    BY <2>2, AbortEffect, MaxRevisionAssumption DEF IInv, TypeOK, TerminalIntents
  <2> QED
    BY <2>1, <2>2
<1>3. PICK s \in OperatorStates :
        /\ operator' = [operator EXCEPT ![o] = s]
        /\ s.pc = "requesting" => /\ ~AbortRefused(s.obs)
                                  /\ s.obs = Observation(s.entry)
                                  /\ revision' = revision
  <2>1. CASE CommitAbort(o) \/ DropAbort(o)
    BY <2>1 DEF CommitAbort, DropAbort, SetOperator, OperatorStates, Idle
  <2>2. CASE ObserveAbort(o)
    <3>1. PICK i \in Entries :
            /\ ~AbortRefused(Observation(i))
            /\ operator' = [operator EXCEPT ![o] =
                 [pc |-> "requesting", token |-> fence, entry |-> i, obs |-> Observation(i)]]
      BY <2>2 DEF ObserveAbort, SetOperator
    <3>2. [pc |-> "requesting", token |-> fence, entry |-> i, obs |-> Observation(i)]
            \in OperatorStates
      BY ObservationType DEF IInv, TypeOK, OperatorStates
    <3> QED
      BY <2>2, <3>1, <3>2 DEF ObserveAbort, rows
  <2> QED
    BY <2>1, <2>2
<1>4. operator'[o] = s /\ \A p \in Operators : p # o => operator'[p] = operator[p]
  BY <1>3 DEF IInv, TypeOK
<1>5. TypeOK'
  BY <1>1, <1>2, <1>3 DEF IInv, TypeOK
<1>6. RequestDecidable'
  BY <1>3, <1>4 DEF IInv, RequestDecidable
<1>7. RequestsAreFresh'
  <2>1. ASSUME s.pc = "requesting"
        PROVE  s.obs.revision = revision /\ states[s.entry].status = "RUNNING"
    BY <1>3, <2>1 DEF Observation, AbortRefused
  <2>2. \A p \in Operators : operator[p].pc = "requesting" => operator[p].obs.revision \in Nat
    BY ProcessTypes DEF IInv, Observations
  <2> QED
    BY <1>1, <1>2, <1>3, <1>4, <2>1, <2>2 DEF IInv, RequestsAreFresh
<1>8. /\ NeverUndecidable' /\ Exclusive' /\ EndingDecidable' /\ PendingDecisionStillFits'
      /\ ClaimedRuns' /\ ClaimedFinalIsEmpty'
  BY <1>1 DEF IInv, NeverUndecidable, Exclusive, EndingDecidable, PendingDecisionStillFits,
              ClaimedRuns, ClaimedFinalIsEmpty
<1> QED
  BY <1>5, <1>6, <1>7, <1>8 DEF IInv

\* The claim ends under whoever holds it; an instance command ends the
\* instance with it.
LEMMA ClaimEndsKeeps ==
  ASSUME IInv, fence' = NoToken, status' \in InstanceStatuses, faults' \in 0..MaxFaults,
         UNCHANGED <<policy, states, intent, revision, generation, processes>>
  PROVE  IInv'
<1>1. UNCHANGED <<worker, executor, operator>>
  BY DEF processes
<1>2. TypeOK'
  BY <1>1 DEF IInv, TypeOK, OwnTokens
<1>3. \A w \in Workers : worker[w].pc \in {"claimed", "decided"} => worker[w].token # NoToken
  BY ProcessTypes, SerialAssumption DEF IInv
<1>4. Exclusive' /\ PendingDecisionStillFits' /\ ClaimedRuns' /\ ClaimedFinalIsEmpty'
  BY <1>1, <1>3 DEF Exclusive, PendingDecisionStillFits, ClaimedRuns, ClaimedFinalIsEmpty
<1>5. NeverUndecidable' /\ EndingDecidable' /\ RequestDecidable' /\ RequestsAreFresh'
  BY <1>1 DEF IInv, NeverUndecidable, EndingDecidable, RequestDecidable, RequestsAreFresh
<1> QED
  BY <1>2, <1>4, <1>5 DEF IInv

-----------------------------------------------------------------------------
(* The invariant *)

\* A created instance: nobody holds a claim and every entry is PENDING.
LEMMA InitEstablishes ==
  ASSUME Init
  PROVE  IInv
<1>1. \A i \in Entries : states[i] = [status |-> "PENDING", cause |-> NoCause]
  BY DEF Init
<1>2. states \in [Entries -> EntryStates]
  BY DEF Init, EntryStates, EntryStatuses
<1>3. TypeOK
  <2>1. status \in InstanceStatuses
    BY DEF Init, InstanceStatuses
  <2> QED
    BY <1>2, <2>1, MaxRevisionAssumption, SerialAssumption
    DEF Init, TypeOK, OwnTokens, WorkerStates, ExecutorStates, OperatorStates, TerminalIntents
<1>4. NeverUndecidable
  <2>1. DOMAIN states = Entries
    BY <1>2
  <2>2. \A i \in Entries : ~Stops(states[i].status, policy)
    BY <1>1, StopsMeaning
  <2>3. \A i \in Entries : states[i].status = "PENDING" /\ states[i].cause = NoCause
    BY <1>1
  <2> QED
    BY <2>1, <2>2, <2>3 DEF NeverUndecidable, SerialShape, EntryStatuses
<1>5. /\ Exclusive /\ EndingDecidable /\ RequestDecidable /\ PendingDecisionStillFits
      /\ ClaimedRuns /\ ClaimedFinalIsEmpty /\ RequestsAreFresh
  BY DEF Init, Idle, Exclusive, EndingDecidable, RequestDecidable, PendingDecisionStillFits,
         ClaimedRuns, ClaimedFinalIsEmpty, RequestsAreFresh
<1> QED
  BY <1>3, <1>4, <1>5 DEF IInv

\* Every step of Next preserves the inductive invariant.
LEMMA StepPreserves ==
  ASSUME IInv, [Next]_vars
  PROVE  IInv'
<1>0. Idle \in WorkerStates /\ Idle \in ExecutorStates /\ Idle.pc = "idle" /\ Idle.token = NoToken
  BY DEF Idle, WorkerStates, ExecutorStates
<1>1. faults \in 0..MaxFaults /\ MaxFaults \in Nat /\ (Fault => faults' \in 0..MaxFaults)
  BY SerialAssumption DEF IInv, TypeOK, Fault
<1>2. ASSUME NEW w \in Workers, RefuseDecision(w) \/ FailWorker(w)
      PROVE  IInv'
  <2>1. Releasing(worker[w].token) \in WorkerStates
    BY <1>2, ProcessTypes DEF IInv, RefuseDecision, FailWorker, Releasing, WorkerStates
  <2>2. /\ worker' = [worker EXCEPT ![w] = Releasing(worker[w].token)]
        /\ UNCHANGED <<rows, fence, executor, operator>> /\ faults' \in 0..MaxFaults
    BY <1>1, <1>2 DEF RefuseDecision, FailWorker, SetWorker
  <2> QED
    BY <2>1, <2>2, WorkerLeavesKeeps
<1>3. ASSUME NEW w \in Workers, ReleaseWorker(w) \/ CrashWorker(w)
      PROVE  IInv'
  <2>1. /\ worker' = [worker EXCEPT ![w] = Idle] /\ fence' \in {fence, NoToken}
        /\ UNCHANGED <<rows, executor, operator>> /\ faults' \in 0..MaxFaults
    BY <1>1, <1>3 DEF ReleaseWorker, CrashWorker, SetWorker
  <2> QED
    BY <1>0, <2>1, WorkerLeavesKeeps
<1>4. ASSUME NEW x \in Executors, ReleaseExecutor(x) \/ CrashExecutor(x)
      PROVE  IInv'
  <2>1. /\ executor' = [executor EXCEPT ![x] = Idle] /\ fence' \in {fence, NoToken}
        /\ UNCHANGED <<rows, worker, operator>> /\ faults' \in 0..MaxFaults
    BY <1>1, <1>4 DEF ReleaseExecutor, CrashExecutor, SetExecutor
  <2> QED
    BY <1>0, <2>1, ExecutorMovesKeeps
<1>5. CASE EndInstance \/ TakeBack \/ Lapse
  <2>1. /\ fence' = NoToken /\ status' \in InstanceStatuses /\ faults' \in 0..MaxFaults
        /\ UNCHANGED <<policy, states, intent, revision, generation, processes>>
    BY <1>1, <1>5 DEF EndInstance, TakeBack, Lapse, InstanceStatuses, IInv, TypeOK, rows
  <2> QED
    BY <2>1, ClaimEndsKeeps
<1>6. CASE UNCHANGED vars
  BY <1>6 DEF vars, rows, processes, IInv, TypeOK, NeverUndecidable, Exclusive, EndingDecidable,
              RequestDecidable, PendingDecisionStillFits, ClaimedRuns, ClaimedFinalIsEmpty,
              RequestsAreFresh
<1>7. ASSUME NEW w \in Workers, WorkerStep(w) \/ FailWorker(w) \/ CrashWorker(w)
      PROVE  IInv'
  BY <1>2, <1>3, <1>7, ClaimNextKeeps, DecideKeeps, ApplyDecisionKeeps DEF WorkerStep
<1>8. ASSUME NEW x \in Executors, ExecutorStep(x) \/ CrashExecutor(x)
      PROVE  IInv'
  BY <1>4, <1>8, AcquireKeeps, EndRunKeeps, CommitCompletionKeeps, RefuseCompletionKeeps
  DEF ExecutorStep
<1> QED
  BY <1>5, <1>6, <1>7, <1>8, OperatorKeeps DEF Next

\* The inductive invariant holds in every behaviour of an instance.
THEOREM InvariantHolds == Spec => []IInv
  BY InitEstablishes, StepPreserves, PTL DEF Spec

-----------------------------------------------------------------------------
(* What it gives *)

\* Every row and every process keeps its type: no counter passes the largest
\* revision, whatever completes and aborts at the limit.
THEOREM TypesHold == Spec => []TypeOK
<1>1. IInv => TypeOK
  BY DEF IInv
<1> QED
  BY <1>1, InvariantHolds, PTL

\* DecideAdvance never meets a vector that it refuses.
THEOREM NeverStuck == Spec => []NeverUndecidable
<1>1. IInv => NeverUndecidable
  BY DEF IInv
<1> QED
  BY <1>1, InvariantHolds, PTL

\* What a claim's owner has decided stays what DecideAdvance would decide, for
\* as long as the claim is in force: ApplyDecision need not compare the entries.
THEOREM DecisionsFit == Spec => []PendingDecisionStillFits
<1>1. IInv => PendingDecisionStillFits
  BY DEF IInv
<1> QED
  BY <1>1, InvariantHolds, PTL

\* Entries run one at a time, in plan order, and none after one that stops the
\* plan, with any number of coordinators, executors, crashes and lapses.
THEOREM RunsSerially == Spec => []SerialExecution
<1>1. ASSUME IInv PROVE SerialExecution
  <2>1. /\ N \in Nat /\ states \in [1..N -> EntryStates] /\ SerialShape(states, policy)
        /\ Entries = 1..N
    BY <1>1, SerialAssumption DEF IInv, TypeOK, NeverUndecidable, Entries
  <2>2. DOMAIN states = 1..N /\ \A i \in 1..N : states[i].status \in EntryStatuses
    BY <2>1 DEF EntryStates
  <2>3. ASSUME NEW i \in 1..N, NEW j \in 1..N, i < j,
               states[j].status \notin {"PENDING", "SKIPPED"}
        PROVE  states[i].status \in {"SUCCEEDED", "FAILED"}
    <3>1. \A k \in 1..N : k < j => ~Stops(states[k].status, policy)
      BY <2>2, <2>1, <2>3 DEF SerialShape
    <3>2. ~StoppedBefore(states, policy, i)
      BY <2>1, <2>2, <2>3, <3>1 DEF StoppedBefore
    <3>3. states[i].status \notin {"PENDING", "RUNNING", "SKIPPED"}
      BY <2>1, <2>2, <2>3, <3>2 DEF SerialShape
    <3>4. states[i].status \notin {"CANCELED", "ABORTED"}
      BY <2>3, <3>1, StopsMeaning
    <3> QED
      BY <2>2, <3>3, <3>4 DEF EntryStatuses
  <2>4. ASSUME NEW i \in 1..N, NEW j \in 1..N, i < j,
               states[i].status = "FAILED", policy = "STOP_ON_FAILURE"
        PROVE  states[j].status \in {"PENDING", "SKIPPED"}
    <3>1. Stops(states[i].status, policy)
      BY <2>4, StopsMeaning
    <3> QED
      BY <2>1, <2>4, <3>1, StopperIsLast
  <2> QED
    BY <2>1, <2>3, <2>4 DEF SerialExecution
<1> QED
  BY <1>1, InvariantHolds, PTL

-----------------------------------------------------------------------------
\* The steps that write the instance's rows; every other step leaves them.
LEMMA WritersOfRows ==
  ASSUME [Next]_vars
  PROVE  \/ UNCHANGED rows
         \/ \E w \in Workers : ClaimNext(w) \/ ApplyDecision(w)
         \/ \E x \in Executors : CommitCompletion(x)
         \/ \E o \in Operators : CommitAbort(o)
         \/ EndInstance
<1>1. ASSUME NEW w \in Workers, WorkerStep(w) \/ FailWorker(w) \/ CrashWorker(w)
      PROVE  UNCHANGED rows \/ ClaimNext(w) \/ ApplyDecision(w)
  BY <1>1 DEF WorkerStep, Decide, RefuseDecision, ReleaseWorker, FailWorker, CrashWorker
<1>2. ASSUME NEW x \in Executors, ExecutorStep(x) \/ CrashExecutor(x)
      PROVE  UNCHANGED rows \/ CommitCompletion(x)
  BY <1>2 DEF ExecutorStep, Acquire, EndRun, RefuseCompletion, ReleaseExecutor, CrashExecutor
<1>3. ASSUME NEW o \in Operators, ObserveAbort(o) \/ CommitAbort(o) \/ DropAbort(o)
      PROVE  UNCHANGED rows \/ CommitAbort(o)
  BY <1>3 DEF ObserveAbort, DropAbort
<1>4. CASE TakeBack \/ Lapse \/ UNCHANGED vars
  BY <1>4 DEF TakeBack, Lapse, vars
<1> QED
  BY <1>1, <1>2, <1>3, <1>4 DEF Next

\* An instance that is over never changes again, although old owners of its
\* claim, and abort requests that compare no status, are still at work.
THEOREM OverIsOver == Spec => FinalInstanceIsFrozen
<1>1. ASSUME IInv, [Next]_vars, status \in FinalInstanceStatuses
      PROVE  UNCHANGED rows
  <2>1. status \notin {"QUEUED", "RUNNING"}
    BY <1>1 DEF FinalInstanceStatuses
  <2>2. ~EndInstance /\ \A w \in Workers : ~ClaimNext(w)
    BY <2>1 DEF EndInstance, ClaimNext
  <2>3. /\ \A w \in Workers : ~ApplyDecision(w)
        /\ \A x \in Executors : ~CommitCompletion(x)
        /\ \A o \in Operators : ~CommitAbort(o)
    BY <1>1, <2>1, ApplyEffect, CompletionEffect, AbortEffect
  <2> QED
    BY <1>1, <2>2, <2>3, WritersOfRows
<1>2. IInv /\ [Next]_vars => [(status \in FinalInstanceStatuses) => UNCHANGED rows]_vars
  BY <1>1
<1> QED
  BY <1>2, InvariantHolds, PTL DEF Spec, FinalInstanceIsFrozen

\* No interleaving starts an entry twice, ends it twice, or moves it back.
THEOREM EntriesMoveForward == Spec => EntriesFollowTheMachine
<1> DEFINE Follows == \A i \in Entries : states'[i].status # states[i].status
                        => <<states[i].status, states'[i].status>> \in EntryEdges
<1>1. ASSUME IInv, [Next]_vars PROVE Follows
  <2>1. CASE states' = states
    BY <2>1
  <2>2. ASSUME NEW w \in Workers, ApplyDecision(w) PROVE Follows
    <3>1. \A i \in Entries : \/ states'[i] = states[i]
                             \/ /\ states[i].status = "PENDING"
                                /\ states'[i].status \in {"RUNNING", "SKIPPED"}
      BY <1>1, <2>2, ApplyEffect
    <3> QED
      BY <3>1 DEF EntryEdges
  <2>3. ASSUME NEW x \in Executors, CommitCompletion(x) PROVE Follows
    <3>1. /\ states[executor[x].entry].status = "RUNNING"
          /\ states'[executor[x].entry].status \in FinalInstanceStatuses
          /\ \A j \in Entries : j # executor[x].entry => states'[j] = states[j]
      BY <1>1, <2>3, CompletionEffect
    <3> QED
      BY <3>1 DEF EntryEdges, FinalInstanceStatuses
  <2>4. CASE \/ UNCHANGED rows \/ EndInstance
             \/ \E w \in Workers : ClaimNext(w)
             \/ \E o \in Operators : CommitAbort(o)
    <3>1. states' = states
      BY <2>4 DEF rows, EndInstance, ClaimNext, CommitAbort
    <3> QED
      BY <3>1
  <2> HIDE DEF Follows
  <2> QED
    BY <1>1, <2>2, <2>3, <2>4, WritersOfRows
<1>2. IInv /\ [Next]_vars => [Follows]_vars
  BY <1>1
<1> QED
  BY <1>2, InvariantHolds, PTL DEF Spec, EntriesFollowTheMachine

\* An entry that did not finish ends as the terminal intent in force calls for,
\* however long ago its completion observed that intent.
THEOREM IntentNamesTheEnd == Spec => IntentInForceDecides
<1> DEFINE Called == CASE intent = "NONE"   -> "FAILED"
                       [] intent = "CANCEL" -> "CANCELED"
                       [] intent = "ABORT"  -> "ABORTED"
           Ends == \A i \in Entries :
                     (states[i].status = "RUNNING" /\ states'[i].status \notin {"RUNNING", "SUCCEEDED"})
                       => states'[i].status = Called
<1>1. ASSUME IInv, [Next]_vars PROVE Ends
  <2>1. ASSUME NEW w \in Workers, ApplyDecision(w) PROVE Ends
    <3>1. \A i \in Entries : states'[i] = states[i] \/ states[i].status = "PENDING"
      BY <1>1, <2>1, ApplyEffect
    <3> QED
      BY <3>1
  <2>2. ASSUME NEW x \in Executors, CommitCompletion(x) PROVE Ends
    <3>1. /\ states'[executor[x].entry].status = TerminalStatusOf(intent, executor[x].executed)
          /\ \A j \in Entries : j # executor[x].entry => states'[j] = states[j]
      BY <1>1, <2>2, CompletionEffect
    <3>2. intent \in TerminalIntents /\ executor[x].executed \in ExecutionOutcomes
      BY <1>1, <2>2, ProcessTypes DEF IInv, TypeOK, CommitCompletion
    <3>3. TerminalStatusOf(intent, executor[x].executed) # "SUCCEEDED"
            => TerminalStatusOf(intent, executor[x].executed) = Called
      BY <3>2, TerminalStatusMeaning
    <3> HIDE DEF Called
    <3> QED
      BY <3>1, <3>3
  <2>3. CASE \/ UNCHANGED rows \/ EndInstance
             \/ \E w \in Workers : ClaimNext(w)
             \/ \E o \in Operators : CommitAbort(o)
    <3>1. states' = states
      BY <2>3 DEF rows, EndInstance, ClaimNext, CommitAbort
    <3> QED
      BY <3>1
  <2> HIDE DEF Ends
  <2> QED
    BY <1>1, <2>1, <2>2, <2>3, WritersOfRows
<1>2. IInv /\ [Next]_vars => [Ends]_vars
  BY <1>1
<1> QED
  BY <1>2, InvariantHolds, PTL DEF Spec, IntentInForceDecides

-----------------------------------------------------------------------------
\* The final status that scheduling writes is borne out by the entries, and
\* stays so: nothing runs, and nothing is written, after it.
THEOREM FinalStatusHolds == Spec => []FinalStatusIsEarned
<1>1. ASSUME Init PROVE FinalStatusIsEarned
  BY <1>1 DEF Init, FinalStatusIsEarned
<1>2. ASSUME IInv, FinalStatusIsEarned, [Next]_vars PROVE FinalStatusIsEarned'
  <2>1. CASE UNCHANGED rows
    BY <1>2, <2>1 DEF rows, FinalStatusIsEarned
  <2>2. CASE EndInstance \/ \E w \in Workers : ClaimNext(w)
    <3>1. status' \notin {"SUCCEEDED", "FAILED"}
      BY <2>2 DEF EndInstance, ClaimNext
    <3> QED
      BY <3>1 DEF FinalStatusIsEarned
  <2>3. CASE (\E x \in Executors : CommitCompletion(x)) \/ \E o \in Operators : CommitAbort(o)
    <3>1. status \notin FinalInstanceStatuses /\ status' = status
      BY <1>2, <2>3, CompletionEffect, AbortEffect DEF CommitCompletion, CommitAbort
    <3> QED
      BY <3>1 DEF FinalStatusIsEarned, FinalInstanceStatuses
  <2>4. ASSUME NEW w \in Workers, ApplyDecision(w) PROVE FinalStatusIsEarned'
    <3> DEFINE d == worker[w].decision
    <3>1. status = "RUNNING" /\ Decides(states, policy, d)
      BY <1>2, <2>4, ApplyEffect
    <3>2. /\ states' = Applied(states, d)
          /\ status' = IF d.final = NoStatus THEN status ELSE d.final
      BY <2>4 DEF ApplyDecision
    <3>3. /\ N \in Nat /\ states \in [1..N -> EntryStates] /\ SerialShape(states, policy)
          /\ policy \in Policies /\ Entries = 1..N
      BY <1>2, SerialAssumption DEF IInv, TypeOK, NeverUndecidable, Entries
    <3>4. ASSUME status' \in {"SUCCEEDED", "FAILED"}
          PROVE  /\ \A i \in Entries : states'[i].status \in {"SUCCEEDED", "FAILED", "SKIPPED"}
                 /\ status' = "SUCCEEDED" <=> \A i \in Entries : states'[i].status = "SUCCEEDED"
      <4>1. d.final \in {"SUCCEEDED", "FAILED"} /\ status' = d.final
        BY <3>1, <3>2, <3>4
      <4> HIDE DEF d
      <4> QED
        BY <3>1, <3>2, <3>3, <4>1, FinalIsEarned
    <3> QED
      BY <3>4 DEF FinalStatusIsEarned, TerminalEntryStatuses
  <2> QED
    BY <1>2, <2>1, <2>2, <2>3, <2>4, WritersOfRows
<1> QED
  BY <1>1, <1>2, InvariantHolds, PTL DEF Spec

\* No write to the terminal-intent counters is lost or made twice, by any number
\* of completions and abort requests that race each other.
THEOREM WritesAreCounted == Spec => []EveryWriteIsCounted
<1> DEFINE Ended == {i \in Entries : states[i].status \in TerminalEntryStatuses \ {"SKIPPED"}}
           Carried == {i \in Entries : states[i].status \in {"CANCELED", "ABORTED"}}
           Abort == IF intent = "ABORT" THEN 1 ELSE 0
<1>1. EveryWriteIsCounted <=> /\ revision = Cardinality(Ended) + Abort
                              /\ generation = Cardinality(Carried)
  BY DEF EveryWriteIsCounted
<1>2. IsFiniteSet(Ended) /\ IsFiniteSet(Carried)
  <2>1. IsFiniteSet(Entries)
    BY FS_Interval, SerialAssumption DEF Entries
  <2> QED
    BY <2>1, FS_Subset
<1>3. Cardinality(Ended) \in Nat /\ Cardinality(Carried) \in Nat
  BY <1>2, FS_CardinalityType
<1>4. ASSUME Init PROVE EveryWriteIsCounted
  <2>1. Ended = {} /\ Carried = {} /\ Abort = 0 /\ revision = 0 /\ generation = 0
    BY <1>4 DEF Init, TerminalEntryStatuses
  <2>2. Cardinality({}) = 0
    BY FS_EmptySet
  <2> HIDE DEF Ended, Carried, Abort
  <2> QED
    BY <1>1, <2>1, <2>2
<1>5. ASSUME IInv, EveryWriteIsCounted, [Next]_vars PROVE EveryWriteIsCounted'
  <2>1. CASE UNCHANGED rows
    BY <1>5, <2>1 DEF rows, EveryWriteIsCounted
  <2>2. CASE EndInstance \/ \E w \in Workers : ClaimNext(w)
    <3>1. UNCHANGED <<states, intent, revision, generation>>
      BY <2>2 DEF EndInstance, ClaimNext
    <3> QED
      BY <1>5, <3>1 DEF EveryWriteIsCounted
  <2>3. ASSUME NEW w \in Workers, ApplyDecision(w) PROVE EveryWriteIsCounted'
    <3>1. \A i \in Entries : \/ states'[i] = states[i]
                             \/ /\ states[i].status = "PENDING"
                                /\ states'[i].status \in {"RUNNING", "SKIPPED"}
      BY <1>5, <2>3, ApplyEffect
    <3>2. Ended' = Ended /\ Carried' = Carried
      BY <3>1 DEF TerminalEntryStatuses
    <3>3. UNCHANGED <<intent, revision, generation>>
      BY <2>3 DEF ApplyDecision
    <3> HIDE DEF Ended, Carried
    <3> QED
      BY <1>1, <1>5, <3>2, <3>3 DEF EveryWriteIsCounted, Ended, Carried
  <2>4. ASSUME NEW o \in Operators, CommitAbort(o) PROVE EveryWriteIsCounted'
    <3>1. /\ intent # "ABORT" /\ intent' = "ABORT" /\ revision' = revision + 1
          /\ generation' = generation /\ states' = states
      BY <1>5, <2>4, AbortEffect DEF CommitAbort
    <3>2. Ended' = Ended /\ Carried' = Carried /\ Abort = 0 /\ Abort' = 1
      BY <3>1
    <3>3. revision' = Cardinality(Ended)' + Abort' /\ generation' = Cardinality(Carried)'
      BY <1>1, <1>3, <1>5, <3>1, <3>2
    <3> QED
      BY <3>3 DEF EveryWriteIsCounted
  <2>5. ASSUME NEW x \in Executors, CommitCompletion(x) PROVE EveryWriteIsCounted'
    <3> DEFINE i == executor[x].entry
               s == states'[i].status
    <3>1. /\ i \in Entries /\ states[i].status = "RUNNING" /\ s \in FinalInstanceStatuses
          /\ \A j \in Entries : j # i => states'[j] = states[j]
          /\ intent' = intent /\ revision' = revision + 1
          /\ generation' = generation + (IF SpendsGeneration(s) THEN 1 ELSE 0)
      BY <1>5, <2>5, CompletionEffect
    <3>2. Ended' = Ended \cup {i} /\ i \notin Ended /\ i \notin Carried
      BY <3>1 DEF FinalInstanceStatuses, TerminalEntryStatuses
    <3>3. Carried' = IF SpendsGeneration(s) THEN Carried \cup {i} ELSE Carried
      <4>1. CASE s \in {"CANCELED", "ABORTED"}
        BY <3>1, <4>1 DEF SpendsGeneration
      <4>2. CASE s \notin {"CANCELED", "ABORTED"}
        BY <3>1, <4>2 DEF SpendsGeneration
      <4> QED
        BY <4>1, <4>2
    <3>4. /\ Cardinality(Ended') = Cardinality(Ended) + 1
          /\ Cardinality(Carried') = Cardinality(Carried) + (IF SpendsGeneration(s) THEN 1 ELSE 0)
      <4> HIDE DEF Ended, Carried, i, s
      <4>1. Cardinality(Ended \cup {i}) = Cardinality(Ended) + 1
        BY <1>2, <3>2, FS_AddElement
      <4>2. Cardinality(Carried \cup {i}) = Cardinality(Carried) + 1
        BY <1>2, <3>2, FS_AddElement
      <4>3. Cardinality(Ended') = Cardinality(Ended) + 1
        BY <3>2, <4>1
      <4>4. CASE SpendsGeneration(s)
        BY <3>3, <4>2, <4>3, <4>4
      <4>5. CASE ~SpendsGeneration(s)
        BY <1>3, <3>3, <4>3, <4>5
      <4> QED
        BY <4>4, <4>5
    <3>5. revision' = Cardinality(Ended') + Abort' /\ generation' = Cardinality(Carried')
      BY <1>1, <1>3, <1>5, <3>1, <3>4
    <3> QED
      BY <3>5 DEF EveryWriteIsCounted
  <2> QED
    BY <1>5, <2>1, <2>2, <2>3, <2>4, <2>5, WritersOfRows
<1> QED
  BY <1>4, <1>5, InvariantHolds, PTL DEF Spec

\* The serial contract holds whatever the coordinator, the workers and the commands
\* interleave, for every plan (DecideAdvance, DecideEntryCompletion).
THEOREM ContractHolds == Spec => []SerialContract
<1> QED
  BY TypesHold, NeverStuck, RunsSerially, DecisionsFit, WritesAreCounted, FinalStatusHolds, PTL
  DEF SerialContract

\* No step of any actor moves a row where the machines, the intent in force or the
\* end of the instance forbid it (the compare-and-swap writes of the host's rows).
THEOREM RowsAreGuarded == Spec => RowsMoveAsAllowed
<1> QED
  BY EntriesMoveForward, IntentNamesTheEnd, OverIsOver DEF RowsMoveAsAllowed
=============================================================================
