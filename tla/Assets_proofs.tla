----------------------------- MODULE Assets_proofs -----------------------------
(***************************************************************************)
(* Proofs of how assets are kept: whatever callers do at once and whichever *)
(* answers are lost, the asset services change the store as AssetRegister   *)
(* does and no request takes effect twice; publications and edits of the    *)
(* same targets leave histories whole and the references of flows live; and *)
(* the steps of what is published can be frozen and compiled.               *)
(***************************************************************************)
EXTENDS AssetServices, SamplingPublication, StepShape, FiniteSetTheorems, SequenceTheorems,
        WellFoundedInduction, TLAPS

\* What can be stored: something with a revision, 0 when nothing is there.
Counted(a) == "revision" \in DOMAIN a /\ a.revision \in Nat
Stored == DOMAIN store = Assets /\ \A x \in Assets : Counted(store[x])

Fields == {"at", "request", "expected", "current", "next", "code", "lost", "commits"}
\* The call of a caller, as far as the proofs look into it.
CallTyped(k) ==
  /\ DOMAIN k = Fields
  /\ k.at \in {"IDLE", "LOAD", "SAVE", "DONE"}
  /\ k.expected \in Nat /\ k.commits \in {0, 1} /\ k.lost \in BOOLEAN
  /\ k.at # "IDLE" => k.request \in Requests
Called == DOMAIN call = Callers /\ \A c \in Callers : CallTyped(call[c])

\* What a caller is about to save is what the operation makes of the asset it
\* loaded, and the store has that asset still or is further.
ReadyIn(k, a) ==
  k.at = "SAVE" =>
    IF k.request.op = "CREATE" THEN Make(k.request).ok /\ k.next = Make(k.request).value
    ELSE /\ k.current # Absent /\ k.current.revision = k.expected
         /\ Change(k.request, k.current).ok
         /\ k.next = Change(k.request, k.current).value
         /\ a = k.current \/ a.revision > k.expected
Ready == \A c \in Callers : ReadyIn(call[c], store[call[c].request.asset])

\* What took effect cannot do so again: the store is past what it was asked of.
SpentIn(k, a) ==
  k.commits = 1 => IF k.request.op = "CREATE" THEN a.revision > 0 ELSE a.revision > k.expected
Spent ==
  \A c \in Callers :
    /\ call[c].commits = 1 => call[c].at # "IDLE"
    /\ SpentIn(call[c], store[call[c].request.asset])

\* Before the first answer nothing has taken effect.
Told ==
  \A c \in Callers :
    /\ call[c].at \in {"LOAD", "SAVE"} /\ ~call[c].lost => call[c].commits = 0
    /\ call[c].at = "DONE" /\ call[c].code = "OK" => call[c].commits = 1
    /\ call[c].at = "DONE" /\ call[c].code \notin {"OK", "UNKNOWN"} /\ ~call[c].lost =>
         call[c].commits = 0

IInv == Stored /\ Called /\ Ready /\ Spent /\ Told

-----------------------------------------------------------------------------
\* A request names an asset, an operation its kind has, and one is stored under it.
LEMMA RequestKinds ==
  ASSUME NEW q \in Requests
  PROVE  /\ q.asset \in Assets
         /\ KindOf[q.asset] \in Kinds
         /\ KindOf[q.asset] = "ENVIRONMENT" => q.op \in {"CREATE", "UPDATE", "DELETE", "RESTORE"}
         /\ KindOf[q.asset] = "FRAGMENT" => q.op \in {"CREATE", "UPDATE", "DELETE", "RESTORE", "PUBLISH"}
         /\ KindOf[q.asset] = "FLOW" => q.op \in {"CREATE", "PUBLISH"}
  BY RequestsAssumption, KindsAssumption DEF OpsOf, Kinds

LEMMA RevisionStep ==
  ASSUME NEW r \in Nat, RevisionNext(r).ok
  PROVE  r # 0 /\ RevisionNext(r).value = r + 1
  BY DEF RevisionNext, Rejected, Done

\* A new asset has revision 1.
LEMMA MakeCounts ==
  ASSUME NEW q \in Requests, Make(q).ok
  PROVE  Counted(Make(q).value) /\ Make(q).value.revision = 1
<1>1. CASE KindOf[q.asset] = "ENVIRONMENT"
  BY <1>1 DEF Make, NewEnvironment, Counted, Done, Rejected
<1>2. CASE KindOf[q.asset] = "FRAGMENT"
  <2>1. Make(q) = NewElementTarget(q.asset, q.version, q.at)
    BY <1>2 DEF Make
  <2> QED
    BY <2>1 DEF NewElementTarget, Counted, Done, Rejected
<1>3. CASE KindOf[q.asset] = "FLOW"
  <2>1. Make(q) = NewExecutionFlow(q.asset, q.version, q.at)
    BY <1>3 DEF Make
  <2> QED
    BY <2>1 DEF NewExecutionFlow, Counted, Done, Rejected
<1> QED
  BY <1>1, <1>2, <1>3, RequestKinds DEF Kinds

\* A change takes an asset one revision further.
LEMMA AdvanceCounts ==
  ASSUME NEW a, NEW b, NEW at, Counted(a), DOMAIN b = DOMAIN a, Advance(a, b, at).ok
  PROVE  Counted(Advance(a, b, at).value) /\ Advance(a, b, at).value.revision = a.revision + 1
<1>1. RevisionNext(a.revision).ok
  BY DEF Advance, Rejected
<1>2. RevisionNext(a.revision).value = a.revision + 1
  BY <1>1, RevisionStep DEF Counted
<1>3. Advance(a, b, at).value = [b EXCEPT !.updated = at, !.revision = RevisionNext(a.revision).value]
  BY DEF Advance, Rejected, Done
<1> QED
  BY <1>2, <1>3 DEF Counted

LEMMA AdvanceEnvironmentCounts ==
  ASSUME NEW a, NEW b, NEW at, Counted(a), DOMAIN b = DOMAIN a, AdvanceEnvironment(a, b, at).ok
  PROVE  /\ Counted(AdvanceEnvironment(a, b, at).value)
         /\ AdvanceEnvironment(a, b, at).value.revision = a.revision + 1
<1>1. RevisionNext(a.revision).ok
  BY DEF AdvanceEnvironment, Rejected
<1>2. RevisionNext(a.revision).value = a.revision + 1
  BY <1>1, RevisionStep DEF Counted
<1>3. AdvanceEnvironment(a, b, at).value
        = [b EXCEPT !.updated = at, !.revision = RevisionNext(a.revision).value]
  BY DEF AdvanceEnvironment, Rejected, Done
<1> QED
  BY <1>2, <1>3 DEF Counted

LEMMA PublishCounts ==
  ASSUME NEW a, NEW version, NEW at, Counted(a), PublishVersion(a, version, at).ok
  PROVE  /\ Counted(PublishVersion(a, version, at).value)
         /\ PublishVersion(a, version, at).value.revision = a.revision + 1
<1>1. RevisionNext(a.revision).ok
  BY DEF PublishVersion, Rejected
<1>2. RevisionNext(a.revision).value = a.revision + 1
  BY <1>1, RevisionStep DEF Counted
<1> DEFINE v == Version(version, a.id, nextNodeVersion(a).value)
<1>3. PublishVersion(a, version, at).value
        = [a EXCEPT !.pointer = version, !.current = v, !.versions = Append(@, v),
                    !.updated = at, !.revision = RevisionNext(a.revision).value]
  BY DEF PublishVersion, Rejected, Done
<1> HIDE DEF v
<1> QED
  BY <1>2, <1>3 DEF Counted

LEMMA PublishFlowCounts ==
  ASSUME NEW a, NEW version, NEW at, Counted(a), PublishFlowVersion(a, version, at).ok
  PROVE  /\ Counted(PublishFlowVersion(a, version, at).value)
         /\ PublishFlowVersion(a, version, at).value.revision = a.revision + 1
<1>1. RevisionNext(a.revision).ok
  BY DEF PublishFlowVersion, Rejected
<1>2. RevisionNext(a.revision).value = a.revision + 1
  BY <1>1, RevisionStep DEF Counted
<1> DEFINE v == FlowVersion(version, a.id, Len(a.versions) + 1, a.current.id)
<1>3. PublishFlowVersion(a, version, at).value
        = [a EXCEPT !.pointer = version, !.current = v, !.versions = Append(@, v),
                    !.updated = at, !.revision = RevisionNext(a.revision).value]
  BY DEF PublishFlowVersion, Rejected, Done
<1> HIDE DEF v
<1> QED
  BY <1>2, <1>3 DEF Counted

LEMMA RestorationCounts ==
  ASSUME NEW a, NEW d \in BOOLEAN, NEW at, Counted(a), setDeleted(a, d, at).ok
  PROVE  Counted(setDeleted(a, d, at).value) /\ setDeleted(a, d, at).value.revision = a.revision + 1
<1> DEFINE b == [a EXCEPT !.deleted = d]
<1>1. setDeleted(a, d, at) = Advance(a, b, at)
  BY DEF setDeleted, Rejected
<1>2. DOMAIN b = DOMAIN a
  OBVIOUS
<1> HIDE DEF b
<1> QED
  BY <1>1, <1>2, AdvanceCounts

LEMMA EnvironmentRestorationCounts ==
  ASSUME NEW a, NEW d \in BOOLEAN, NEW at, Counted(a), setEnvironmentDeleted(a, d, at).ok
  PROVE  Counted(setEnvironmentDeleted(a, d, at).value) /\ setEnvironmentDeleted(a, d, at).value.revision = a.revision + 1
<1> DEFINE b == [a EXCEPT !.deleted = d]
<1>1. setEnvironmentDeleted(a, d, at) = AdvanceEnvironment(a, b, at)
  BY DEF setEnvironmentDeleted, Rejected
<1>2. DOMAIN b = DOMAIN a
  OBVIOUS
<1> HIDE DEF b
<1> QED
  BY <1>1, <1>2, AdvanceEnvironmentCounts

LEMMA ChangeCounts ==
  ASSUME NEW q \in Requests, NEW a, q.op # "CREATE", Counted(a), Change(q, a).ok
  PROVE  Counted(Change(q, a).value) /\ Change(q, a).value.revision = a.revision + 1
<1>1. CASE q.op = "PUBLISH" /\ KindOf[q.asset] = "FLOW"
  <2>1. Change(q, a) = PublishFlowVersion(a, q.version, q.at)
    BY <1>1 DEF Change
  <2> QED
    BY <2>1, PublishFlowCounts
<1>2. CASE q.op = "PUBLISH" /\ KindOf[q.asset] # "FLOW"
  <2>1. Change(q, a) = PublishVersion(a, q.version, q.at)
    BY <1>2 DEF Change
  <2> QED
    BY <2>1, PublishCounts
<1>3. CASE q.op = "UPDATE" /\ KindOf[q.asset] = "ENVIRONMENT"
  <2>1. Change(q, a) = AdvanceEnvironment(a, a, q.at)
    BY <1>3 DEF Change, UpdateEnvironment, Rejected
  <2> QED
    BY <2>1, AdvanceEnvironmentCounts
<1>4. CASE q.op = "UPDATE" /\ KindOf[q.asset] # "ENVIRONMENT"
  <2>1. Change(q, a) = Advance(a, a, q.at)
    BY <1>4 DEF Change, UpdateMetadata, Rejected
  <2> QED
    BY <2>1, AdvanceCounts
<1>5. CASE q.op \in {"DELETE", "RESTORE"} /\ KindOf[q.asset] = "ENVIRONMENT"
  <2>1. Change(q, a) = setEnvironmentDeleted(a, (q.op = "DELETE"), q.at)
    BY <1>5, Zenon DEF Change
  <2>2. \A d \in BOOLEAN : setEnvironmentDeleted(a, d, q.at).ok =>
          /\ Counted(setEnvironmentDeleted(a, d, q.at).value)
          /\ setEnvironmentDeleted(a, d, q.at).value.revision = a.revision + 1
    BY EnvironmentRestorationCounts
  <2> QED
    BY <2>1, <2>2
<1>6. CASE q.op \in {"DELETE", "RESTORE"} /\ KindOf[q.asset] # "ENVIRONMENT"
  <2>1. Change(q, a) = setDeleted(a, (q.op = "DELETE"), q.at)
    BY <1>6, Zenon DEF Change
  <2>2. \A d \in BOOLEAN : setDeleted(a, d, q.at).ok =>
          /\ Counted(setDeleted(a, d, q.at).value)
          /\ setDeleted(a, d, q.at).value.revision = a.revision + 1
    BY RestorationCounts
  <2> QED
    BY <2>1, <2>2
<1> QED
  BY <1>1, <1>2, <1>3, <1>4, <1>5, <1>6, RequestKinds DEF Kinds

-----------------------------------------------------------------------------
\* What is refused is not told OK, nor that its content is invalid.
Named(r) == r.ok \/ r.code \notin {"OK", "CONTENT_INVALID"}

LEMMA RevisionNamed == ASSUME NEW r PROVE Named(RevisionNext(r))
  BY DEF Named, RevisionNext, Rejected, Done

LEMMA MakeRefuses == ASSUME NEW q \in Requests PROVE Named(Make(q))
<1>1. CASE KindOf[q.asset] = "ENVIRONMENT"
  BY <1>1 DEF Make, NewEnvironment, Named, Done, Rejected
<1>2. CASE KindOf[q.asset] = "FRAGMENT"
  <2>1. Make(q) = NewElementTarget(q.asset, q.version, q.at)
    BY <1>2 DEF Make
  <2> QED
    BY <2>1 DEF NewElementTarget, Named, Done, Rejected
<1>3. CASE KindOf[q.asset] = "FLOW"
  <2>1. Make(q) = NewExecutionFlow(q.asset, q.version, q.at)
    BY <1>3 DEF Make
  <2> QED
    BY <2>1 DEF NewExecutionFlow, Named, Done, Rejected
<1> QED
  BY <1>1, <1>2, <1>3, RequestKinds DEF Kinds

LEMMA AdvanceNamed ==
  ASSUME NEW a, NEW b, NEW at
  PROVE  Named(Advance(a, b, at)) /\ Named(AdvanceEnvironment(a, b, at))
<1>1. Named(RevisionNext(a.revision))
  BY RevisionNamed
<1>2. Named(Advance(a, b, at))
  BY <1>1 DEF Advance, Named, Rejected, Done
<1>3. Named(AdvanceEnvironment(a, b, at))
  BY <1>1 DEF AdvanceEnvironment, Named, Rejected, Done
<1> QED
  BY <1>2, <1>3

LEMMA PublishNamed ==
  ASSUME NEW a, NEW version, NEW at
  PROVE  Named(PublishVersion(a, version, at)) /\ Named(PublishFlowVersion(a, version, at))
<1>1. Named(RevisionNext(a.revision))
  BY RevisionNamed
<1>2. Named(nextNodeVersion(a))
  <2>1. \A versions : Named(NextVersionNumber(versions))
    BY DEF NextVersionNumber, Named, Rejected, Done
  <2> QED
    BY <2>1 DEF nextNodeVersion
<1>3. Named(PublishVersion(a, version, at))
  <2> HIDE DEF Named
  <2>1. Named(Rejected("TARGET_INVALID")) /\ Named(Rejected("AGGREGATE_DELETED"))
        /\ Named(Rejected("TRANSITION_INVALID")) /\ Named(Rejected("HISTORY_INVALID"))
        /\ \A n : Named(Done(n))
    BY DEF Named, Rejected, Done
  <2> QED
    BY <1>1, <1>2, <2>1, Zenon DEF PublishVersion
<1>4. Named(PublishFlowVersion(a, version, at))
  <2>1. Named(Rejected("AGGREGATE_DELETED"))
        /\ Named(Rejected("TRANSITION_INVALID")) /\ Named(Rejected("HISTORY_INVALID"))
        /\ \A n : Named(Done(n))
    BY DEF Named, Rejected, Done
  <2> QED
    BY <1>1, <2>1, Zenon DEF PublishFlowVersion
<1> QED
  BY <1>3, <1>4

LEMMA ChangeRefuses ==
  ASSUME NEW q \in Requests, q.op # "CREATE", NEW a
  PROVE  Named(Change(q, a))
<1>1. /\ Named(Rejected("AGGREGATE_DELETED")) /\ Named(Rejected("TRANSITION_INVALID"))
  BY DEF Named, Rejected
<1>2. CASE q.op = "PUBLISH"
  BY <1>2, PublishNamed DEF Change
<1>3. CASE q.op = "UPDATE"
  BY <1>1, <1>3, AdvanceNamed DEF Change, UpdateEnvironment, UpdateMetadata
<1>4. CASE q.op \in {"DELETE", "RESTORE"}
  <2>1. \A d \in BOOLEAN : Named(setEnvironmentDeleted(a, d, q.at)) /\ Named(setDeleted(a, d, q.at))
    BY <1>1, AdvanceNamed, Zenon DEF setEnvironmentDeleted, setDeleted
  <2> HIDE DEF Named
  <2>2. Change(q, a) = setEnvironmentDeleted(a, (q.op = "DELETE"), q.at)
        \/ Change(q, a) = setDeleted(a, (q.op = "DELETE"), q.at)
    BY <1>4, Zenon DEF Change
  <2> QED
    BY <2>1, <2>2
<1> QED
  BY <1>2, <1>3, <1>4, RequestKinds DEF Kinds

-----------------------------------------------------------------------------
LEMMA InitIInv == Init => IInv
<1> SUFFICES ASSUME Init PROVE IInv
  OBVIOUS
<1>1. Stored
  <2>1. ASSUME NEW x \in Assets PROVE Counted(First[x])
    <3>1. CASE First[x] = Absent
      BY <3>1 DEF Counted, Absent
    <3>2. CASE First[x] # Absent
      BY <3>2, FirstAssumption, BoundsAssumption DEF Shaped, WholeAsset, Roots, Counted
    <3> QED
      BY <3>1, <3>2
  <2> QED
    BY <2>1, FirstAssumption DEF Init, Stored
<1>2. \A c \in Callers : call[c] = Idle
  BY DEF Init
<1>3. Called
  BY <1>2 DEF Init, Called, CallTyped, Fields, Idle
<1>4. Ready /\ Spent /\ Told
  BY <1>2 DEF Ready, ReadyIn, Spent, SpentIn, Told, Idle
<1> QED
  BY <1>1, <1>3, <1>4 DEF IInv

\* What every caller may rely on of the step of another: the store only moves on.
MovesOn ==
  /\ DOMAIN store' = Assets
  /\ \A x \in Assets : Counted(store[x])' /\ (store'[x] = store[x] \/ store'[x].revision > store[x].revision)

\* A step that is not a save.
LEMMA Unmoved == ASSUME Stored, UNCHANGED store PROVE MovesOn
  BY DEF Stored, MovesOn, Counted

\* Of the caller that takes the step, and of its asset, everything must be shown;
\* the others keep what they have when the store moves on.
LEMMA OthersKeep ==
  ASSUME IInv, MovesOn, NEW c \in Callers, NEW k, call' = [call EXCEPT ![c] = k],
         CallTyped(k), ReadyIn(k, store'[k.request.asset]),
         k.commits = 1 => k.at # "IDLE", SpentIn(k, store'[k.request.asset]),
         k.at \in {"LOAD", "SAVE"} /\ ~k.lost => k.commits = 0,
         k.at = "DONE" /\ k.code = "OK" => k.commits = 1,
         k.at = "DONE" /\ k.code \notin {"OK", "UNKNOWN"} /\ ~k.lost => k.commits = 0
  PROVE  IInv'
<1>1. call'[c] = k /\ DOMAIN call' = Callers /\ \A d \in Callers \ {c} : call'[d] = call[d]
  BY DEF IInv, Called
<1>2. Stored'
  BY DEF MovesOn, Stored, Counted
<1>3. Called'
  BY <1>1 DEF IInv, Called
<1>4. ASSUME NEW d \in Callers \ {c}
      PROVE  ReadyIn(call[d], store'[call[d].request.asset])
  <2> SUFFICES ASSUME call[d].at = "SAVE", call[d].request.op # "CREATE"
               PROVE  store'[call[d].request.asset] = call[d].current
                        \/ store'[call[d].request.asset].revision > call[d].expected
    BY DEF IInv, Ready, ReadyIn
  <2> DEFINE x == call[d].request.asset
  <2>1. x \in Assets /\ call[d].expected \in Nat
    BY RequestKinds DEF IInv, Called, CallTyped
  <2>2. store[x] = call[d].current \/ store[x].revision > call[d].expected
    BY DEF IInv, Ready, ReadyIn
  <2>3. store[x].revision \in Nat /\ store'[x].revision \in Nat
    BY <2>1 DEF IInv, Stored, MovesOn, Counted
  <2>4. store'[x] = store[x] \/ store'[x].revision > store[x].revision
    BY <2>1 DEF MovesOn
  <2>5. call[d].current.revision = call[d].expected
    BY DEF IInv, Ready, ReadyIn
  <2> HIDE DEF x
  <2>6. store'[x] = call[d].current \/ store'[x].revision > call[d].expected
    BY <2>1, <2>2, <2>3, <2>4, <2>5
  <2> QED
    BY <2>6 DEF x
<1>5. ASSUME NEW d \in Callers \ {c}
      PROVE  SpentIn(call[d], store'[call[d].request.asset])
  <2> SUFFICES ASSUME call[d].commits = 1 PROVE SpentIn(call[d], store'[call[d].request.asset])
    BY DEF SpentIn
  <2> DEFINE x == call[d].request.asset
  <2>1. x \in Assets /\ call[d].expected \in Nat
    BY RequestKinds DEF IInv, Called, CallTyped, Spent
  <2>2. store[x].revision \in Nat /\ store'[x].revision \in Nat
    BY <2>1 DEF IInv, Stored, MovesOn, Counted
  <2>3. store'[x] = store[x] \/ store'[x].revision > store[x].revision
    BY <2>1 DEF MovesOn
  <2>4. SpentIn(call[d], store[x])
    BY DEF IInv, Spent
  <2> HIDE DEF x
  <2>5. SpentIn(call[d], store'[x])
    BY <2>1, <2>2, <2>3, <2>4 DEF SpentIn
  <2> QED
    BY <2>5 DEF x
<1>6. Ready'
  BY <1>1, <1>4 DEF Ready
<1>7. Spent'
  BY <1>1, <1>5 DEF IInv, Spent
<1>8. Told'
  BY <1>1 DEF IInv, Told
<1> QED
  BY <1>2, <1>3, <1>6, <1>7, <1>8 DEF IInv

-----------------------------------------------------------------------------
LEMMA EndsIInv ==
  ASSUME IInv, UNCHANGED store, NEW c \in Callers, NEW code, Ends(c, code),
         call[c].at \in {"LOAD", "SAVE"}, code # "OK"
  PROVE  IInv'
<1> DEFINE k == [call[c] EXCEPT !.at = "DONE", !.code = code]
<1>1. call' = [call EXCEPT ![c] = k]
  BY DEF Ends, IInv, Called
<1>2. CallTyped(call[c])
  BY DEF IInv, Called
<1>3. /\ CallTyped(k) /\ k.at = "DONE" /\ k.code = code
      /\ k.request = call[c].request /\ k.commits = call[c].commits
      /\ k.lost = call[c].lost /\ k.expected = call[c].expected
  BY <1>2 DEF CallTyped, Fields
<1>4. SpentIn(call[c], store[call[c].request.asset])
  BY DEF IInv, Spent
<1>5. MovesOn
  BY Unmoved DEF IInv
<1>6. ~call[c].lost => call[c].commits = 0
  BY DEF IInv, Told
<1> HIDE DEF k
<1>7. ReadyIn(k, store'[k.request.asset]) /\ SpentIn(k, store'[k.request.asset])
  BY <1>3, <1>4 DEF ReadyIn, SpentIn
<1> QED
  BY <1>1, <1>3, <1>5, <1>6, <1>7, OthersKeep

LEMMA BeginIInv == ASSUME IInv, NEW c \in Callers, Begin(c) PROVE IInv'
<1>1. PICK q \in Requests : \E r \in (IF q.op = "CREATE" THEN {0} ELSE 1..store[q.asset].revision) :
        call' = [call EXCEPT ![c] = [Idle EXCEPT !.at = "LOAD", !.request = q, !.expected = r]]
  BY DEF Begin
<1>2. store[q.asset].revision \in Nat
  BY RequestKinds DEF IInv, Stored, Counted
<1>3. PICK r \in (IF q.op = "CREATE" THEN {0} ELSE 1..store[q.asset].revision) :
        call' = [call EXCEPT ![c] = [Idle EXCEPT !.at = "LOAD", !.request = q, !.expected = r]]
  BY <1>1
<1>r. r \in Nat
  BY <1>2
<1> DEFINE k == [Idle EXCEPT !.at = "LOAD", !.request = q, !.expected = r]
<1>4. CallTyped(k) /\ k.at = "LOAD" /\ k.commits = 0
  BY <1>r DEF Idle, CallTyped, Fields
<1>5. MovesOn
  BY Unmoved DEF IInv, Begin
<1> HIDE DEF k
<1>6. ReadyIn(k, store'[k.request.asset]) /\ SpentIn(k, store'[k.request.asset])
  BY <1>4 DEF ReadyIn, SpentIn
<1>7. call' = [call EXCEPT ![c] = k]
  BY <1>3 DEF k
<1> QED
  BY <1>4, <1>5, <1>6, <1>7, OthersKeep

LEMMA AgainIInv == ASSUME IInv, NEW c \in Callers, Again(c) PROVE IInv'
<1> DEFINE k == [call[c] EXCEPT !.at = "LOAD", !.code = None, !.lost = TRUE]
<1>1. call' = [call EXCEPT ![c] = k]
  BY DEF Again, IInv, Called
<1>2. CallTyped(call[c]) /\ call[c].at = "DONE"
  BY DEF IInv, Called, Again
<1>3. /\ CallTyped(k) /\ k.at = "LOAD" /\ k.lost
      /\ k.request = call[c].request /\ k.commits = call[c].commits
      /\ k.expected = call[c].expected
  BY <1>2 DEF CallTyped, Fields
<1>4. SpentIn(call[c], store[call[c].request.asset])
  BY DEF IInv, Spent
<1>5. MovesOn
  BY Unmoved DEF IInv, Again
<1> HIDE DEF k
<1>6. ReadyIn(k, store'[k.request.asset]) /\ SpentIn(k, store'[k.request.asset])
  BY <1>3, <1>4 DEF ReadyIn, SpentIn, Again
<1> QED
  BY <1>1, <1>3, <1>5, <1>6, OthersKeep

LEMMA LoadedIInv ==
  ASSUME IInv, UNCHANGED store, NEW c \in Callers, call[c].at = "LOAD", NEW a, NEW n,
         LET k == [call[c] EXCEPT !.at = "SAVE", !.current = a, !.next = n] IN
           call' = [call EXCEPT ![c] = k] /\ ReadyIn(k, store[k.request.asset])
  PROVE  IInv'
<1> DEFINE k == [call[c] EXCEPT !.at = "SAVE", !.current = a, !.next = n]
<1>2. CallTyped(call[c])
  BY DEF IInv, Called
<1>3. /\ CallTyped(k) /\ k.at = "SAVE" /\ k.lost = call[c].lost
      /\ k.request = call[c].request /\ k.commits = call[c].commits
      /\ k.expected = call[c].expected
  BY <1>2 DEF CallTyped, Fields
<1>4. SpentIn(call[c], store[call[c].request.asset])
  BY DEF IInv, Spent
<1>5. MovesOn
  BY Unmoved DEF IInv
<1>6. ~call[c].lost => call[c].commits = 0
  BY DEF IInv, Told
<1>7. call' = [call EXCEPT ![c] = k] /\ ReadyIn(k, store'[k.request.asset])
  OBVIOUS
<1> HIDE DEF k
<1>8. SpentIn(k, store'[k.request.asset])
  BY <1>3, <1>4 DEF SpentIn
<1> QED
  BY <1>3, <1>5, <1>6, <1>7, <1>8, OthersKeep

LEMMA CreateIInv == ASSUME IInv, NEW c \in Callers, Create(c) PROVE IInv'
<1> DEFINE q == call[c].request
<1>1. q \in Requests /\ CallTyped(call[c])
  BY DEF IInv, Called, CallTyped, Create
<1>2. CASE ~Make(q).ok
  <2>1. Make(q).code # "OK"
    BY <1>1, <1>2, MakeRefuses DEF Named
  <2> QED
    BY <1>2, <2>1, EndsIInv DEF Create
<1>3. CASE Make(q).ok
  <2> DEFINE k == [call[c] EXCEPT !.at = "SAVE", !.current = Absent, !.next = Make(q).value]
  <2>1. call' = [call EXCEPT ![c] = k]
    BY <1>3 DEF Create, IInv, Called
  <2>2. ReadyIn(k, store[k.request.asset])
    BY <1>1, <1>3 DEF Create, ReadyIn, CallTyped, Fields
  <2> QED
    BY <2>1, <2>2, LoadedIInv DEF Create
<1> QED
  BY <1>2, <1>3

LEMMA transitionIInv == ASSUME IInv, NEW c \in Callers, transition(c) PROVE IInv'
<1> DEFINE q == call[c].request
           a == store[q.asset]
<1>1. q \in Requests /\ CallTyped(call[c]) /\ q.op # "CREATE"
  BY DEF IInv, Called, CallTyped, transition
<1>2. CASE a = Absent
  BY <1>2, EndsIInv DEF transition
<1>3. CASE a # Absent /\ a.revision # call[c].expected
  BY <1>3, EndsIInv DEF transition
<1>4. CASE a # Absent /\ a.revision = call[c].expected /\ ~Change(q, a).ok
  <2>1. Change(q, a).code # "OK"
    BY <1>1, <1>4, ChangeRefuses DEF Named
  <2> QED
    BY <1>4, <2>1, EndsIInv DEF transition
<1>5. CASE a # Absent /\ a.revision = call[c].expected /\ Change(q, a).ok
  <2> DEFINE k == [call[c] EXCEPT !.at = "SAVE", !.current = a, !.next = Change(q, a).value]
  <2>1. call' = [call EXCEPT ![c] = k]
    BY <1>5 DEF transition, IInv, Called
  <2>2. ReadyIn(k, store[k.request.asset])
    BY <1>1, <1>5 DEF ReadyIn, CallTyped, Fields
  <2> QED
    BY <2>1, <2>2, LoadedIInv DEF transition
<1> QED
  BY <1>2, <1>3, <1>4, <1>5

\* A save takes effect: the store moves on by the operation that was asked for.
LEMMA SaveApplies ==
  ASSUME IInv, NEW c \in Callers, Save(c)
  PROVE  LET q == call[c].request IN
         /\ q \in Requests /\ Apply(q, store[q.asset]).ok
         /\ store' = [store EXCEPT ![q.asset] = Apply(q, store[q.asset]).value]
         /\ Counted(Apply(q, store[q.asset]).value)
         /\ Apply(q, store[q.asset]).value.revision = store[q.asset].revision + 1
         /\ q.op # "CREATE" => store[q.asset].revision = call[c].expected
         /\ q.op = "CREATE" => store[q.asset].revision = 0
<1> DEFINE q == call[c].request
           a == store[q.asset]
<1>1. q \in Requests /\ q.asset \in Assets /\ call[c].at = "SAVE"
  BY RequestKinds DEF IInv, Called, CallTyped, Save
<1>2. ReadyIn(call[c], a) /\ Counted(a) /\ call[c].expected \in Nat
  BY <1>1 DEF IInv, Ready, Stored, Called, CallTyped
<1>3. Accepts(c) /\ store' = [store EXCEPT ![q.asset] = call[c].next]
  BY DEF Save
<1>4. CASE q.op = "CREATE"
  <2>1. a = Absent /\ Apply(q, a) = Make(q)
    BY <1>3, <1>4 DEF Accepts, Apply
  <2>2. Make(q).ok /\ call[c].next = Make(q).value
    BY <1>1, <1>2, <1>4 DEF ReadyIn
  <2>3. Counted(Make(q).value) /\ Make(q).value.revision = 1 /\ a.revision = 0
    BY <1>1, <2>1, <2>2, MakeCounts DEF Absent
  <2> HIDE DEF q, a
  <2>4. /\ Apply(q, a).ok /\ call[c].next = Apply(q, a).value
        /\ Counted(Apply(q, a).value) /\ Apply(q, a).value.revision = a.revision + 1
    BY <2>1, <2>2, <2>3
  <2> QED
    BY <1>1, <1>3, <1>4, <2>3, <2>4 DEF q, a
<1>5. CASE q.op # "CREATE"
  <2>1. a # Absent /\ a.revision = call[c].expected
    BY <1>3, <1>5 DEF Accepts
  <2>2. a = call[c].current /\ Change(q, a).ok /\ call[c].next = Change(q, a).value
    BY <1>1, <1>2, <1>5, <2>1 DEF ReadyIn
  <2>3. Apply(q, a) = Change(q, a)
    BY <1>5, <2>1 DEF Apply
  <2>4. Counted(Change(q, a).value) /\ Change(q, a).value.revision = a.revision + 1
    BY <1>1, <1>2, <1>5, <2>2, ChangeCounts
  <2> QED
    BY <1>1, <1>3, <1>5, <2>1, <2>2, <2>3, <2>4
<1> QED
  BY <1>4, <1>5

LEMMA SaveIInv == ASSUME IInv, NEW c \in Callers, Save(c) PROVE IInv'
<1> DEFINE q == call[c].request
           a == store[q.asset]
           n == Apply(q, a).value
<1>1. /\ q \in Requests /\ store' = [store EXCEPT ![q.asset] = n]
      /\ Counted(n) /\ n.revision = a.revision + 1
      /\ q.op # "CREATE" => a.revision = call[c].expected
      /\ q.op = "CREATE" => a.revision = 0
  BY SaveApplies
<1>2. q.asset \in Assets /\ Counted(a)
  BY <1>1, RequestKinds DEF IInv, Stored
<1> HIDE DEF n
<1>3. store'[q.asset] = n /\ \A x \in Assets : x # q.asset => store'[x] = store[x]
  BY <1>1, <1>2 DEF IInv, Stored
<1>4. DOMAIN store' = Assets
  BY <1>1 DEF IInv, Stored
<1>5. n.revision > a.revision
  BY <1>1, <1>2 DEF Counted
<1>6. MovesOn
  <2> SUFFICES ASSUME NEW x \in Assets
               PROVE  Counted(store'[x]) /\ (store'[x] = store[x] \/ store'[x].revision > store[x].revision)
    BY <1>4 DEF MovesOn, Counted
  <2>1. CASE x = q.asset
    BY <1>1, <1>3, <1>5, <2>1
  <2>2. CASE x # q.asset
    BY <1>3, <2>2 DEF IInv, Stored
  <2> QED
    BY <2>1, <2>2
<1>7. CallTyped(call[c]) /\ call[c].at = "SAVE" /\ SpentIn(call[c], a)
  BY DEF IInv, Called, Save, Spent
<1>8. call[c].commits = 0
  BY <1>1, <1>2, <1>7 DEF SpentIn, CallTyped, Counted
<1>9. PICK code \in {"OK", "UNKNOWN"} :
        call' = [call EXCEPT ![c].at = "DONE", ![c].code = code, ![c].commits = @ + 1]
  BY DEF Save
<1> DEFINE k == [call[c] EXCEPT !.at = "DONE", !.code = code, !.commits = @ + 1]
<1>10. call' = [call EXCEPT ![c] = k]
  BY <1>9 DEF IInv, Called
<1>11. /\ CallTyped(k) /\ k.at = "DONE" /\ k.commits = 1 /\ k.code = code
       /\ k.request = q /\ k.expected = call[c].expected
  BY <1>7, <1>8 DEF CallTyped, Fields
<1> HIDE DEF k
<1>12. ReadyIn(k, store'[k.request.asset])
  BY <1>11 DEF ReadyIn
<1>13. SpentIn(k, store'[k.request.asset])
  <2>1. store'[k.request.asset] = n
    BY <1>3, <1>11
  <2>2. n.revision > 0 /\ (q.op # "CREATE" => n.revision > call[c].expected)
    BY <1>1, <1>2 DEF Counted
  <2> QED
    BY <1>11, <2>1, <2>2 DEF SpentIn
<1> QED
  BY <1>6, <1>10, <1>11, <1>12, <1>13, OthersKeep

LEMMA NextIInv == ASSUME IInv, [Next]_vars PROVE IInv'
<1>1. CASE UNCHANGED vars
  BY <1>1 DEF vars, IInv, Stored, Called, Ready, Spent, Told
<1>2. ASSUME NEW c \in Callers, Step(c) PROVE IInv'
  <2>1. CASE SaveRefused(c)
    BY <2>1, EndsIInv DEF SaveRefused
  <2>2. CASE SaveFails(c)
    BY <2>2, EndsIInv DEF SaveFails
  <2> QED
    BY <1>2, <2>1, <2>2, BeginIInv, AgainIInv, CreateIInv, transitionIInv, SaveIInv DEF Step
<1> QED
  BY <1>1, <1>2 DEF Next

LEMMA Inductive == Spec => []IInv
  BY InitIInv, NextIInv, PTL DEF Spec

\* A request takes effect at most once, however often it is sent and whatever the
\* others do, and the caller is told the truth (transition, SaveAggregate).
THEOREM AnswersTheorem == Spec => []AnswersAreTrue
<1>1. IInv => AnswersAreTrue
  BY DEF IInv, Called, CallTyped, Told, AnswersAreTrue
<1> QED
  BY <1>1, Inductive, PTL

\* The services implement the register: every save is one operation on the asset as
\* it then is, every other step changes nothing (transition, SaveAggregate).
THEOREM AtomicTheorem == Spec => ChangesAreAtomic
<1>1. Init => Register!Init
  BY DEF Init, Register!Init
<1>2. IInv /\ [Next]_vars => [Register!Next]_store
  <2> SUFFICES ASSUME IInv, NEW c \in Callers, Step(c), store' # store
               PROVE  Register!Next
    BY DEF Next, vars
  <2>1. Save(c)
    BY DEF Step, Begin, Again, Create, transition, SaveRefused, SaveFails
  <2>2. store'[call[c].request.asset] # store[call[c].request.asset]
    <3> DEFINE q == call[c].request
               n == Apply(q, store[q.asset]).value
    <3>1. q \in Requests /\ store' = [store EXCEPT ![q.asset] = n] /\ n.revision = store[q.asset].revision + 1
      BY <2>1, SaveApplies
    <3>2. q.asset \in Assets /\ Counted(store[q.asset]) /\ q.asset \in DOMAIN store
      BY <3>1, RequestKinds DEF IInv, Stored
    <3> QED
      BY <3>1, <3>2 DEF Counted
  <2>3. Register!Perform(call[c].request) /\ call[c].request \in Requests
    BY <2>1, <2>2, SaveApplies DEF Register!Perform
  <2> QED
    BY <2>3 DEF Register!Next
<1> QED
  BY <1>1, <1>2, Inductive, PTL DEF Spec, ChangesAreAtomic, Register!Spec

-----------------------------------------------------------------------------
(* What the operations leave of a history.                                 *)

\* An aggregate as the services keep it.
Kept(x, a) == Shaped(x, a) /\ WholeAsset(x, a) /\ (KindOf[x] = "FLOW" /\ a # Absent => FlowLine(a))

\* One aggregate follows another: nothing of the history is lost or rewritten.
Follows(x, a, b) ==
  /\ b.updated >= a.updated
  /\ a.deleted => ~b.deleted
  /\ KindOf[x] # "ENVIRONMENT" =>
       /\ Len(b.versions) >= Len(a.versions)
       /\ SubSeq(b.versions, 1, Len(a.versions)) = a.versions

\* A list is a sequence of its elements.
IsList(s) == s \in Seq(Range(s))

LEMMA ListProperties ==
  ASSUME NEW s, IsList(s)
  PROVE  /\ Len(s) \in Nat /\ DOMAIN s = 1..Len(s)
         /\ Range(s) = {s[k] : k \in 1..Len(s)}
         /\ SubSeq(s, 1, Len(s)) = s
<1>1. Len(s) \in Nat /\ DOMAIN s = 1..Len(s)
  BY LenProperties DEF IsList
<1> QED
  BY <1>1, SubSeqFull DEF IsList, Range

\* A list with one more element.
LEMMA Appended ==
  ASSUME NEW s, IsList(s), NEW e
  PROVE  LET n == Append(s, e) IN
         /\ IsList(n) /\ Len(n) = Len(s) + 1 /\ n # <<>>
         /\ Range(n) = Range(s) \union {e}
         /\ \A k \in 1..Len(s) : n[k] = s[k]
         /\ n[Len(s) + 1] = e
         /\ SubSeq(n, 1, Len(s)) = s
<1> DEFINE S == Range(s) \union {e}
           n == Append(s, e)
<1>1. s \in Seq(S) /\ e \in S
  BY SeqMonotonic DEF IsList
<1> HIDE DEF S
<1>2. Len(s) \in Nat /\ DOMAIN s = 1..Len(s) /\ Range(s) = {s[k] : k \in 1..Len(s)}
  BY ListProperties
<1>3. /\ n \in Seq(S) /\ n # <<>> /\ Len(n) = Len(s) + 1
      /\ \A k \in 1..Len(s) : n[k] = s[k]
      /\ n[Len(s) + 1] = e
  BY <1>1, AppendProperties
<1>4. DOMAIN n = 1..(Len(s) + 1)
  BY <1>3, LenProperties
<1>5. SubSeq(n, 1, Len(s)) = s
  <2>1. \A k \in 1..Len(s) : n[k] \in S
    BY <1>1, <1>3, ElementOfSeq
  <2>2. /\ SubSeq(n, 1, Len(s)) \in Seq(S)
        /\ Len(SubSeq(n, 1, Len(s))) = IF 1 <= Len(s) THEN Len(s) - 1 + 1 ELSE 0
        /\ \A k \in 1..(Len(s) - 1 + 1) : SubSeq(n, 1, Len(s))[k] = n[1 + k - 1]
    BY <1>2, <2>1, SubSeqProperties
  <2> HIDE DEF n
  <2>3. Len(SubSeq(n, 1, Len(s))) = Len(s)
    BY <1>2, <2>2
  <2>4. \A k \in 1..Len(s) : SubSeq(n, 1, Len(s))[k] = s[k]
    BY <1>2, <1>3, <2>2
  <2> QED
    BY <1>1, <2>2, <2>3, <2>4, SeqEqual
<1> HIDE DEF n
<1>6. Range(n) = Range(s) \union {e}
  <2>1. Range(n) = {n[k] : k \in 1..(Len(s) + 1)}
    BY <1>4 DEF Range
  <2>2. 1..(Len(s) + 1) = (1..Len(s)) \union {Len(s) + 1}
    BY <1>2
  <2> QED
    BY <1>2, <1>3, <2>1, <2>2
<1>7. IsList(n)
  BY <1>3, <1>6 DEF IsList, S
<1> QED
  BY <1>3, <1>5, <1>6, <1>7 DEF n

\* A history stays one of unique identities and numbers without gaps when a version
\* with a new identity gets the next number.
LEMMA HistoryGrows ==
  ASSUME NEW s, IsList(s), validateVersionIdentity(s),
         NEW v, v.id # None, v.id \notin IDsOf(s), v.number = Len(s) + 1
  PROVE  /\ validateVersionIdentity(Append(s, v))
         /\ IDsOf(Append(s, v)) = IDsOf(s) \union {v.id}
<1> DEFINE n == Append(s, v)
<1>1. Len(n) = Len(s) + 1 /\ Range(n) = Range(s) \union {v}
  BY Appended
<1>2. Len(s) \in Nat /\ Range(s) = {s[k] : k \in 1..Len(s)}
  BY ListProperties
<1> HIDE DEF n
<1>3. IDsOf(n) = IDsOf(s) \union {v.id} /\ NumbersOf(n) = NumbersOf(s) \union {v.number}
  BY <1>1 DEF IDsOf, NumbersOf
<1>4. IsFiniteSet(IDsOf(s))
  <2>1. IsFiniteSet(1..Len(s))
    BY <1>2, FS_Interval
  <2> DEFINE f == [k \in 1..Len(s) |-> s[k].id]
  <2>2. IDsOf(s) = {f[k] : k \in 1..Len(s)}
    BY <1>2 DEF IDsOf
  <2>3. f \in Surjection(1..Len(s), IDsOf(s))
    BY <2>2 DEF Surjection
  <2> QED
    BY <2>1, <2>3, FS_Surjection
<1>5. Cardinality(IDsOf(n)) = Cardinality(IDsOf(s)) + 1
  BY <1>3, <1>4, FS_AddElement
<1>6. NumbersOf(n) = 1..Len(n)
  BY <1>1, <1>2, <1>3 DEF validateVersionIdentity
<1> QED
  BY <1>1, <1>3, <1>5, <1>6 DEF validateVersionIdentity, n

\* The number that a version is given is one more than there are versions.
LEMMA NumberFollows ==
  ASSUME NEW s, IsList(s), validateVersionIdentity(s), NextVersionNumber(s).ok
  PROVE  NextVersionNumber(s).value = Len(s) + 1
<1> DEFINE maximum == CHOOSE n \in NumbersOf(s) \union {0} : \A k \in NumbersOf(s) : k <= n
<1>1. Len(s) \in Nat /\ NumbersOf(s) = 1..Len(s)
  BY ListProperties DEF validateVersionIdentity
<1>2. maximum = Len(s)
  <2>1. Len(s) \in NumbersOf(s) \union {0} /\ \A k \in NumbersOf(s) : k <= Len(s)
    BY <1>1
  <2>2. maximum \in NumbersOf(s) \union {0} /\ \A k \in NumbersOf(s) : k <= maximum
    BY <2>1
  <2> HIDE DEF maximum
  <2> QED
    BY <1>1, <2>2
<1>3. NextVersionNumber(s).value = maximum + 1
  BY DEF NextVersionNumber, Rejected, Done
<1> QED
  BY <1>2, <1>3

\* What an environment, a fragment and a flow must be to be kept.
LEMMA KeptWhen ==
  ASSUME NEW x \in Assets, NEW a, a # Absent, a.deleted \in BOOLEAN,
         a.id = x, a.revision \in 1..MaxRevision,
         KindOf[x] = "ENVIRONMENT" => DOMAIN a = Roots,
         KindOf[x] # "ENVIRONMENT" =>
           DOMAIN a = Roots \union {"pointer", "current", "versions"} /\ IsList(a.versions),
         KindOf[x] = "FRAGMENT" => ValidateLoadedHistory(a),
         KindOf[x] = "FLOW" => FlowValid(a) /\ FlowLine(a)
  PROVE  Kept(x, a)
BY DEF Kept, Shaped, WholeAsset, IsList

\* A stored revision that has a successor.
LEMMA RevisionFits ==
  ASSUME NEW r \in 1..MaxRevision, RevisionNext(r).ok
  PROVE  RevisionNext(r).value = r + 1 /\ r + 1 \in 1..MaxRevision
BY BoundsAssumption DEF RevisionNext, Rejected, Done

\* What exists has a revision.
LEMMA PresentIsNotAbsent == ASSUME NEW a, a.revision \in 1..MaxRevision PROVE a # Absent
BY BoundsAssumption DEF Absent

\* The list of one first version.
LEMMA OneVersion ==
  ASSUME NEW v
  PROVE  IsList(<<v>>) /\ Len(<<v>>) = 1 /\ DOMAIN <<v>> = {1} /\ <<v>>[1] = v
<1>1. Range(<<v>>) = {v}
  BY DEF Range
<1> QED
  BY <1>1 DEF IsList

\* A new asset is whole.
LEMMA MakeKeeps ==
  ASSUME NEW q \in Requests, Make(q).ok
  PROVE  Kept(q.asset, Make(q).value)
<1> DEFINE x == q.asset
<1>0. x \in Assets /\ KindOf[x] \in Kinds /\ 1 \in 1..MaxRevision
  BY RequestKinds, BoundsAssumption
<1>1. CASE KindOf[x] = "ENVIRONMENT"
  <2> DEFINE a == [id |-> x, revision |-> 1, deleted |-> FALSE, updated |-> q.at]
  <2>1. Make(q).value = a
    BY <1>1 DEF Make, NewEnvironment, Done, Rejected
  <2>2. a.deleted \in BOOLEAN /\ a.id = x /\ a.revision = 1 /\ DOMAIN a = Roots
    BY DEF Roots
  <2> HIDE DEF a
  <2> QED
    BY <1>0, <1>1, <2>1, <2>2, PresentIsNotAbsent, KeptWhen
<1>2. CASE KindOf[x] = "FRAGMENT"
  <2> DEFINE first == Version(q.version, x, 1)
             a == [id |-> x, revision |-> 1, pointer |-> q.version, deleted |-> FALSE,
                   updated |-> q.at, current |-> first, versions |-> <<first>>]
  <2>1. Make(q) = NewElementTarget(x, q.version, q.at)
    BY <1>2 DEF Make
  <2>2. Make(q).value = a /\ ValidateLoadedHistory(a)
    BY <2>1 DEF NewElementTarget, Done, Rejected
  <2> HIDE DEF first
  <2>3. /\ a.deleted \in BOOLEAN /\ a.id = x /\ a.revision = 1 /\ a.versions = <<first>>
        /\ DOMAIN a = Roots \union {"pointer", "current", "versions"}
    BY DEF Roots
  <2> HIDE DEF a
  <2> QED
    BY <1>0, <1>2, <2>2, <2>3, OneVersion, PresentIsNotAbsent, KeptWhen
<1>3. CASE KindOf[x] = "FLOW"
  <2> DEFINE first == FlowVersion(q.version, x, 1, None)
             a == [id |-> x, revision |-> 1, pointer |-> q.version, deleted |-> FALSE,
                   updated |-> q.at, current |-> first, versions |-> <<first>>]
  <2>1. Make(q) = NewExecutionFlow(x, q.version, q.at)
    BY <1>3 DEF Make
  <2>2. Make(q).value = a /\ FlowValid(a)
    BY <2>1 DEF NewExecutionFlow, Done, Rejected
  <2>3. first.number = 1 /\ first.source = None
    BY DEF FlowVersion
  <2> HIDE DEF first
  <2>4. /\ a.deleted \in BOOLEAN /\ a.id = x /\ a.revision = 1 /\ a.versions = <<first>>
        /\ DOMAIN a = Roots \union {"pointer", "current", "versions"}
    BY DEF Roots
  <2> HIDE DEF a
  <2>5. FlowLine(a)
    <3> SUFFICES ASSUME NEW k \in DOMAIN a.versions
                 PROVE  /\ a.versions[k].number = k
                        /\ a.versions[k].source = IF k = 1 THEN None ELSE a.versions[k - 1].id
      BY DEF FlowLine
    <3>1. k = 1 /\ a.versions[k] = first
      BY <2>4, OneVersion
    <3> QED
      BY <2>3, <3>1
  <2> QED
    BY <1>0, <1>3, <2>2, <2>4, <2>5, OneVersion, PresentIsNotAbsent, KeptWhen
<1> QED
  BY <1>0, <1>1, <1>2, <1>3 DEF Kinds

\* Fields of what is kept.
LEMMA KeptFields ==
  ASSUME NEW x \in Assets, NEW a, Kept(x, a), a # Absent
  PROVE  /\ a.deleted \in BOOLEAN /\ a.id = x /\ a.revision \in 1..MaxRevision
         /\ KindOf[x] = "ENVIRONMENT" => DOMAIN a = Roots
         /\ KindOf[x] # "ENVIRONMENT" =>
              /\ DOMAIN a = Roots \union {"pointer", "current", "versions"}
              /\ IsList(a.versions)
              /\ Len(a.versions) \in Nat /\ SubSeq(a.versions, 1, Len(a.versions)) = a.versions
         /\ KindOf[x] = "FRAGMENT" => ValidateLoadedHistory(a)
         /\ KindOf[x] = "FLOW" => FlowValid(a) /\ FlowLine(a)
<1>1. KindOf[x] # "ENVIRONMENT" => IsList(a.versions)
  BY DEF Kept, Shaped, IsList
<1> QED
  BY <1>1, ListProperties DEF Kept, Shaped, WholeAsset

\* Changes of the root of a fragment or of an environment.
LEMMA AdvanceKeeps ==
  ASSUME NEW x \in Assets, KindOf[x] = "FRAGMENT", NEW a, Kept(x, a), a # Absent,
         NEW b, DOMAIN b = DOMAIN a, b.id = a.id, b.versions = a.versions,
         b.deleted \in BOOLEAN, a.deleted => ~b.deleted, NEW at, Advance(a, b, at).ok
  PROVE  Kept(x, Advance(a, b, at).value) /\ Follows(x, a, Advance(a, b, at).value)
<1> DEFINE r == RevisionNext(a.revision)
           n == [b EXCEPT !.updated = at, !.revision = r.value]
<1>1. /\ r.ok /\ TransitionTimely(a, at) /\ ValidateLoadedHistory(n)
      /\ Advance(a, b, at).value = n
  BY DEF Advance, Rejected, Done
<1>2. /\ a.id = x /\ a.revision \in 1..MaxRevision /\ IsList(a.versions)
      /\ DOMAIN a = Roots \union {"pointer", "current", "versions"}
      /\ Len(a.versions) \in Nat /\ SubSeq(a.versions, 1, Len(a.versions)) = a.versions
  BY KeptFields
<1>3. r.value \in 1..MaxRevision
  BY <1>1, <1>2, RevisionFits
<1>4. /\ n.deleted = b.deleted /\ n.id = a.id /\ n.versions = a.versions
      /\ n.revision = r.value /\ n.updated = at /\ DOMAIN n = DOMAIN a
  BY <1>2 DEF Roots
<1> HIDE DEF n, r
<1>5. Kept(x, n)
  BY <1>1, <1>2, <1>3, <1>4, PresentIsNotAbsent, KeptWhen
<1>6. Follows(x, a, n)
  BY <1>1, <1>2, <1>4 DEF Follows, TransitionTimely
<1> QED
  BY <1>1, <1>5, <1>6

LEMMA AdvanceEnvironmentKeeps ==
  ASSUME NEW x \in Assets, KindOf[x] = "ENVIRONMENT", NEW a, Kept(x, a), a # Absent,
         NEW b, DOMAIN b = DOMAIN a, b.id = a.id,
         b.deleted \in BOOLEAN, a.deleted => ~b.deleted, NEW at, AdvanceEnvironment(a, b, at).ok
  PROVE  /\ Kept(x, AdvanceEnvironment(a, b, at).value)
         /\ Follows(x, a, AdvanceEnvironment(a, b, at).value)
<1> DEFINE r == RevisionNext(a.revision)
           n == [b EXCEPT !.updated = at, !.revision = r.value]
<1>1. r.ok /\ TransitionTimely(a, at) /\ AdvanceEnvironment(a, b, at).value = n
  BY DEF AdvanceEnvironment, Rejected, Done
<1>2. a.id = x /\ a.revision \in 1..MaxRevision /\ DOMAIN a = Roots
  BY KeptFields
<1>3. r.value \in 1..MaxRevision
  BY <1>1, <1>2, RevisionFits
<1>4. /\ n.deleted = b.deleted /\ n.id = a.id
      /\ n.revision = r.value /\ n.updated = at /\ DOMAIN n = DOMAIN a
  BY <1>2 DEF Roots
<1> HIDE DEF n, r
<1>5. Kept(x, n)
  BY <1>2, <1>3, <1>4, PresentIsNotAbsent, KeptWhen
<1>6. Follows(x, a, n)
  BY <1>1, <1>4 DEF Follows, TransitionTimely
<1> QED
  BY <1>1, <1>5, <1>6

\* A new version takes the next place in its history, although the transition does not
\* check the history anew.
LEMMA PublishFacts ==
  ASSUME NEW a, a.revision \in 1..MaxRevision, IsList(a.versions), ValidateLoadedHistory(a),
         {"revision", "pointer", "updated", "current", "versions"} \subseteq DOMAIN a,
         NEW version, NEW at, PublishVersion(a, version, at).ok
  PROVE  LET n == PublishVersion(a, version, at).value
             v == Version(version, a.id, Len(a.versions) + 1)
         IN /\ Valid(a) /\ ~a.deleted /\ TransitionTimely(a, at)
            /\ a.current.id \in IDsOf(a.versions)
            /\ version \notin {None, a.current.id} \union IDsOf(a.versions)
            /\ RevisionNext(a.revision) = Done(a.revision + 1) /\ a.revision + 1 \in 1..MaxRevision
            /\ n = [a EXCEPT !.pointer = version, !.current = v, !.versions = Append(@, v),
                             !.updated = at, !.revision = a.revision + 1]
            /\ n.versions = Append(a.versions, v)
            /\ Valid(n) /\ ValidateLoadedHistory(n)
<1> DEFINE n == PublishVersion(a, version, at).value
           v == Version(version, a.id, Len(a.versions) + 1)
           number == nextNodeVersion(a)
           r == RevisionNext(a.revision)
           next(w) == [a EXCEPT !.pointer = version, !.current = w, !.versions = Append(@, w),
                                !.updated = at, !.revision = r.value]
<1>1. /\ Valid(a) /\ ~a.deleted /\ TransitionTimely(a, at) /\ validateNewVersionIdentity(a, version)
      /\ r.ok /\ number.ok /\ n = next(Version(version, a.id, number.value)) /\ Valid(n)
  BY DEF PublishVersion, Rejected, Done
<1>2. validateVersionIdentity(a.versions) /\ OwnedBy(a.versions, a.id) /\ a.current.id \in IDsOf(a.versions)
  BY <1>1 DEF ValidateLoadedHistory, Valid
<1>3. r.value = a.revision + 1 /\ a.revision + 1 \in 1..MaxRevision /\ r = Done(a.revision + 1)
  <2>1. r.value = a.revision + 1 /\ a.revision + 1 \in 1..MaxRevision
    BY <1>1, RevisionFits
  <2> QED
    BY <1>1, <2>1 DEF RevisionNext, Rejected, Done
<1>4. number.value = Len(a.versions) + 1
  <2>1. nextNodeVersion(a) = NextVersionNumber(a.versions \o <<>>)
    BY <1>2 DEF nextNodeVersion
  <2>2. a.versions \o <<>> = a.versions
    BY ConcatEmptySeq DEF IsList
  <2> QED
    BY <1>1, <1>2, <2>1, <2>2, NumberFollows
<1>5. v.id = version /\ v.owner = a.id /\ v.number = Len(a.versions) + 1
  BY DEF Version
<1> HIDE DEF n, v
<1>6. n = [a EXCEPT !.pointer = version, !.current = v, !.versions = Append(@, v),
                    !.updated = at, !.revision = a.revision + 1]
  BY <1>1, <1>3, <1>4 DEF v
<1>7. n.versions = Append(a.versions, v) /\ n.pointer = version /\ n.current = v /\ n.id = a.id
  BY <1>6
<1>8. version # None /\ version # a.current.id /\ version \notin IDsOf(a.versions)
  BY <1>1 DEF validateNewVersionIdentity
<1>9. /\ validateVersionIdentity(n.versions) /\ IDsOf(n.versions) = IDsOf(a.versions) \union {version}
  BY <1>2, <1>5, <1>7, <1>8, HistoryGrows
<1>10. OwnedBy(n.versions, n.id)
  BY <1>2, <1>5, <1>7, Appended DEF OwnedBy
<1>11. ValidateLoadedHistory(n)
  BY <1>1, <1>5, <1>7, <1>8, <1>9, <1>10 DEF ValidateLoadedHistory
<1>12. Valid(a) /\ ~a.deleted /\ TransitionTimely(a, at) /\ Valid(n)
  BY <1>1
<1> HIDE DEF number, r, next
<1> QED
  BY <1>2, <1>3, <1>6, <1>7, <1>8, <1>11, <1>12 DEF r, n, v

\* A fragment's new version takes the next place in its history, although the
\* transition does not check the history anew.
LEMMA PublishKeeps ==
  ASSUME NEW x \in Assets, KindOf[x] = "FRAGMENT", NEW a, Kept(x, a), a # Absent,
         NEW version, NEW at, PublishVersion(a, version, at).ok
  PROVE  /\ Kept(x, PublishVersion(a, version, at).value)
         /\ Follows(x, a, PublishVersion(a, version, at).value)
<1> DEFINE v == Version(version, a.id, Len(a.versions) + 1)
           n == PublishVersion(a, version, at).value
<1>1. /\ a.id = x /\ a.revision \in 1..MaxRevision /\ IsList(a.versions)
      /\ DOMAIN a = Roots \union {"pointer", "current", "versions"}
      /\ ValidateLoadedHistory(a) /\ a.deleted \in BOOLEAN
  BY KeptFields
<1>2. {"revision", "pointer", "updated", "current", "versions"} \subseteq DOMAIN a
  BY <1>1 DEF Roots
<1>3. LET m == PublishVersion(a, version, at).value
          w == Version(version, a.id, Len(a.versions) + 1)
      IN /\ Valid(a) /\ ~a.deleted /\ TransitionTimely(a, at)
         /\ a.current.id \in IDsOf(a.versions)
         /\ version \notin {None, a.current.id} \union IDsOf(a.versions)
         /\ RevisionNext(a.revision) = Done(a.revision + 1) /\ a.revision + 1 \in 1..MaxRevision
         /\ m = [a EXCEPT !.pointer = version, !.current = w, !.versions = Append(@, w),
                          !.updated = at, !.revision = a.revision + 1]
         /\ m.versions = Append(a.versions, w)
         /\ Valid(m) /\ ValidateLoadedHistory(m)
  <2> HIDE DEF n, v
  <2> QED
    BY <1>1, <1>2, PublishFacts
<1>4. /\ ~a.deleted /\ TransitionTimely(a, at) /\ ValidateLoadedHistory(n) /\ a.revision + 1 \in 1..MaxRevision
      /\ n = [a EXCEPT !.pointer = version, !.current = v, !.versions = Append(@, v),
                       !.updated = at, !.revision = a.revision + 1]
  BY <1>3
<1> HIDE DEF v, n
<1>5. /\ n.deleted = a.deleted /\ n.id = a.id /\ n.versions = Append(a.versions, v)
      /\ n.revision = a.revision + 1 /\ n.updated = at /\ DOMAIN n = DOMAIN a
  BY <1>1, <1>4 DEF Roots
<1>6. /\ IsList(n.versions) /\ Len(n.versions) = Len(a.versions) + 1
      /\ SubSeq(n.versions, 1, Len(a.versions)) = a.versions
  BY <1>1, <1>5, Appended
<1>7. Kept(x, n)
  <2>1. n.revision \in 1..MaxRevision /\ n.deleted \in BOOLEAN /\ n.id = x /\ DOMAIN n = DOMAIN a
    BY <1>1, <1>4, <1>5
  <2>2. n # Absent
    BY <2>1, PresentIsNotAbsent
  <2> QED
    BY <1>1, <1>4, <1>6, <2>1, <2>2, KeptWhen
<1>8. Follows(x, a, n)
  <2>1. Len(n.versions) >= Len(a.versions)
    BY <1>1, <1>6, ListProperties
  <2> QED
    BY <1>4, <1>5, <1>6, <2>1 DEF Follows, TransitionTimely
<1> QED
  BY <1>7, <1>8 DEF n

\* The current version of a flow is the last of its line.
LEMMA LastIsCurrent ==
  ASSUME NEW a, IsList(a.versions), FlowValid(a), FlowLine(a)
  PROVE  Len(a.versions) \in 1..Len(a.versions) /\ a.versions[Len(a.versions)] = a.current
<1>1. /\ Len(a.versions) \in Nat /\ DOMAIN a.versions = 1..Len(a.versions)
      /\ Range(a.versions) = {a.versions[k] : k \in 1..Len(a.versions)}
  BY ListProperties
<1>2. PICK k \in 1..Len(a.versions) : a.current = a.versions[k]
  BY <1>1 DEF FlowValid
<1>3. a.current.number = k
  BY <1>1, <1>2 DEF FlowLine
<1> QED
  BY <1>1, <1>2, <1>3 DEF FlowValid

\* A flow's new version is made from the last one.
LEMMA PublishFlowKeeps ==
  ASSUME NEW x \in Assets, KindOf[x] = "FLOW", NEW a, Kept(x, a), a # Absent,
         NEW version, NEW at, PublishFlowVersion(a, version, at).ok
  PROVE  /\ Kept(x, PublishFlowVersion(a, version, at).value)
         /\ Follows(x, a, PublishFlowVersion(a, version, at).value)
<1> DEFINE r == RevisionNext(a.revision)
           v == FlowVersion(version, a.id, Len(a.versions) + 1, a.current.id)
           n == [a EXCEPT !.pointer = version, !.current = v, !.versions = Append(@, v),
                          !.updated = at, !.revision = r.value]
<1>1. /\ ~a.deleted /\ TransitionTimely(a, at) /\ r.ok /\ FlowValid(n)
      /\ PublishFlowVersion(a, version, at).value = n
  BY DEF PublishFlowVersion, Rejected, Done
<1>2. /\ a.id = x /\ a.revision \in 1..MaxRevision /\ IsList(a.versions)
      /\ DOMAIN a = Roots \union {"pointer", "current", "versions"}
      /\ FlowValid(a) /\ FlowLine(a) /\ a.deleted \in BOOLEAN
  BY KeptFields
<1>3. r.value \in 1..MaxRevision
  BY <1>1, <1>2, RevisionFits
<1>4. v.number = Len(a.versions) + 1 /\ v.source = a.current.id
  BY DEF FlowVersion
<1> HIDE DEF v
<1>5. /\ n.deleted = a.deleted /\ n.id = a.id /\ n.versions = Append(a.versions, v)
      /\ n.revision = r.value /\ n.updated = at /\ DOMAIN n = DOMAIN a
  BY <1>2 DEF Roots
<1> HIDE DEF n, r
<1>6. /\ IsList(n.versions) /\ Len(n.versions) = Len(a.versions) + 1
      /\ \A k \in 1..Len(a.versions) : n.versions[k] = a.versions[k]
      /\ n.versions[Len(a.versions) + 1] = v
      /\ SubSeq(n.versions, 1, Len(a.versions)) = a.versions
  BY <1>2, <1>5, Appended
<1>7. Len(a.versions) \in Nat /\ DOMAIN a.versions = 1..Len(a.versions)
  BY <1>2, ListProperties
<1>8. FlowLine(n)
  <2> SUFFICES ASSUME NEW k \in DOMAIN n.versions
               PROVE  /\ n.versions[k].number = k
                      /\ n.versions[k].source = IF k = 1 THEN None ELSE n.versions[k - 1].id
    BY DEF FlowLine
  <2>1. k \in 1..(Len(a.versions) + 1)
    BY <1>6, ListProperties
  <2>2. CASE k \in 1..Len(a.versions)
    <3>1. /\ a.versions[k].number = k
          /\ a.versions[k].source = IF k = 1 THEN None ELSE a.versions[k - 1].id
      BY <1>2, <1>7, <2>2 DEF FlowLine
    <3>2. k # 1 => k - 1 \in 1..Len(a.versions)
      BY <1>7, <2>2
    <3> QED
      BY <1>6, <2>2, <3>1, <3>2
  <2>3. CASE k = Len(a.versions) + 1
    <3>1. Len(a.versions) \in 1..Len(a.versions) /\ a.versions[Len(a.versions)] = a.current
      BY <1>2, LastIsCurrent
    <3>2. k # 1 /\ k - 1 = Len(a.versions)
      BY <1>7, <2>3, <3>1
    <3> QED
      BY <1>4, <1>6, <2>3, <3>1, <3>2
  <2> QED
    BY <1>7, <2>1, <2>2, <2>3
<1>9. Kept(x, n)
  BY <1>1, <1>2, <1>3, <1>5, <1>6, <1>8, PresentIsNotAbsent, KeptWhen
<1>10. Follows(x, a, n)
  <2>1. Len(n.versions) >= Len(a.versions)
    BY <1>6, <1>7
  <2> QED
    BY <1>1, <1>5, <1>6, <2>1 DEF Follows, TransitionTimely
<1> QED
  BY <1>1, <1>9, <1>10

\* Whatever operation a request asks for keeps the asset and its history.
LEMMA ChangeKeeps ==
  ASSUME NEW q \in Requests, q.op # "CREATE", NEW a, Kept(q.asset, a), a # Absent, Change(q, a).ok
  PROVE  Kept(q.asset, Change(q, a).value) /\ Follows(q.asset, a, Change(q, a).value)
<1> DEFINE x == q.asset
<1>0. x \in Assets /\ a.deleted \in BOOLEAN /\ "deleted" \in DOMAIN a
  BY RequestKinds, KeptFields DEF Roots
<1>1. CASE q.op = "PUBLISH" /\ KindOf[x] = "FLOW"
  <2>1. Change(q, a) = PublishFlowVersion(a, q.version, q.at)
    BY <1>1 DEF Change
  <2> QED
    BY <1>0, <1>1, <2>1, PublishFlowKeeps
<1>2. CASE q.op = "PUBLISH" /\ KindOf[x] # "FLOW"
  <2>1. Change(q, a) = PublishVersion(a, q.version, q.at)
    BY <1>2 DEF Change
  <2> QED
    BY <1>0, <1>2, <2>1, RequestKinds, PublishKeeps DEF Kinds
<1>3. CASE q.op = "UPDATE" /\ KindOf[x] = "ENVIRONMENT"
  <2>1. Change(q, a) = AdvanceEnvironment(a, a, q.at) /\ ~a.deleted
    BY <1>3 DEF Change, UpdateEnvironment, Rejected
  <2> QED
    BY <1>0, <1>3, <2>1, AdvanceEnvironmentKeeps
<1>4. CASE q.op = "UPDATE" /\ KindOf[x] # "ENVIRONMENT"
  <2>1. Change(q, a) = Advance(a, a, q.at) /\ ~a.deleted
    BY <1>4 DEF Change, UpdateMetadata, Rejected
  <2> QED
    BY <1>0, <1>4, <2>1, RequestKinds, AdvanceKeeps DEF Kinds
<1>5. CASE q.op \in {"DELETE", "RESTORE"} /\ KindOf[x] = "ENVIRONMENT"
  <2>1. Change(q, a) = setEnvironmentDeleted(a, (q.op = "DELETE"), q.at)
    BY <1>5, Zenon DEF Change
  <2>2. ASSUME NEW d \in BOOLEAN, setEnvironmentDeleted(a, d, q.at).ok
        PROVE  /\ Kept(x, setEnvironmentDeleted(a, d, q.at).value)
               /\ Follows(x, a, setEnvironmentDeleted(a, d, q.at).value)
    <3> DEFINE b == [a EXCEPT !.deleted = d]
    <3>1. setEnvironmentDeleted(a, d, q.at) = AdvanceEnvironment(a, b, q.at) /\ a.deleted # d
      BY <2>2 DEF setEnvironmentDeleted, Rejected
    <3>2. DOMAIN b = DOMAIN a /\ b.id = a.id /\ b.deleted = d
      BY <1>0
    <3> HIDE DEF b
    <3> QED
      BY <1>0, <1>5, <2>2, <3>1, <3>2, AdvanceEnvironmentKeeps
  <2> QED
    BY <2>1, <2>2
<1>6. CASE q.op \in {"DELETE", "RESTORE"} /\ KindOf[x] # "ENVIRONMENT"
  <2>1. Change(q, a) = setDeleted(a, (q.op = "DELETE"), q.at)
    BY <1>6, Zenon DEF Change
  <2>2. ASSUME NEW d \in BOOLEAN, setDeleted(a, d, q.at).ok
        PROVE  Kept(x, setDeleted(a, d, q.at).value) /\ Follows(x, a, setDeleted(a, d, q.at).value)
    <3> DEFINE b == [a EXCEPT !.deleted = d]
    <3>1. setDeleted(a, d, q.at) = Advance(a, b, q.at) /\ a.deleted # d
      BY <2>2 DEF setDeleted, Rejected
    <3>2. DOMAIN b = DOMAIN a /\ b.id = a.id /\ b.versions = a.versions /\ b.deleted = d
      BY <1>0
    <3>3. KindOf[x] = "FRAGMENT"
      BY <1>6, RequestKinds DEF Kinds
    <3> HIDE DEF b
    <3> QED
      BY <1>0, <2>2, <3>1, <3>2, <3>3, AdvanceKeeps
  <2> QED
    BY <2>1, <2>2
<1> QED
  BY <1>1, <1>2, <1>3, <1>4, <1>5, <1>6, RequestKinds DEF Kinds

-----------------------------------------------------------------------------
(* Histories.                                                              *)

\* Every stored aggregate is kept.
AllKept == \A x \in Assets : Kept(x, store[x])

LEMMA InitKept == Init => AllKept
BY FirstAssumption DEF Init, AllKept, Kept

\* A save changes one asset, to one that is kept and follows the one before.
LEMMA SaveKeeps ==
  ASSUME IInv, AllKept, NEW c \in Callers, Save(c)
  PROVE  LET x == call[c].request.asset IN
         /\ x \in Assets /\ Kept(x, store'[x])
         /\ \A y \in Assets : y # x => store'[y] = store[y]
         /\ store'[x].revision = store[x].revision + 1
         /\ store[x] # Absent => Follows(x, store[x], store'[x])
<1> DEFINE q == call[c].request
           x == q.asset
           a == store[x]
<1>1. /\ q \in Requests /\ Apply(q, a).ok
      /\ store' = [store EXCEPT ![x] = Apply(q, a).value]
      /\ Apply(q, a).value.revision = a.revision + 1
  BY SaveApplies
<1>2. x \in Assets /\ x \in DOMAIN store /\ Kept(x, a)
  BY <1>1, RequestKinds DEF IInv, Stored, AllKept
<1>3. store'[x] = Apply(q, a).value /\ \A y \in Assets : y # x => store'[y] = store[y]
  BY <1>1, <1>2 DEF IInv, Stored
<1>4. CASE a = Absent
  <2>1. Apply(q, a) = Make(q)
    BY <1>1, <1>4 DEF Apply, Rejected
  <2> QED
    BY <1>1, <1>2, <1>3, <1>4, <2>1, MakeKeeps
<1>5. CASE a # Absent
  <2>1. Apply(q, a) = Change(q, a) /\ q.op # "CREATE"
    BY <1>1, <1>5 DEF Apply, Rejected
  <2> QED
    BY <1>1, <1>2, <1>3, <1>5, <2>1, ChangeKeeps
<1> QED
  BY <1>4, <1>5

\* The store changes by saves only.
LEMMA OnlySavesChange ==
  ASSUME [Next]_vars
  PROVE  store' = store \/ \E c \in Callers : Save(c)
BY DEF Next, Step, vars, Begin, Again, Create, transition, SaveRefused, SaveFails

LEMMA NextKept == ASSUME IInv, AllKept, [Next]_vars PROVE AllKept'
<1>1. CASE store' = store
  BY <1>1 DEF AllKept
<1>2. ASSUME NEW c \in Callers, Save(c) PROVE AllKept'
  BY <1>2, SaveKeeps DEF AllKept
<1> QED
  BY <1>1, <1>2, OnlySavesChange

LEMMA KeptHolds == Spec => [](IInv /\ AllKept)
  BY InitIInv, NextIInv, InitKept, NextKept, PTL DEF Spec

\* However the callers interleave and whichever answers are lost, what is stored can be
\* loaded and built upon, flows are lines, and no version is ever changed or dropped
\* (versioning.go, lifecycle.go, test_task.go).
THEOREM HistoriesTheorem == Spec => HistoriesAreKept
<1>1. AllKept => Whole /\ FlowsAreLines
  BY DEF AllKept, Kept, Whole, FlowsAreLines
<1>2. ASSUME IInv, AllKept, [Next]_vars
      PROVE  [\A x \in Assets :
               LET a == store[x]
                   b == store'[x]
               IN a # Absent /\ a # b =>
                    /\ b.revision = a.revision + 1 /\ b.updated >= a.updated
                    /\ a.deleted => ~b.deleted
                    /\ KindOf[x] # "ENVIRONMENT" =>
                         /\ Len(b.versions) >= Len(a.versions)
                         /\ SubSeq(b.versions, 1, Len(a.versions)) = a.versions]_vars
  <2>1. CASE store' = store
    BY <2>1
  <2>2. ASSUME NEW c \in Callers, Save(c), NEW x \in Assets, store[x] # Absent, store'[x] # store[x]
        PROVE  store'[x].revision = store[x].revision + 1 /\ Follows(x, store[x], store'[x])
    BY <1>2, <2>2, SaveKeeps
  <2> QED
    BY <1>2, <2>1, <2>2, OnlySavesChange DEF Follows
<1> QED
  BY <1>1, <1>2, KeptHolds, PTL DEF Spec, HistoriesAreKept, HistoryIsPermanent

-----------------------------------------------------------------------------
(* Publications of recordings. The inductive invariant says what is stored  *)
(* and what everyone holds who saw an earlier revision of it: it is written *)
(* of the store S and the ledger L, so that it can be stated of what they   *)
(* are before a step and after it.                                          *)

\* What a write makes of a target: one revision further, at no earlier time, and
\* every version in its place.
WriteOf(a, b) ==
  /\ b.revision = a.revision + 1 /\ b.updated >= a.updated
  /\ \A i \in DOMAIN a.versions :
       /\ i \in DOMAIN b.versions
       /\ b.versions[i].id = a.versions[i].id
       /\ b.versions[i].number = a.versions[i].number

StoreWhole(S) ==
  /\ DOMAIN S = Targets
  /\ \A t \in Targets : S[t] # NoTarget => WholeTarget(t, S[t])

\* Every target is left, stored for the first time, or written.
Grows(S, T) ==
  /\ DOMAIN T = Targets
  /\ \A t \in Targets :
       \/ T[t] = S[t]
       \/ WholeTarget(t, T[t]) /\ (S[t] # NoTarget => WriteOf(S[t], T[t]))

\* A target is at the revision r that somebody saw, or past it.
Reached(S, t, r) == t \in Targets /\ S[t] # NoTarget /\ r \in Nat /\ S[t].revision >= r
At(S, t, r) == S[t].revision = r

\* What a publisher saw is the target as it is, or as it was.
Seen(S, t, s) == WholeTarget(t, s) /\ Reached(S, t, s.revision) /\ (At(S, t, s.revision) => S[t] = s)
SeenOf(S, n, s) == IF n.mode = "CREATE" THEN s = NoTarget ELSE s = NoTarget \/ Seen(S, n.target, s)

\* What is sent of a node fits the target as long as that is at the revision that was seen.
NodeFits(S, n, d) ==
  /\ d.mode = n.mode /\ d.temp = n.temp /\ d.agg.id = n.target /\ d.agg.current.id = n.version
  /\ n.mode \in {"CREATE", "MERGE", "REUSE"} /\ d.publish = (n.mode # "REUSE")
  /\ \E v \in Range(d.agg.versions) : v.id = n.version /\ ~v.deleted
  /\ n.mode # "REUSE" => WholeTarget(n.target, d.agg)
  /\ n.mode # "CREATE" => Reached(S, n.target, d.expectedRevision)
  /\ n.mode = "MERGE" /\ At(S, n.target, d.expectedRevision) => WriteOf(S[n.target], d.agg)
  /\ n.mode = "REUSE" /\ At(S, n.target, d.expectedRevision) => S[n.target].versions = d.agg.versions
CommandFits(S, p, m) ==
  LET nodes == Plan[p].nodes IN
  /\ p \in Pubs /\ m.number = 1
  /\ IsList(m.nodes) /\ DOMAIN m.nodes = DOMAIN nodes
  /\ \A i \in DOMAIN nodes : NodeFits(S, nodes[i], m.nodes[i])
  /\ \A i, j \in DOMAIN nodes : nodes[i].target = nodes[j].target => i = j
  /\ m.refs = References(m.nodes)

\* What is in the ledger was published, and its result is its own.
LedgerHolds(L) ==
  /\ DOMAIN L = Pubs
  /\ \A p \in Pubs : L[p] # NoLedger =>
       L[p] = [digest |-> L[p].digest, result |-> ResultOf(L[p].digest)]
Extends(L, M) == \A p \in Pubs : L[p] # NoLedger => M[p] = L[p]

\* What a publisher holds.
Holds(S, L, k) ==
  /\ DOMAIN k = DOMAIN AtRest /\ k.at \in {"IDLE", "READ", "LOOKUP", "PUBLISH", "REPLY", "DONE"}
  /\ k.code # "CONTENT_INVALID"
  /\ k.at = "READ" =>
       /\ k.pub \in Pubs /\ k.time \in Times
       /\ IsList(k.seen) /\ Len(k.seen) <= Len(Plan[k.pub].nodes)
       /\ \A i \in 1..Len(k.seen) : SeenOf(S, Plan[k.pub].nodes[i], k.seen[i])
  /\ k.command # NoPublication => CommandFits(S, k.pub, k.command)
  /\ k.at \in {"LOOKUP", "PUBLISH", "REPLY"} => k.command # NoPublication
  /\ k.at = "REPLY" =>
       /\ L[k.pub].digest = k.command
       /\ DOMAIN k.outcome = DOMAIN NoOutcome /\ k.outcome.result = L[k.pub].result

\* What an editor holds.
Edits(S, k) ==
  /\ DOMAIN k = DOMAIN NoEdit /\ k.at \in {"IDLE", "LOAD", "SAVE"}
  /\ k.at # "IDLE" => Reached(S, k.target, k.expected)
  /\ k.at = "SAVE" =>
       /\ WholeTarget(k.target, k.next)
       /\ At(S, k.target, k.expected) => WriteOf(S[k.target], k.next)

Resolves(S, F) ==
  \A f \in DOMAIN F : \A r \in F[f] :
    r[1] \in Targets /\ S[r[1]] # NoTarget /\ r[2] \in IDsOf(S[r[1]].versions)

PublicationSound ==
  /\ StoreWhole(targets) /\ LedgerHolds(ledger) /\ Resolves(targets, flows)
  /\ DOMAIN publisher = Publishers /\ \A c \in Publishers : Holds(targets, ledger, publisher[c])
  /\ DOMAIN edit = Editors /\ \A e \in Editors : Edits(targets, edit[e])

\* What a caller was told, from what it holds.
Tells(k) ==
  IF k.at = "DONE" /\ k.code = "OK" THEN <<k.pub, [digest |-> k.command, result |-> k.result]>>
  ELSE <<None, NoLedger>>

\* What a step does to the ledger and to what callers were told.
Promised ==
  \/ ledger' = ledger /\ \A c \in Publishers : Tells(publisher'[c]) = Tells(publisher[c])
  \/ \E c \in Publishers :
       /\ ledger' = ledger
       /\ \A d \in Publishers \ {c} : Tells(publisher'[d]) = Tells(publisher[d])
       /\ \/ Tells(publisher'[c]) = <<None, NoLedger>>
          \/ \E p \in Pubs : ledger[p] # NoLedger /\ Tells(publisher'[c]) = <<p, ledger[p]>>
  \/ \E p \in Pubs :
       /\ ledger[p] = NoLedger /\ ledger'[p] # NoLedger
       /\ ledger' = [ledger EXCEPT ![p] = ledger'[p]]
       /\ \A c \in Publishers : Tells(publisher'[c]) = Tells(publisher[c])

\* What a step leaves and keeps.
StepSound ==
  /\ Grows(targets, targets') /\ Extends(ledger, ledger') /\ LedgerHolds(ledger')
  /\ Resolves(targets', flows')
  /\ \A f \in DOMAIN flows' \ DOMAIN flows : \A r \in flows'[f] :
       \E v \in Range(targets'[r[1]].versions) : v.id = r[2] /\ ~v.deleted
  /\ DOMAIN publisher' = Publishers /\ DOMAIN edit' = Editors
  /\ \A c \in Publishers : publisher'[c] = publisher[c] \/ Holds(targets', ledger', publisher'[c])
  /\ \A e \in Editors : edit'[e] = edit[e] \/ Edits(targets', edit'[e])
  /\ Promised

-----------------------------------------------------------------------------
(* What the operations on element targets leave.                           *)

LEMMA TargetFields ==
  ASSUME NEW t, NEW a, WholeTarget(t, a)
  PROVE  /\ a # NoTarget /\ a.revision \in Nat \ {0} /\ a.updated \in Nat
         /\ IsList(a.versions) /\ Len(a.versions) \in Nat /\ DOMAIN a.versions = 1..Len(a.versions)
         /\ Range(a.versions) = {a.versions[k] : k \in 1..Len(a.versions)}
<1>1. a # NoTarget
  BY DEF WholeTarget, NoTarget, NoVersion
<1>2. IsList(a.versions) /\ a.revision \in 1..MaxRevision /\ a.updated \in Nat
  BY DEF WholeTarget, IsList
<1> QED
  BY <1>1, <1>2, ListProperties, BoundsAssumption

\* An operation that checks the history anew and leaves the versions.
LEMMA AdvanceGrows ==
  ASSUME NEW t, NEW a, WholeTarget(t, a), NEW b, DOMAIN b = DOMAIN a, b.id = a.id,
         b.versions = a.versions, b.deleted \in BOOLEAN, NEW at \in Nat, Advance(a, b, at).ok
  PROVE  WholeTarget(t, Advance(a, b, at).value) /\ WriteOf(a, Advance(a, b, at).value)
<1> DEFINE r == RevisionNext(a.revision)
           n == [b EXCEPT !.updated = at, !.revision = r.value]
<1>1. r.ok /\ TransitionTimely(a, at) /\ ValidateLoadedHistory(n) /\ Advance(a, b, at).value = n
  BY DEF Advance, Rejected, Done
<1>2. r.value = a.revision + 1 /\ a.revision + 1 \in 1..MaxRevision
  BY <1>1, RevisionFits DEF WholeTarget
<1>3. /\ n.deleted = b.deleted /\ n.id = a.id /\ n.versions = a.versions
      /\ n.revision = a.revision + 1 /\ n.updated = at /\ DOMAIN n = DOMAIN a
  BY <1>2 DEF WholeTarget
<1> HIDE DEF n, r
<1> QED
  BY <1>1, <1>2, <1>3 DEF WholeTarget, WriteOf, TransitionTimely

LEMMA UpdateGrows ==
  ASSUME NEW t, NEW a, WholeTarget(t, a), NEW at \in Nat, UpdateMetadata(a, at).ok
  PROVE  WholeTarget(t, UpdateMetadata(a, at).value) /\ WriteOf(a, UpdateMetadata(a, at).value)
<1>1. UpdateMetadata(a, at) = Advance(a, a, at) /\ a.deleted \in BOOLEAN
  BY DEF UpdateMetadata, Rejected, WholeTarget
<1> QED
  BY <1>1, AdvanceGrows

LEMMA DeletedGrows ==
  ASSUME NEW t, NEW a, WholeTarget(t, a), NEW at \in Nat, NEW d \in BOOLEAN, setDeleted(a, d, at).ok
  PROVE  WholeTarget(t, setDeleted(a, d, at).value) /\ WriteOf(a, setDeleted(a, d, at).value)
<1> DEFINE b == [a EXCEPT !.deleted = d]
<1>1. setDeleted(a, d, at) = Advance(a, b, at)
  BY DEF setDeleted, Rejected
<1>2. DOMAIN b = DOMAIN a /\ b.id = a.id /\ b.versions = a.versions /\ b.deleted = d
  BY DEF WholeTarget
<1> HIDE DEF b
<1> QED
  BY <1>1, <1>2, AdvanceGrows

\* A published version stands at the end of the history.
LEMMA PublishGrows ==
  ASSUME NEW t, NEW a, WholeTarget(t, a), NEW version, NEW at \in Nat, PublishVersion(a, version, at).ok
  PROVE  LET n == PublishVersion(a, version, at).value
         IN /\ WholeTarget(t, n) /\ WriteOf(a, n)
            /\ n.current = Version(version, t, Len(a.versions) + 1) /\ n.current \in Range(n.versions)
            /\ Valid(n) /\ RevisionNext(a.revision) = Done(n.revision)
            /\ a.pointer # version /\ Len(a.versions) >= 1
<1> DEFINE v == Version(version, a.id, Len(a.versions) + 1)
           n == PublishVersion(a, version, at).value
<1>1. /\ IsList(a.versions) /\ a.revision \in 1..MaxRevision /\ ValidateLoadedHistory(a)
      /\ {"revision", "pointer", "updated", "current", "versions"} \subseteq DOMAIN a /\ a.id = t
  BY TargetFields DEF WholeTarget
<1>a. LET m == PublishVersion(a, version, at).value
          w == Version(version, a.id, Len(a.versions) + 1)
      IN /\ Valid(a) /\ ~a.deleted /\ TransitionTimely(a, at)
         /\ a.current.id \in IDsOf(a.versions)
         /\ version \notin {None, a.current.id} \union IDsOf(a.versions)
         /\ RevisionNext(a.revision) = Done(a.revision + 1) /\ a.revision + 1 \in 1..MaxRevision
         /\ m = [a EXCEPT !.pointer = version, !.current = w, !.versions = Append(@, w),
                          !.updated = at, !.revision = a.revision + 1]
         /\ m.versions = Append(a.versions, w)
         /\ Valid(m) /\ ValidateLoadedHistory(m)
  <2> HIDE DEF n, v
  <2> QED
    BY <1>1, PublishFacts
<1>2. /\ Valid(a) /\ ~a.deleted /\ TransitionTimely(a, at) /\ a.current.id \in IDsOf(a.versions)
      /\ version \notin {None, a.current.id} \union IDsOf(a.versions)
      /\ RevisionNext(a.revision) = Done(a.revision + 1) /\ a.revision + 1 \in 1..MaxRevision
      /\ n = [a EXCEPT !.pointer = version, !.current = v, !.versions = Append(@, v),
                       !.updated = at, !.revision = a.revision + 1]
      /\ n.versions = Append(a.versions, v)
      /\ Valid(n) /\ ValidateLoadedHistory(n)
  BY <1>a
<1>3. DOMAIN v = DOMAIN NoVersion
  BY DEF Version, NoVersion
<1> HIDE DEF v, n
<1>4. /\ n.deleted = a.deleted /\ n.id = a.id /\ n.versions = Append(a.versions, v)
      /\ n.revision = a.revision + 1 /\ n.updated = at /\ DOMAIN n = DOMAIN a
      /\ n.current = v
  <2>1. DOMAIN a = {"id", "revision", "pointer", "deleted", "updated", "current", "versions"}
    BY DEF WholeTarget
  <2> QED
    BY <1>2, <2>1
<1>5. /\ IsList(n.versions) /\ Range(n.versions) = Range(a.versions) \union {v}
      /\ Len(n.versions) = Len(a.versions) + 1
      /\ \A k \in 1..Len(a.versions) : n.versions[k] = a.versions[k]
  BY <1>1, <1>4, Appended
<1>6. /\ Len(a.versions) \in Nat /\ DOMAIN a.versions = 1..Len(a.versions)
      /\ DOMAIN n.versions = 1..Len(n.versions)
      /\ Range(a.versions) = {a.versions[k] : k \in 1..Len(a.versions)}
  BY <1>1, <1>5, ListProperties
<1>7. WholeTarget(t, n)
  BY <1>1, <1>2, <1>3, <1>4, <1>5 DEF WholeTarget, IsList
<1>8. WriteOf(a, n)
  BY <1>2, <1>4, <1>5, <1>6 DEF WriteOf, TransitionTimely
<1>9. Len(a.versions) >= 1
  <2>1. Range(a.versions) # {}
    BY <1>2 DEF IDsOf
  <2> QED
    BY <1>6, <2>1
<1> QED
  BY <1>1, <1>2, <1>4, <1>5, <1>7, <1>8, <1>9 DEF v, n, Valid

\* An edit that succeeds.
LEMMA TransitionGrows ==
  ASSUME NEW t, NEW a, WholeTarget(t, a), NEW at \in Nat, NEW r \in Transitions(a, at), r.ok
  PROVE  WholeTarget(t, r.value) /\ WriteOf(a, r.value)
<1>1. CASE r = UpdateMetadata(a, at)
  BY <1>1, UpdateGrows
<1>2. CASE \E d \in BOOLEAN : r = setDeleted(a, d, at)
  BY <1>2, DeletedGrows
<1>3. CASE \E v \in EditIDs : r = PublishVersion(a, v, at)
  <2>1. PICK v \in EditIDs : r = PublishVersion(a, v, at)
    BY <1>3
  <2> QED
    BY <2>1, PublishGrows
<1> QED
  BY <1>1, <1>2, <1>3 DEF Transitions

\* A new target is whole.
LEMMA CreatedWhole ==
  ASSUME NEW t, NEW version, version # None, NEW at \in Nat, NewElementTarget(t, version, at).ok
  PROVE  LET n == NewElementTarget(t, version, at).value
         IN /\ WholeTarget(t, n) /\ Valid(n)
            /\ n.current = Version(version, t, 1) /\ n.current \in Range(n.versions)
<1> DEFINE first == Version(version, t, 1)
           n == [id |-> t, revision |-> 1, pointer |-> version, deleted |-> FALSE,
                 updated |-> at, current |-> first, versions |-> <<first>>]
<1>1. NewElementTarget(t, version, at).value = n /\ ValidateLoadedHistory(n)
  BY DEF NewElementTarget, Rejected, Done
<1>2. Valid(n)
  BY <1>1 DEF ValidateLoadedHistory
<1>3. Range(<<first>>) = {first}
  BY DEF Range
<1>4. <<first>> \in Seq({first})
  OBVIOUS
<1>5. DOMAIN first = DOMAIN NoVersion
  BY DEF Version, NoVersion
<1> HIDE DEF first
<1>6. WholeTarget(t, n)
  BY <1>1, <1>3, <1>4, <1>5, BoundsAssumption DEF WholeTarget
<1> QED
  BY <1>1, <1>2, <1>3, <1>6 DEF first

-----------------------------------------------------------------------------
(* What the deletion of a version leaves.                                  *)

\* A set of numbers has a least one.
LEMMA Least ==
  ASSUME NEW T \in SUBSET Nat, T # {}
  PROVE  \E x \in T : \A y \in T : x <= y
<1> DEFINE R == OpToRel(<, Nat)
<1>1. IsWellFoundedOn(R, Nat)
  BY NatLessThanWellFounded
<1>2. \A x, y \in Nat : <<y, x>> \in R <=> y < x
  BY DEF OpToRel
<1> HIDE DEF R
<1>3. PICK x \in T : \A y \in T : ~(<<y, x>> \in R)
  BY <1>1, WFMin
<1>4. \A y \in T : ~(y < x)
  BY <1>2, <1>3
<1> QED
  BY <1>4

\* Of versions with numbers up to n one has the highest.
LEMMA Highest ==
  ASSUME NEW V, V # {}, NEW n \in Nat, \A v \in V : v.number \in 1..n
  PROVE  \E v \in V : \A w \in V : w.number <= v.number
<1> DEFINE T == {n - v.number : v \in V}
<1>1. T \in SUBSET Nat /\ T # {}
  OBVIOUS
<1>2. PICK x \in T : \A y \in T : x <= y
  <2> HIDE DEF T
  <2> QED
    BY <1>1, Least
<1>3. PICK v \in V : x = n - v.number
  BY <1>2
<1>4. \A w \in V : n - v.number <= n - w.number
  BY <1>2, <1>3
<1> QED
  BY <1>3, <1>4

\* Identities, numbers and owners of the versions s are those of the versions left.
MarkedFrom(s, left) ==
  /\ IsList(left) /\ Len(left) = Len(s) /\ DOMAIN left = DOMAIN s
  /\ \A k \in DOMAIN s : left[k].id = s[k].id /\ left[k].number = s[k].number
  /\ \A k \in DOMAIN s : left[k].owner = s[k].owner
  /\ \A v \in Range(left) : DOMAIN v = DOMAIN NoVersion
  /\ IDsOf(left) = IDsOf(s) /\ NumbersOf(left) = NumbersOf(s)

\* One version is marked as deleted.
LEMMA MarkedDeleted ==
  ASSUME NEW s, IsList(s), \A v \in Range(s) : DOMAIN v = DOMAIN NoVersion, NEW i \in DOMAIN s
  PROVE  MarkedFrom(s, [s EXCEPT ![i].deleted = TRUE])
<1> DEFINE left == [s EXCEPT ![i].deleted = TRUE]
           e == [s[i] EXCEPT !.deleted = TRUE]
<1>1. Len(s) \in Nat /\ DOMAIN s = 1..Len(s) /\ Range(s) = {s[k] : k \in 1..Len(s)}
  BY ListProperties
<1>2. s \in Seq(Range(s) \union {e})
  BY SeqMonotonic DEF IsList
<1>3. left = [s EXCEPT ![i] = e]
  OBVIOUS
<1>4. /\ DOMAIN s[i] = DOMAIN NoVersion /\ DOMAIN NoVersion = {"id", "owner", "number", "deleted"}
  BY <1>1 DEF NoVersion
<1>5. DOMAIN e = DOMAIN NoVersion /\ e.id = s[i].id /\ e.number = s[i].number /\ e.owner = s[i].owner
  BY <1>4
<1>6. e \in Range(s) \union {e} /\ i \in 1..Len(s)
  BY <1>1
<1> HIDE DEF e, left
<1>7. left \in Seq(Range(s) \union {e}) /\ Len(left) = Len(s)
      /\ \A k \in 1..Len(s) : left[k] = IF k = i THEN e ELSE s[k]
  BY <1>2, <1>3, <1>6, ExceptSeq
<1>8. DOMAIN left = 1..Len(s) /\ Range(left) = {left[k] : k \in 1..Len(s)}
  BY <1>7, LenProperties DEF Range
<1>9. IsList(left)
  <2>1. left \in [1..Len(s) -> Range(left)]
    BY <1>7, <1>8, LenProperties
  <2> QED
    BY <1>1, <2>1, SeqDef DEF IsList
<1>10. \A k \in DOMAIN s : left[k].id = s[k].id /\ left[k].number = s[k].number /\ left[k].owner = s[k].owner
  BY <1>1, <1>5, <1>7
<1>11. \A v \in Range(left) : DOMAIN v = DOMAIN NoVersion
  BY <1>1, <1>5, <1>7, <1>8
<1>12. IDsOf(left) = IDsOf(s) /\ NumbersOf(left) = NumbersOf(s)
  <2>1. /\ IDsOf(left) = {left[k].id : k \in 1..Len(s)} /\ NumbersOf(left) = {left[k].number : k \in 1..Len(s)}
        /\ IDsOf(s) = {s[k].id : k \in 1..Len(s)} /\ NumbersOf(s) = {s[k].number : k \in 1..Len(s)}
    BY <1>1, <1>8 DEF IDsOf, NumbersOf
  <2> QED
    BY <1>1, <1>10, <2>1
<1> QED
  BY <1>1, <1>7, <1>8, <1>9, <1>10, <1>11, <1>12 DEF left, MarkedFrom

\* The pointer moves to the highest version that is left, or to none.
LEMMA DeletionGrows ==
  ASSUME NEW t, NEW a, WholeTarget(t, a), a.revision < MaxRevision, Valid(a),
         NEW left, MarkedFrom(a.versions, left),
         NEW b, DOMAIN b = DOMAIN a, b.id = a.id, b.updated = a.updated, b.deleted = a.deleted,
         b.versions = left, b.revision = a.revision + 1,
         b.current = ResolveCurrentVersion(left), b.pointer = ResolveCurrentVersion(left).id
  PROVE  WholeTarget(t, b) /\ WriteOf(a, b)
<1> DEFINE live == {v \in Range(left) : ~v.deleted /\ v.id # None}
           top == ResolveCurrentVersion(left)
<1>1. /\ IsList(a.versions) /\ DOMAIN a.versions = 1..Len(a.versions) /\ a.updated \in Nat
      /\ Range(a.versions) = {a.versions[k] : k \in 1..Len(a.versions)}
      /\ \A v \in Range(a.versions) : DOMAIN v = DOMAIN NoVersion
      /\ DOMAIN a = {"id", "revision", "pointer", "deleted", "updated", "current", "versions"}
      /\ ValidateLoadedHistory(a) /\ a.revision \in 1..MaxRevision /\ a.deleted \in BOOLEAN
      /\ a.id = t /\ Len(a.versions) \in Nat
  BY TargetFields DEF WholeTarget
<1>2. /\ IsList(left) /\ Len(left) = Len(a.versions) /\ DOMAIN left = DOMAIN a.versions
      /\ \A k \in DOMAIN left : left[k].id = a.versions[k].id /\ left[k].number = a.versions[k].number
      /\ \A k \in DOMAIN left : left[k].owner = a.versions[k].owner
      /\ \A v \in Range(left) : DOMAIN v = DOMAIN NoVersion
      /\ IDsOf(left) = IDsOf(a.versions) /\ NumbersOf(left) = NumbersOf(a.versions)
  BY <1>1 DEF MarkedFrom
<1>3. /\ b.versions = left /\ b.revision = a.revision + 1 /\ b.current = top /\ b.pointer = top.id
      /\ b.updated = a.updated /\ b.deleted = a.deleted /\ b.id = t /\ DOMAIN b = DOMAIN a
  BY <1>1
<1>5. validateVersionIdentity(left)
  BY <1>1, <1>2 DEF ValidateLoadedHistory, validateVersionIdentity
<1>6. Range(left) = {left[k] : k \in 1..Len(left)}
  BY <1>2, ListProperties
<1>7. OwnedBy(left, t)
  <2>1. \A v \in Range(a.versions) : v.owner = t
    BY <1>1 DEF ValidateLoadedHistory, OwnedBy
  <2>2. \A k \in 1..Len(left) : left[k].owner = t
    BY <1>1, <1>2, <2>1
  <2> QED
    BY <1>6, <2>2 DEF OwnedBy
<1>a. validateVersionIdentity(b.versions) /\ OwnedBy(b.versions, b.id)
  BY <1>3, <1>5, <1>7
<1> HIDE DEF top
<1>10. ValidateLoadedHistory(b)
  <2>1. CASE live = {}
    <3>1. top = NoVersion
      BY <2>1 DEF ResolveCurrentVersion, top
    <3>2. top.id = None
      BY <3>1 DEF NoVersion
    <3>3. \A v \in Range(left) : v.deleted
      BY <1>5, <2>1 DEF validateVersionIdentity, IDsOf
    <3> QED
      <4>1. b.pointer = None /\ b.current.id = None /\ \A v \in Range(b.versions) : v.deleted
        BY <1>3, <3>2, <3>3
      <4> HIDE DEF live
      <4> QED
        BY <1>a, <4>1 DEF ValidateLoadedHistory
  <2>2. CASE live # {}
    <3>1. top = CHOOSE v \in live : \A w \in live : w.number <= v.number
      BY <2>2 DEF ResolveCurrentVersion, top
    <3>2. \A v \in Range(left) : v.number \in 1..Len(left)
      BY <1>5 DEF validateVersionIdentity, NumbersOf
    <3>3. \E v \in live : \A w \in live : w.number <= v.number
      BY <1>1, <1>2, <2>2, <3>2, Highest
    <3>4. top \in live
      BY <3>1, <3>3
    <3>5. top.id # None /\ top.owner = t /\ top.number >= 1 /\ top.id \in IDsOf(left)
      BY <1>7, <3>2, <3>4 DEF OwnedBy, IDsOf
    <3>6. t # None
      BY <1>1 DEF Valid
    <3>7. Valid(b)
      BY <1>3, <3>5, <3>6 DEF Valid
    <3> QED
      <4>1. b.pointer # None /\ b.current.id \in IDsOf(b.versions)
        BY <1>3, <3>5
      <4> HIDE DEF live
      <4> QED
        BY <1>a, <3>7, <4>1 DEF ValidateLoadedHistory
  <2> QED
    BY <2>1, <2>2
<1>11. a.revision + 1 \in 1..MaxRevision
  BY <1>1, BoundsAssumption
<1>12. WholeTarget(t, b)
  BY <1>1, <1>2, <1>3, <1>10, <1>11 DEF WholeTarget, IsList
<1> QED
  BY <1>1, <1>2, <1>3, <1>12 DEF WriteOf

-----------------------------------------------------------------------------
(* What the mapper makes of what was read.                                 *)

LEMMA CreateMapped ==
  ASSUME NEW S, NEW n, n.mode = "CREATE", n.version # None, NEW at \in Nat, mapCreate(n, at).ok
  PROVE  NodeFits(S, n, mapCreate(n, at).value) /\ DecisionValid(mapCreate(n, at).value)
<1> DEFINE made == NewElementTarget(n.target, n.version, at)
           d == Decision(n, made.value, 0, None, TRUE)
<1>1. made.ok /\ mapCreate(n, at).value = d
  BY DEF mapCreate, Done
<1>2. /\ WholeTarget(n.target, made.value) /\ Valid(made.value)
      /\ made.value.current = Version(n.version, n.target, 1)
      /\ made.value.current \in Range(made.value.versions)
  BY <1>1, CreatedWhole
<1>3. /\ d.temp = n.temp /\ d.mode = "CREATE" /\ d.agg = made.value /\ d.expectedRevision = 0
      /\ d.expectedCurrent = None /\ d.publish = TRUE
  BY DEF Decision
<1>4. /\ d.agg.current.id = n.version /\ d.agg.current.number = 1 /\ ~d.agg.current.deleted
  <2>1. d.agg.current = Version(n.version, n.target, 1)
    BY <1>2, <1>3
  <2> HIDE DEF d
  <2> QED
    BY <2>1 DEF Version
<1>5. d.agg.id = n.target
  BY <1>2, <1>3 DEF WholeTarget
<1> HIDE DEF d
<1>6. NodeFits(S, n, d)
  BY <1>2, <1>3, <1>4, <1>5 DEF NodeFits
<1>7. DecisionValid(d)
  BY <1>2, <1>3, <1>4 DEF DecisionValid, containsReferenceable
<1> QED
  BY <1>1, <1>6, <1>7

LEMMA MergeMapped ==
  ASSUME NEW S, NEW n, n.mode = "MERGE", n.version # None, NEW at \in Nat,
         NEW s, SeenOf(S, n, s), mapMerge(n, s, at).ok
  PROVE  NodeFits(S, n, mapMerge(n, s, at).value) /\ DecisionValid(mapMerge(n, s, at).value)
<1> DEFINE next == PublishVersion(s, n.version, at)
           d == Decision(n, next.value, s.revision, s.pointer, TRUE)
<1>1. s # NoTarget /\ s.pointer # None /\ next.ok /\ mapMerge(n, s, at).value = d
  BY DEF mapMerge, Done, Rejected
<1>2. Seen(S, n.target, s)
  BY <1>1 DEF SeenOf
<1>3. LET b == PublishVersion(s, n.version, at).value
      IN /\ WholeTarget(n.target, b) /\ WriteOf(s, b)
         /\ b.current = Version(n.version, n.target, Len(s.versions) + 1) /\ b.current \in Range(b.versions)
         /\ Valid(b) /\ RevisionNext(s.revision) = Done(b.revision)
         /\ s.pointer # n.version /\ Len(s.versions) >= 1
  <2>1. WholeTarget(n.target, s)
    BY <1>2 DEF Seen
  <2> QED
    BY <1>1, <2>1, PublishGrows
<1>4. /\ d.temp = n.temp /\ d.mode = "MERGE" /\ d.agg = next.value /\ d.expectedRevision = s.revision
      /\ d.expectedCurrent = s.pointer /\ d.publish = TRUE
  BY DEF Decision
<1>5. Len(s.versions) \in Nat
  BY <1>2, TargetFields DEF Seen
<1>6. /\ d.agg.current.id = n.version /\ d.agg.current.number >= 2 /\ ~d.agg.current.deleted
  <2>1. d.agg.current = Version(n.version, n.target, Len(s.versions) + 1) /\ Len(s.versions) >= 1
    BY <1>3, <1>4
  <2> HIDE DEF d
  <2> QED
    BY <1>5, <2>1 DEF Version
<1>7. /\ WholeTarget(n.target, d.agg) /\ WriteOf(s, d.agg) /\ d.agg.id = n.target /\ Valid(d.agg)
      /\ d.agg.current \in Range(d.agg.versions) /\ RevisionNext(d.expectedRevision) = Done(d.agg.revision)
      /\ d.expectedCurrent \notin {None, d.agg.current.id}
  <2>1. WholeTarget(n.target, d.agg) /\ WriteOf(s, d.agg) /\ Valid(d.agg)
        /\ d.agg.current \in Range(d.agg.versions) /\ RevisionNext(d.expectedRevision) = Done(d.agg.revision)
        /\ s.pointer # n.version
    BY <1>3, <1>4
  <2> QED
    BY <1>1, <1>4, <1>6, <2>1 DEF WholeTarget
<1> HIDE DEF d, next
<1>8. NodeFits(S, n, d)
  BY <1>2, <1>4, <1>6, <1>7 DEF NodeFits, Seen
<1>9. DecisionValid(d)
  BY <1>4, <1>6, <1>7 DEF DecisionValid, containsReferenceable
<1> QED
  BY <1>1, <1>8, <1>9

LEMMA ReuseMapped ==
  ASSUME NEW S, NEW n, n.mode = "REUSE", n.version # None,
         NEW s, SeenOf(S, n, s), mapReuse(n, s).ok
  PROVE  NodeFits(S, n, mapReuse(n, s).value) /\ DecisionValid(mapReuse(n, s).value)
<1> DEFINE of == referenceable(s.versions, n.version)
           v == CHOOSE w \in of : TRUE
           b == [s EXCEPT !.current = v]
           d == Decision(n, b, s.revision, s.pointer, FALSE)
<1>1. /\ s # NoTarget /\ s.pointer = s.current.id /\ ValidateLoadedHistory(s) /\ of # {}
      /\ mapReuse(n, s).value = d
  BY DEF mapReuse, Done, Rejected
<1>2. Seen(S, n.target, s)
  BY <1>1 DEF SeenOf
<1>3. v \in Range(s.versions) /\ v.id = n.version /\ ~v.deleted
  BY <1>1 DEF referenceable
<1> HIDE DEF v, of
<1>4. Valid(s) /\ s.pointer # None
  BY <1>1, <1>3 DEF ValidateLoadedHistory
<1>5. v.owner = s.id /\ v.number >= 1
  <2>1. NumbersOf(s.versions) = 1..Len(s.versions) /\ v.number \in NumbersOf(s.versions)
    BY <1>1, <1>3 DEF ValidateLoadedHistory, validateVersionIdentity, NumbersOf
  <2>2. Len(s.versions) \in Nat
    BY <1>2, TargetFields DEF Seen
  <2> QED
    BY <1>1, <1>3, <2>1, <2>2 DEF ValidateLoadedHistory, OwnedBy
<1>6. /\ DOMAIN s = {"id", "revision", "pointer", "deleted", "updated", "current", "versions"}
      /\ s.id = n.target /\ s.revision # 0
  BY <1>2, TargetFields DEF Seen, WholeTarget
<1>7. /\ b.id = n.target /\ b.current = v /\ b.versions = s.versions /\ b.pointer = s.pointer
      /\ b.revision = s.revision /\ DOMAIN b = DOMAIN s
  BY <1>6
<1>8. ValidFor(v, b)
  <2> DEFINE e == [b EXCEPT !.pointer = v.id, !.current = v]
  <2>1. e.id = n.target /\ e.pointer = v.id /\ e.current = v
    BY <1>6, <1>7
  <2> HIDE DEF e
  <2>2. Valid(e)
    BY <1>3, <1>4, <1>5, <1>6, <2>1 DEF Valid
  <2> QED
    BY <2>2 DEF ValidFor, e
<1> HIDE DEF b
<1>9. /\ d.temp = n.temp /\ d.mode = "REUSE" /\ d.agg = b /\ d.expectedRevision = s.revision
      /\ d.expectedCurrent = s.pointer /\ d.publish = FALSE
  BY DEF Decision
<1> HIDE DEF d
<1>10. NodeFits(S, n, d)
  BY <1>2, <1>3, <1>7, <1>9 DEF NodeFits, Seen
<1>11. DecisionValid(d)
  BY <1>3, <1>4, <1>6, <1>7, <1>8, <1>9 DEF DecisionValid, containsReferenceable
<1> QED
  BY <1>1, <1>10, <1>11

\* What is asked of a node is refused by a code of its own.
LEMMA NodeNamed ==
  ASSUME NEW n, NEW s, NEW at
  PROVE  Named(mapSamplingNode(n, s, at))
<1>1. Named(mapCreate(n, at))
  BY DEF mapCreate, NewElementTarget, Named, Rejected, Done
<1>2. Named(mapMerge(n, s, at))
  <2>1. Named(PublishVersion(s, n.version, at))
    BY PublishNamed
  <2> QED
    BY <2>1 DEF mapMerge, Named, Rejected, Done
<1>3. Named(mapReuse(n, s))
  BY DEF mapReuse, Named, Rejected, Done
<1>4. Named(Rejected("AUTHORITY_INVALID"))
  BY DEF Named, Rejected
<1> QED
  BY <1>1, <1>2, <1>3, <1>4 DEF mapSamplingNode

LEMMA NodeMapped ==
  ASSUME NEW S, NEW n, n.mode \in {"CREATE", "MERGE", "REUSE", "UNDECIDED"}, n.version # None,
         NEW at \in Nat, NEW s, SeenOf(S, n, s), mapSamplingNode(n, s, at).ok
  PROVE  /\ NodeFits(S, n, mapSamplingNode(n, s, at).value)
         /\ DecisionValid(mapSamplingNode(n, s, at).value)
<1>1. CASE n.mode = "CREATE"
  <2>1. mapSamplingNode(n, s, at) = mapCreate(n, at)
    BY <1>1 DEF mapSamplingNode
  <2> QED
    BY <1>1, <2>1, CreateMapped
<1>2. CASE n.mode = "MERGE"
  <2>1. mapSamplingNode(n, s, at) = mapMerge(n, s, at)
    BY <1>2 DEF mapSamplingNode
  <2> QED
    BY <1>2, <2>1, MergeMapped
<1>3. CASE n.mode = "REUSE"
  <2>1. mapSamplingNode(n, s, at) = mapReuse(n, s)
    BY <1>3 DEF mapSamplingNode
  <2> QED
    BY <1>3, <2>1, ReuseMapped
<1>4. CASE n.mode = "UNDECIDED"
  BY <1>4 DEF mapSamplingNode, Rejected
<1> QED
  BY <1>1, <1>2, <1>3, <1>4

LEMMA PlanNodes ==
  ASSUME NEW p \in Pubs
  PROVE  /\ Len(Plan[p].nodes) \in Nat /\ DOMAIN Plan[p].nodes = 1..Len(Plan[p].nodes)
         /\ \A i \in 1..Len(Plan[p].nodes) :
              /\ Plan[p].nodes[i].target \in Targets
              /\ Plan[p].nodes[i].mode \in {"CREATE", "MERGE", "REUSE", "UNDECIDED"}
<1>1. IsList(Plan[p].nodes)
  BY PlanAssumption DEF IsList
<1>2. \A n \in Range(Plan[p].nodes) : n.target \in Targets /\ n.mode \in {"CREATE", "MERGE", "REUSE", "UNDECIDED"}
  BY PlanAssumption
<1> QED
  BY <1>1, <1>2, ListProperties

\* A function on 1..n is a list of n.
LEMMA ListOf ==
  ASSUME NEW n \in Nat, NEW f, f = [i \in 1..n |-> f[i]]
  PROVE  IsList(f) /\ Len(f) = n
<1>1. f \in [1..n -> Range(f)]
  BY DEF Range
<1>2. f \in Seq(Range(f))
  BY <1>1, SeqDef
<1>3. DOMAIN f = 1..Len(f) /\ Len(f) \in Nat
  BY <1>2, LenProperties
<1> QED
  BY <1>2, <1>3 DEF IsList

\* The publication that is mapped fits what was read and passes the content checks.
LEMMA Mapped ==
  ASSUME NEW S, NEW p \in Pubs, NEW at \in Nat, NEW seen,
         \A i \in DOMAIN Plan[p].nodes : SeenOf(S, Plan[p].nodes[i], seen[i])
  PROVE  LET made == MapSamplingPublication(p, seen, at)
         IN IF made.ok THEN CommandFits(S, p, made.value) /\ made.value # NoPublication
            ELSE made.code \notin {"OK", "CONTENT_INVALID"}
<1> DEFINE nodes == Plan[p].nodes
           mapped == [i \in DOMAIN nodes |-> mapSamplingNode(nodes[i], seen[i], at)]
           wrong == {i \in DOMAIN nodes : ~mapped[i].ok}
           decisions == [i \in DOMAIN nodes |-> mapped[i].value]
           made == [nodes |-> decisions, flow |-> Plan[p].flow, version |-> Plan[p].version,
                    number |-> 1, refs |-> References(decisions)]
           temporary == [i \in DOMAIN nodes |-> nodes[i].temp]
           formal == [i \in DOMAIN nodes |-> nodes[i].target]
           asked == [i \in DOMAIN nodes |-> nodes[i].version]
           blank == \/ at = 0 \/ None \in {Plan[p].flow, Plan[p].version}
                    \/ \E i \in DOMAIN nodes : None \in {temporary[i], formal[i], asked[i]}
                    \/ \E f \in {temporary, formal, asked} : ~IsInjective(f)
           result == MapSamplingPublication(p, seen, at)
<1>1. /\ blank => result = Rejected("AUTHORITY_INVALID")
      /\ ~blank /\ wrong # {} => result = mapped[CHOOSE i \in wrong : \A j \in wrong : i <= j]
      /\ ~blank /\ wrong = {} /\ ~validateContent(made) => result = Rejected("CONTENT_INVALID")
      /\ ~blank /\ wrong = {} /\ validateContent(made) => result = Done(made)
  BY Zenon DEF MapSamplingPublication
<1>2. /\ Len(nodes) \in Nat /\ DOMAIN nodes = 1..Len(nodes)
      /\ \A i \in DOMAIN nodes : nodes[i].mode \in {"CREATE", "MERGE", "REUSE", "UNDECIDED"}
  BY PlanNodes
<1> HIDE DEF result, made, nodes
<1>3. CASE blank
  <2>1. result = Rejected("AUTHORITY_INVALID")
    BY <1>1, <1>3
  <2>2. ~result.ok /\ result.code = "AUTHORITY_INVALID"
    BY <2>1 DEF Rejected
  <2> QED
    BY <2>2 DEF result
<1>4. CASE ~blank /\ wrong # {}
  <2> DEFINE first == CHOOSE i \in wrong : \A j \in wrong : i <= j
  <2>1. wrong \in SUBSET Nat
    BY <1>2
  <2>2. first \in wrong
    <3> HIDE DEF wrong
    <3>1. \E i \in wrong : \A j \in wrong : i <= j
      BY <1>4, <2>1, Least
    <3> QED
      BY <3>1
  <2> HIDE DEF first
  <2>3. mapped[first] = mapSamplingNode(nodes[first], seen[first], at) /\ ~mapped[first].ok
    BY <2>2
  <2>4. ~result.ok /\ result.code \notin {"OK", "CONTENT_INVALID"}
    <3>1. Named(mapped[first])
      BY <2>3, NodeNamed
    <3>2. result = mapped[first]
      BY <1>1, <1>4 DEF first
    <3> QED
      BY <2>3, <3>1, <3>2 DEF Named
  <2> QED
    BY <2>4 DEF result
<1>5. CASE ~blank /\ wrong = {}
  <2>1. \A i \in DOMAIN nodes : nodes[i].version # None
    BY <1>5
  <2>2. \A i \in DOMAIN nodes : mapSamplingNode(nodes[i], seen[i], at).ok
    BY <1>5
  <2>3. \A i \in DOMAIN nodes : NodeFits(S, nodes[i], decisions[i]) /\ DecisionValid(decisions[i])
    <3>1. TAKE i \in DOMAIN nodes
    <3>2. SeenOf(S, nodes[i], seen[i])
      BY DEF nodes
    <3>3. decisions[i] = mapSamplingNode(nodes[i], seen[i], at).value
      OBVIOUS
    <3> HIDE DEF decisions
    <3> QED
      BY <1>2, <2>1, <2>2, <3>2, <3>3, NodeMapped
  <2>4. IsInjective(temporary) /\ IsInjective(formal) /\ IsInjective(asked)
    BY <1>5
  <2>5. \A i \in DOMAIN nodes :
           decisions[i].temp = nodes[i].temp /\ decisions[i].agg.id = nodes[i].target
           /\ decisions[i].agg.current.id = nodes[i].version
    <3> HIDE DEF decisions
    <3> QED
      BY <2>3 DEF NodeFits
  <2>6. DOMAIN decisions = DOMAIN nodes /\ decisions = [i \in DOMAIN nodes |-> decisions[i]]
    OBVIOUS
  <2> HIDE DEF decisions
  <2>7. IsList(decisions) /\ Range(decisions) = {decisions[i] : i \in DOMAIN nodes}
    BY <1>2, <2>6, ListOf DEF Range
  <2>8. made.nodes = decisions /\ made.refs = References(decisions) /\ made.number = 1
    BY DEF made
  <2>9. validateContent(made)
    <3>1. /\ [i \in DOMAIN decisions |-> decisions[i].temp] = temporary
          /\ [i \in DOMAIN decisions |-> decisions[i].agg.id] = formal
          /\ [i \in DOMAIN decisions |-> decisions[i].agg.current.id] = asked
      BY <2>5, <2>6
    <3>2. \A d \in Range(decisions) : DecisionValid(d)
      BY <2>3, <2>7
    <3> HIDE DEF temporary, formal, asked
    <3> QED
      BY <2>4, <2>8, <3>1, <3>2 DEF validateContent
  <2>10. CommandFits(S, p, made)
    <3>1. \A i, j \in DOMAIN nodes : nodes[i].target = nodes[j].target => i = j
      BY <2>4 DEF IsInjective
    <3> QED
      BY <2>3, <2>6, <2>7, <2>8, <3>1 DEF CommandFits, nodes
  <2>11. made # NoPublication
    BY <2>8 DEF NoPublication
  <2>12. result = Done(made)
    BY <1>1, <1>5, <2>9
  <2>13. result.ok /\ result.value = made
    BY <2>12 DEF Done
  <2> QED
    BY <2>10, <2>11, <2>13 DEF result
<1> QED
  BY <1>3, <1>4, <1>5

-----------------------------------------------------------------------------
(* What everyone holds stays true whatever is written meanwhile.           *)

\* A target that was seen at a revision stays, and is the same at that revision.
LEMMA ReachedStays ==
  ASSUME NEW S, StoreWhole(S), NEW T, Grows(S, T), NEW t, NEW r, Reached(S, t, r)
  PROVE  Reached(T, t, r) /\ (At(T, t, r) => T[t] = S[t] /\ At(S, t, r))
<1>1. t \in Targets /\ S[t] # NoTarget /\ r \in Nat /\ S[t].revision >= r
  BY DEF Reached
<1>2. WholeTarget(t, S[t])
  BY <1>1 DEF StoreWhole
<1>3. S[t].revision \in Nat
  BY <1>2, TargetFields
<1>4. CASE T[t] = S[t]
  BY <1>1, <1>4 DEF Reached, At
<1>5. CASE WholeTarget(t, T[t]) /\ WriteOf(S[t], T[t])
  <2>1. T[t] # NoTarget
    BY <1>5, TargetFields
  <2>2. T[t].revision = S[t].revision + 1 /\ r \notin {S[t].revision + 1}
    BY <1>1, <1>3, <1>5 DEF WriteOf
  <2>3. S[t].revision + 1 >= r
    BY <1>1, <1>2, <1>3
  <2> QED
    BY <1>1, <2>1, <2>2, <2>3 DEF Reached, At
<1> QED
  BY <1>1, <1>4, <1>5 DEF Grows

LEMMA SeenStays ==
  ASSUME NEW S, StoreWhole(S), NEW T, Grows(S, T), NEW n, NEW s, SeenOf(S, n, s)
  PROVE  SeenOf(T, n, s)
<1>1. Seen(S, n.target, s) => Seen(T, n.target, s)
  BY ReachedStays DEF Seen
<1> QED
  BY <1>1 DEF SeenOf

LEMMA FitStays ==
  ASSUME NEW S, StoreWhole(S), NEW T, Grows(S, T), NEW n, NEW d, NodeFits(S, n, d)
  PROVE  NodeFits(T, n, d)
<1>1. n.mode # "CREATE" =>
        /\ Reached(T, n.target, d.expectedRevision)
        /\ At(T, n.target, d.expectedRevision) =>
             T[n.target] = S[n.target] /\ At(S, n.target, d.expectedRevision)
  BY ReachedStays DEF NodeFits
<1> QED
  BY <1>1 DEF NodeFits

LEMMA CommandStays ==
  ASSUME NEW S, StoreWhole(S), NEW T, Grows(S, T), NEW p, NEW m, CommandFits(S, p, m)
  PROVE  CommandFits(T, p, m)
BY FitStays DEF CommandFits

LEMMA HoldsStays ==
  ASSUME NEW S, StoreWhole(S), NEW T, Grows(S, T), NEW L, LedgerHolds(L), NEW M, Extends(L, M),
         NEW k, Holds(S, L, k)
  PROVE  Holds(T, M, k)
<1>1. k.at = "READ" => \A i \in 1..Len(k.seen) : SeenOf(T, Plan[k.pub].nodes[i], k.seen[i])
  BY SeenStays DEF Holds
<1>2. k.command # NoPublication => CommandFits(T, k.pub, k.command)
  BY CommandStays DEF Holds
<1>3. k.at = "REPLY" => M[k.pub] = L[k.pub]
  <2>1. SUFFICES ASSUME k.at = "REPLY" PROVE M[k.pub] = L[k.pub]
    OBVIOUS
  <2>2. k.command # NoPublication /\ L[k.pub].digest = k.command /\ CommandFits(S, k.pub, k.command)
    BY <2>1 DEF Holds
  <2>3. L[k.pub] # NoLedger /\ k.pub \in Pubs
    BY <2>2 DEF NoLedger, CommandFits
  <2> QED
    BY <2>3 DEF Extends
<1> QED
  BY <1>1, <1>2, <1>3 DEF Holds

LEMMA EditsStays ==
  ASSUME NEW S, StoreWhole(S), NEW T, Grows(S, T), NEW k, Edits(S, k)
  PROVE  Edits(T, k)
<1>1. k.at # "IDLE" =>
        /\ Reached(T, k.target, k.expected)
        /\ At(T, k.target, k.expected) => T[k.target] = S[k.target] /\ At(S, k.target, k.expected)
  BY ReachedStays DEF Edits
<1> QED
  BY <1>1 DEF Edits

LEMMA IdentitiesStay ==
  ASSUME NEW S, StoreWhole(S), NEW T, Grows(S, T), NEW t \in Targets, S[t] # NoTarget
  PROVE  T[t] # NoTarget /\ IDsOf(S[t].versions) \subseteq IDsOf(T[t].versions)
<1>1. WholeTarget(t, S[t])
  BY DEF StoreWhole
<1>2. CASE T[t] = S[t]
  BY <1>2
<1>3. CASE WholeTarget(t, T[t]) /\ WriteOf(S[t], T[t])
  <2>1. Range(S[t].versions) = {S[t].versions[k] : k \in DOMAIN S[t].versions}
    BY <1>1, TargetFields
  <2>2. Range(T[t].versions) = {T[t].versions[k] : k \in DOMAIN T[t].versions}
    BY <1>3, TargetFields
  <2>3. IDsOf(S[t].versions) \subseteq IDsOf(T[t].versions)
    BY <1>3, <2>1, <2>2 DEF IDsOf, WriteOf
  <2> QED
    BY <1>3, <2>3, TargetFields
<1> QED
  BY <1>2, <1>3 DEF Grows

LEMMA ResolvesStays ==
  ASSUME NEW S, StoreWhole(S), NEW T, Grows(S, T), NEW F, Resolves(S, F)
  PROVE  Resolves(T, F)
BY IdentitiesStay DEF Resolves

LEMMA WholeStays ==
  ASSUME NEW S, StoreWhole(S), NEW T, Grows(S, T)
  PROVE  StoreWhole(T)
BY DEF StoreWhole, Grows

LEMMA NothingGrows ==
  ASSUME NEW S, StoreWhole(S)
  PROVE  Grows(S, S)
BY DEF StoreWhole, Grows

-----------------------------------------------------------------------------
(* The steps of a publisher.                                               *)

LEMMA PublisherFields ==
  ASSUME NEW S, NEW L, NEW k, Holds(S, L, k)
  PROVE  DOMAIN k = {"at", "pub", "time", "seen", "command", "code", "result", "outcome"}
BY DEF Holds, AtRest

\* A step that only moves one publisher.
LEMMA PublisherMoves ==
  ASSUME PublicationSound, NEW c \in Publishers, UNCHANGED <<targets, flows, ledger, edit>>,
         NEW k, publisher' = [publisher EXCEPT ![c] = k], Holds(targets, ledger, k),
         \/ Tells(k) = <<None, NoLedger>>
         \/ \E p \in Pubs : ledger[p] # NoLedger /\ Tells(k) = <<p, ledger[p]>>
  PROVE  StepSound
<1>1. /\ StoreWhole(targets) /\ LedgerHolds(ledger) /\ Resolves(targets, flows)
      /\ DOMAIN publisher = Publishers /\ DOMAIN edit = Editors
  BY DEF PublicationSound
<1>2. Grows(targets, targets') /\ Extends(ledger, ledger') /\ LedgerHolds(ledger') /\ Resolves(targets', flows')
  BY <1>1, NothingGrows DEF Extends
<1>3. publisher'[c] = k /\ \A d \in Publishers \ {c} : publisher'[d] = publisher[d]
  BY <1>1
<1>4. DOMAIN publisher' = Publishers /\ DOMAIN edit' = Editors /\ DOMAIN flows' \ DOMAIN flows = {}
  BY <1>1
<1>5. \A d \in Publishers : publisher'[d] = publisher[d] \/ Holds(targets', ledger', publisher'[d])
  BY <1>3
<1>6. Promised
  BY <1>3 DEF Promised
<1> QED
  BY <1>2, <1>4, <1>5, <1>6 DEF StepSound

LEMMA AskStep ==
  ASSUME PublicationSound, NEW c \in Publishers, NEW p \in Pubs, NEW at \in Times, Ask(c, p, at)
  PROVE  StepSound
<1> DEFINE k == [AtRest EXCEPT !.at = "READ", !.pub = p, !.time = at]
<1>1. /\ k.at = "READ" /\ k.pub = p /\ k.time = at /\ k.seen = <<>> /\ k.command = NoPublication
      /\ k.code = "OK" /\ DOMAIN k = DOMAIN AtRest
  BY DEF AtRest
<1>2. publisher' = [publisher EXCEPT ![c] = k] /\ UNCHANGED <<targets, flows, ledger, edit>>
  BY DEF Ask, UnchangedStore
<1> HIDE DEF k
<1>3. IsList(<<>>) /\ Len(<<>>) = 0
  BY EmptySeq DEF IsList
<1>4. Len(Plan[p].nodes) \in Nat
  BY PlanNodes
<1>5. Holds(targets, ledger, k)
  BY <1>1, <1>3, <1>4 DEF Holds
<1>6. Tells(k) = <<None, NoLedger>>
  BY <1>1 DEF Tells
<1> QED
  BY <1>2, <1>5, <1>6, PublisherMoves

LEMMA ReadStep ==
  ASSUME PublicationSound, NEW c \in Publishers, ReadAuthority(c)
  PROVE  StepSound
<1> DEFINE b == publisher[c]
           nodes == Plan[b.pub].nodes
           next == nodes[Len(b.seen) + 1]
           authority == IF next.mode = "CREATE" THEN NoTarget ELSE targets[next.target]
           k == [b EXCEPT !.seen = Append(@, authority)]
<1>1. /\ b.at = "READ" /\ Len(b.seen) < Len(nodes) /\ publisher' = [publisher EXCEPT ![c] = k]
      /\ UNCHANGED <<targets, flows, ledger, edit>>
  BY DEF ReadAuthority, UnchangedStore
<1>2. Holds(targets, ledger, b) /\ StoreWhole(targets)
  BY DEF PublicationSound
<1> HIDE DEF b
<1>3. /\ b.pub \in Pubs /\ b.time \in Times /\ IsList(b.seen)
      /\ \A i \in 1..Len(b.seen) : SeenOf(targets, nodes[i], b.seen[i])
  BY <1>1, <1>2 DEF Holds
<1>4. Len(b.seen) \in Nat /\ Len(nodes) \in Nat /\ next.target \in Targets
  BY <1>1, <1>3, ListProperties, PlanNodes
<1>5. SeenOf(targets, next, authority)
  <2> HIDE DEF next
  <2>1. CASE next.mode = "CREATE" \/ targets[next.target] = NoTarget
    BY <2>1 DEF SeenOf
  <2>2. CASE next.mode # "CREATE" /\ targets[next.target] # NoTarget
    <3>1. WholeTarget(next.target, targets[next.target])
      BY <1>2, <1>4, <2>2 DEF StoreWhole
    <3>2. targets[next.target].revision \in Nat
      BY <3>1, TargetFields
    <3>3. Seen(targets, next.target, targets[next.target])
      <4>1. Reached(targets, next.target, targets[next.target].revision)
        BY <1>4, <2>2, <3>2 DEF Reached
      <4> QED
        BY <3>1, <4>1 DEF Seen
    <3>4. authority = targets[next.target]
      BY <2>2
    <3> QED
      BY <2>2, <3>3, <3>4 DEF SeenOf
  <2> QED
    BY <2>1, <2>2
<1> HIDE DEF authority
<1>6. /\ k.at = b.at /\ k.pub = b.pub /\ k.time = b.time /\ k.seen = Append(b.seen, authority)
      /\ k.command = b.command /\ k.code = b.code /\ DOMAIN k = DOMAIN b
  BY <1>2, PublisherFields
<1>7. /\ IsList(k.seen) /\ Len(k.seen) = Len(b.seen) + 1
      /\ \A i \in 1..Len(b.seen) : k.seen[i] = b.seen[i]
      /\ k.seen[Len(b.seen) + 1] = authority
  BY <1>3, <1>6, Appended
<1>8. \A i \in 1..Len(k.seen) : SeenOf(targets, nodes[i], k.seen[i])
  <2>1. TAKE i \in 1..Len(k.seen)
  <2>2. CASE i = Len(b.seen) + 1
    BY <1>5, <1>7, <2>2
  <2>3. CASE i \in 1..Len(b.seen)
    BY <1>3, <1>7, <2>3
  <2> QED
    BY <1>4, <1>7, <2>2, <2>3
<1>9. Len(k.seen) <= Len(nodes)
  BY <1>1, <1>4, <1>7
<1> HIDE DEF k
<1>10. Holds(targets, ledger, k)
  BY <1>1, <1>2, <1>3, <1>6, <1>7, <1>8, <1>9 DEF Holds
<1>11. Tells(k) = <<None, NoLedger>>
  BY <1>1, <1>6 DEF Tells
<1> QED
  BY <1>1, <1>10, <1>11, PublisherMoves

LEMMA MapStep ==
  ASSUME PublicationSound, NEW c \in Publishers, Map(c)
  PROVE  StepSound
<1> DEFINE b == publisher[c]
           made == MapSamplingPublication(b.pub, b.seen, b.time)
           k == IF made.ok THEN [b EXCEPT !.at = "LOOKUP", !.command = made.value, !.seen = <<>>]
                ELSE [AtRest EXCEPT !.at = "DONE", !.code = made.code]
<1>1. /\ b.at = "READ" /\ Len(b.seen) = Len(Plan[b.pub].nodes) /\ publisher' = [publisher EXCEPT ![c] = k]
      /\ UNCHANGED <<targets, flows, ledger, edit>>
  BY DEF Map, UnchangedStore
<1>2. Holds(targets, ledger, b)
  BY DEF PublicationSound
<1> HIDE DEF b
<1>3. /\ b.pub \in Pubs /\ b.time \in Nat
      /\ \A i \in 1..Len(b.seen) : SeenOf(targets, Plan[b.pub].nodes[i], b.seen[i])
  BY <1>1, <1>2, PlanAssumption DEF Holds
<1>4. \A i \in DOMAIN Plan[b.pub].nodes : SeenOf(targets, Plan[b.pub].nodes[i], b.seen[i])
  BY <1>1, <1>3, PlanNodes
<1>5. IF made.ok THEN CommandFits(targets, b.pub, made.value) /\ made.value # NoPublication
      ELSE made.code \notin {"OK", "CONTENT_INVALID"}
  BY <1>3, <1>4, Mapped
<1> HIDE DEF made
<1>6. Holds(targets, ledger, k) /\ Tells(k) = <<None, NoLedger>>
  <2>1. CASE made.ok
    <3>1. /\ k.at = "LOOKUP" /\ k.command = made.value /\ k.pub = b.pub /\ k.code = b.code
          /\ DOMAIN k = DOMAIN b
      BY <1>2, <2>1, PublisherFields
    <3> HIDE DEF k
    <3> QED
      BY <1>2, <1>5, <2>1, <3>1 DEF Holds, Tells
  <2>2. CASE ~made.ok
    <3>1. /\ k.at = "DONE" /\ k.command = NoPublication /\ k.code = made.code
          /\ DOMAIN k = DOMAIN AtRest
      BY <2>2 DEF AtRest
    <3> HIDE DEF k
    <3> QED
      BY <1>5, <2>2, <3>1 DEF Holds, Tells
  <2> QED
    BY <2>1, <2>2
<1> HIDE DEF k
<1> QED
  BY <1>1, <1>6, PublisherMoves

LEMMA AgainStep ==
  ASSUME PublicationSound, NEW c \in Publishers, SendAgain(c)
  PROVE  StepSound
<1> DEFINE b == publisher[c]
           k == [b EXCEPT !.at = "LOOKUP", !.code = "OK", !.result = NoResult]
<1>1. Holds(targets, ledger, b) /\ DOMAIN publisher = Publishers
  BY DEF PublicationSound
<1>2. b.command # NoPublication /\ UNCHANGED <<targets, flows, ledger, edit>>
  BY DEF SendAgain, UnchangedStore
<1>3. publisher' = [publisher EXCEPT ![c] = k]
  BY <1>1 DEF SendAgain
<1> HIDE DEF b
<1>4. /\ k.at = "LOOKUP" /\ k.command = b.command /\ k.pub = b.pub /\ k.code = "OK" /\ DOMAIN k = DOMAIN b
  BY <1>1, PublisherFields
<1> HIDE DEF k
<1>5. Holds(targets, ledger, k) /\ Tells(k) = <<None, NoLedger>>
  BY <1>1, <1>2, <1>4 DEF Holds, Tells
<1> QED
  BY <1>2, <1>3, <1>5, PublisherMoves

\* A refusal, or no answer.
LEMMA AnswersStep ==
  ASSUME PublicationSound, NEW c \in Publishers, NEW code, code \notin {"OK", "CONTENT_INVALID"},
         Answers(c, code), UNCHANGED <<targets, flows, ledger, edit>>
  PROVE  StepSound
<1> DEFINE b == publisher[c]
           k == [b EXCEPT !.at = "DONE", !.code = code, !.result = NoResult]
<1>1. Holds(targets, ledger, b) /\ DOMAIN publisher = Publishers
  BY DEF PublicationSound
<1>2. publisher' = [publisher EXCEPT ![c] = k]
  BY <1>1 DEF Answers
<1> HIDE DEF b
<1>3. /\ k.at = "DONE" /\ k.command = b.command /\ k.pub = b.pub /\ k.code = code /\ DOMAIN k = DOMAIN b
  BY <1>1, PublisherFields
<1> HIDE DEF k
<1>4. Holds(targets, ledger, k) /\ Tells(k) = <<None, NoLedger>>
  BY <1>1, <1>3 DEF Holds, Tells
<1> QED
  BY <1>2, <1>4, PublisherMoves

\* The answer of the ledger to what is on its way.
LEMMA ReplayStep ==
  ASSUME PublicationSound, NEW c \in Publishers, publisher[c].at \in {"LOOKUP", "PUBLISH"},
         ledger[publisher[c].pub].digest = publisher[c].command, Reply(c, Replay(c)),
         UNCHANGED <<targets, flows, ledger, edit>>
  PROVE  StepSound
<1> DEFINE b == publisher[c]
           o == Replay(c)
           k == [b EXCEPT !.at = "REPLY", !.outcome = o]
<1>1. Holds(targets, ledger, b) /\ DOMAIN publisher = Publishers
  BY DEF PublicationSound
<1>2. publisher' = [publisher EXCEPT ![c] = k]
  BY <1>1 DEF Reply
<1>3. o.result = ledger[b.pub].result /\ DOMAIN o = DOMAIN NoOutcome
  BY DEF Replay, NoOutcome
<1>4. b.at \in {"LOOKUP", "PUBLISH"} /\ ledger[b.pub].digest = b.command
  OBVIOUS
<1> HIDE DEF b, o
<1>5. /\ k.at = "REPLY" /\ k.command = b.command /\ k.pub = b.pub /\ k.code = b.code /\ k.outcome = o
      /\ DOMAIN k = DOMAIN b
  BY <1>1, PublisherFields
<1> HIDE DEF k
<1>6. Holds(targets, ledger, k) /\ Tells(k) = <<None, NoLedger>>
  BY <1>1, <1>3, <1>4, <1>5 DEF Holds, Tells
<1> QED
  BY <1>2, <1>6, PublisherMoves

LEMMA LookupStep ==
  ASSUME PublicationSound, NEW c \in Publishers, Lookup(c)
  PROVE  StepSound
<1>1. UNCHANGED <<targets, flows, ledger, edit>> /\ publisher[c].at = "LOOKUP"
  BY DEF Lookup, UnchangedStore
<1>2. CASE publisher' = [publisher EXCEPT ![c].at = "PUBLISH"]
  <2> DEFINE b == publisher[c]
             k == [b EXCEPT !.at = "PUBLISH"]
  <2>1. Holds(targets, ledger, b) /\ DOMAIN publisher = Publishers
    BY DEF PublicationSound
  <2>2. publisher' = [publisher EXCEPT ![c] = k] /\ b.at = "LOOKUP"
    BY <1>1, <1>2, <2>1
  <2> HIDE DEF b
  <2>3. /\ k.at = "PUBLISH" /\ k.command = b.command /\ k.pub = b.pub /\ k.code = b.code /\ DOMAIN k = DOMAIN b
    BY <2>1, PublisherFields
  <2> HIDE DEF k
  <2>4. Holds(targets, ledger, k) /\ Tells(k) = <<None, NoLedger>>
    BY <2>1, <2>2, <2>3 DEF Holds, Tells
  <2> QED
    BY <1>1, <2>2, <2>4, PublisherMoves
<1>3. CASE Answers(c, "IDENTITY_CONFLICT")
  BY <1>1, <1>3, AnswersStep
<1>4. CASE ledger[publisher[c].pub].digest = publisher[c].command /\ Reply(c, Replay(c))
  BY <1>1, <1>4, ReplayStep
<1> QED
  BY <1>2, <1>3, <1>4 DEF Lookup

LEMMA FailsStep ==
  ASSUME PublicationSound, NEW c \in Publishers, Fails(c)
  PROVE  StepSound
<1>1. Answers(c, "UNAVAILABLE") /\ UNCHANGED <<targets, flows, ledger, edit>>
  BY DEF Fails, UnchangedStore
<1> QED
  BY <1>1, AnswersStep

\* What is applied fits the store it is applied to: targets are created or written,
\* and every version that is referenced is there and not deleted.
LEMMA Applied ==
  ASSUME NEW S, StoreWhole(S), NEW q, NEW p, CommandFits(S, q, p),
         \A d \in Range(p.nodes) :
           IF d.mode = "CREATE" THEN S[d.agg.id] = NoTarget
           ELSE S[d.agg.id] # NoTarget /\ S[d.agg.id].revision = d.expectedRevision,
         NEW T, DOMAIN T = Targets,
         \A t \in Targets :
           \/ \E d \in Publishing(p) : d.agg.id = t /\ T[t] = d.agg
           \/ (\A d \in Publishing(p) : d.agg.id # t) /\ T[t] = S[t]
  PROVE  /\ Grows(S, T)
         /\ \A r \in p.refs : r[1] \in Targets /\ T[r[1]] # NoTarget
                              /\ \E v \in Range(T[r[1]].versions) : v.id = r[2] /\ ~v.deleted
<1> DEFINE nodes == Plan[q].nodes
<1>1. /\ q \in Pubs /\ DOMAIN p.nodes = DOMAIN nodes /\ p.refs = References(p.nodes)
      /\ \A i \in DOMAIN nodes : NodeFits(S, nodes[i], p.nodes[i])
      /\ \A i, j \in DOMAIN nodes : nodes[i].target = nodes[j].target => i = j
  BY DEF CommandFits
<1>2. \A i \in DOMAIN nodes : nodes[i].target \in Targets
  BY <1>1, PlanNodes
<1>3. Range(p.nodes) = {p.nodes[i] : i \in DOMAIN nodes}
  BY <1>1 DEF Range
<1> HIDE DEF nodes
<1>4. \A i \in DOMAIN nodes :
        LET d == p.nodes[i]
            n == nodes[i]
        IN /\ d \in Range(p.nodes) /\ d.agg.id = n.target /\ d.mode = n.mode /\ d.agg.current.id = n.version
           /\ n.mode \in {"CREATE", "MERGE", "REUSE"} /\ d.publish = (n.mode # "REUSE")
           /\ \E v \in Range(d.agg.versions) : v.id = n.version /\ ~v.deleted
           /\ n.mode # "REUSE" => WholeTarget(n.target, d.agg)
           /\ n.mode = "CREATE" => S[n.target] = NoTarget
           /\ n.mode = "MERGE" => WriteOf(S[n.target], d.agg)
           /\ n.mode = "REUSE" => S[n.target].versions = d.agg.versions /\ S[n.target] # NoTarget
  <2>1. TAKE i \in DOMAIN nodes
  <2> DEFINE d == p.nodes[i]
             n == nodes[i]
  <2>2. NodeFits(S, n, d) /\ d \in Range(p.nodes)
    BY <1>1, <1>3
  <2> HIDE DEF d, n
  <2>3. /\ d.agg.id = n.target /\ d.mode = n.mode /\ d.agg.current.id = n.version
        /\ n.mode \in {"CREATE", "MERGE", "REUSE"} /\ d.publish = (n.mode # "REUSE")
        /\ \E v \in Range(d.agg.versions) : v.id = n.version /\ ~v.deleted
        /\ n.mode # "REUSE" => WholeTarget(n.target, d.agg)
    BY <2>2 DEF NodeFits
  <2>4. IF n.mode = "CREATE" THEN S[n.target] = NoTarget
        ELSE S[n.target] # NoTarget /\ At(S, n.target, d.expectedRevision)
    BY <2>2, <2>3 DEF At
  <2>5. /\ n.mode = "MERGE" => WriteOf(S[n.target], d.agg)
        /\ n.mode = "REUSE" => S[n.target].versions = d.agg.versions
    BY <2>2, <2>4 DEF NodeFits
  <2> QED
    BY <2>2, <2>3, <2>4, <2>5 DEF d, n
<1>5. \A t \in Targets :
        \/ T[t] = S[t]
        \/ WholeTarget(t, T[t]) /\ (S[t] # NoTarget => WriteOf(S[t], T[t]))
  <2>1. TAKE t \in Targets
  <2>2. CASE T[t] # S[t]
    <3>1. PICK d \in Publishing(p) : d.agg.id = t /\ T[t] = d.agg
      BY <2>2
    <3>2. PICK i \in DOMAIN nodes : d = p.nodes[i]
      BY <1>3 DEF Publishing
    <3>3. d.publish
      BY DEF Publishing
    <3>4. /\ nodes[i].target = t /\ nodes[i].mode \in {"CREATE", "MERGE"}
          /\ WholeTarget(nodes[i].target, d.agg)
          /\ nodes[i].mode = "CREATE" => S[nodes[i].target] = NoTarget
          /\ nodes[i].mode = "MERGE" => WriteOf(S[nodes[i].target], d.agg)
      BY <1>4, <3>1, <3>2, <3>3
    <3> QED
      BY <3>1, <3>4
  <2> QED
    BY <2>2
<1>6. \A r \in p.refs : r[1] \in Targets /\ T[r[1]] # NoTarget
                        /\ \E v \in Range(T[r[1]].versions) : v.id = r[2] /\ ~v.deleted
  <2>1. TAKE r \in p.refs
  <2>2. PICK i \in DOMAIN nodes : r = <<p.nodes[i].agg.id, p.nodes[i].agg.current.id>>
    BY <1>1, <1>3 DEF References
  <2> DEFINE t == nodes[i].target
             d == p.nodes[i]
  <2>3. /\ r[1] = t /\ r[2] = nodes[i].version /\ t \in Targets /\ d.agg.id = t
        /\ \E v \in Range(d.agg.versions) : v.id = r[2] /\ ~v.deleted
    BY <1>2, <1>4, <2>2
  <2>4. \A j \in DOMAIN nodes : p.nodes[j].agg.id = t => j = i
    BY <1>1, <1>4
  <2>5. CASE nodes[i].mode = "REUSE"
    <3>1. \A e \in Publishing(p) : e.agg.id # t
      <4>1. ~d.publish
        BY <1>4, <2>5
      <4> QED
        BY <1>3, <2>4, <4>1 DEF Publishing
    <3>2. T[t] = S[t]
      BY <2>3, <3>1
    <3> QED
      BY <1>4, <2>3, <2>5, <3>2
  <2>6. CASE nodes[i].mode # "REUSE"
    <3>1. d.publish /\ d \in Publishing(p)
      BY <1>4, <2>6 DEF Publishing
    <3>2. \A e \in Publishing(p) : e.agg.id = t => e = d
      BY <1>3, <2>4 DEF Publishing
    <3>3. T[t] = d.agg
      BY <2>3, <3>1, <3>2
    <3>4. WholeTarget(t, d.agg)
      BY <1>4, <2>6
    <3> QED
      BY <2>3, <3>3, <3>4, TargetFields
  <2> QED
    BY <2>5, <2>6
<1> QED
  BY <1>5, <1>6 DEF Grows

LEMMA ApplyStep ==
  ASSUME PublicationSound, NEW c \in Publishers, PublishSampling(c),
         ledger[publisher[c].pub] = NoLedger, CanApply(publisher[c].command)
  PROVE  StepSound
<1> DEFINE b == publisher[c]
           p == b.command
           id == b.pub
           entry == [digest |-> p, result |-> ResultOf(p)]
           o == [status |-> "APPLIED", pub |-> id, digest |-> p, result |-> ResultOf(p)]
           k == [b EXCEPT !.at = "REPLY", !.outcome = o]
           written(t) == {d \in Publishing(p) : d.agg.id = t}
<1>1. /\ StoreWhole(targets) /\ LedgerHolds(ledger) /\ Resolves(targets, flows)
      /\ DOMAIN publisher = Publishers /\ DOMAIN edit = Editors /\ Holds(targets, ledger, b)
  BY DEF PublicationSound
<1>2. /\ b.at = "PUBLISH" /\ publisher' = [publisher EXCEPT ![c] = k] /\ edit' = edit
      /\ ledger' = [ledger EXCEPT ![id] = entry]
      /\ flows' = [f \in DOMAIN flows \union {p.flow} |-> IF f = p.flow THEN p.refs ELSE flows[f]]
      /\ targets' = [t \in Targets |->
                       IF written(t) # {} THEN (CHOOSE d \in written(t) : TRUE).agg ELSE targets[t]]
  BY <1>1 DEF PublishSampling, Reply
<1>3. \A d \in Range(p.nodes) :
        IF d.mode = "CREATE" THEN targets[d.agg.id] = NoTarget
        ELSE targets[d.agg.id] # NoTarget /\ targets[d.agg.id].revision = d.expectedRevision
  BY DEF CanApply, AuthorityStands, Held
<1>4. ledger[id] = NoLedger
  OBVIOUS
<1> HIDE DEF b
<1>5. p # NoPublication /\ CommandFits(targets, id, p) /\ id \in Pubs
  BY <1>1, <1>2 DEF Holds, CommandFits
<1>6. /\ DOMAIN targets' = Targets
      /\ \A t \in Targets :
           \/ \E d \in Publishing(p) : d.agg.id = t /\ targets'[t] = d.agg
           \/ (\A d \in Publishing(p) : d.agg.id # t) /\ targets'[t] = targets[t]
  BY <1>2
<1>7. /\ Grows(targets, targets')
      /\ \A r \in p.refs : r[1] \in Targets /\ targets'[r[1]] # NoTarget
                           /\ \E v \in Range(targets'[r[1]].versions) : v.id = r[2] /\ ~v.deleted
  BY <1>1, <1>3, <1>5, <1>6, Applied
<1>8. /\ k.at = "REPLY" /\ k.command = p /\ k.pub = id /\ k.code = b.code /\ k.outcome = o
      /\ DOMAIN k = DOMAIN b
  BY <1>1, PublisherFields
<1>9. /\ entry # NoLedger /\ ledger'[id] = entry /\ DOMAIN ledger' = Pubs
      /\ \A x \in Pubs \ {id} : ledger'[x] = ledger[x]
  BY <1>1, <1>2, <1>5 DEF NoLedger, LedgerHolds
<1>10. Extends(ledger, ledger') /\ LedgerHolds(ledger')
  <2>1. Extends(ledger, ledger')
    BY <1>4, <1>9 DEF Extends
  <2>2. entry = [digest |-> entry.digest, result |-> ResultOf(entry.digest)]
    OBVIOUS
  <2> HIDE DEF entry
  <2> QED
    <3>1. \A x \in Pubs : ledger'[x] # NoLedger =>
            ledger'[x] = [digest |-> ledger'[x].digest, result |-> ResultOf(ledger'[x].digest)]
      <4>1. TAKE x \in Pubs
      <4>2. CASE x = id
        BY <1>9, <2>2, <4>2
      <4>3. CASE x # id
        BY <1>1, <1>9, <4>3 DEF LedgerHolds
      <4> QED
        BY <4>2, <4>3
    <3> QED
      BY <1>9, <2>1, <3>1 DEF LedgerHolds
<1>11. Holds(targets', ledger', k)
  <2>1. CommandFits(targets', id, p)
    BY <1>1, <1>5, <1>7, CommandStays
  <2>2. DOMAIN o = DOMAIN NoOutcome /\ o.result = entry.result /\ entry.digest = p
    BY DEF NoOutcome
  <2> HIDE DEF k, o, entry
  <2> QED
    BY <1>1, <1>5, <1>8, <1>9, <2>1, <2>2 DEF Holds
<1>12. publisher'[c] = k /\ \A d \in Publishers \ {c} : publisher'[d] = publisher[d]
  BY <1>1, <1>2
<1>13. Tells(b) = <<None, NoLedger>> /\ Tells(k) = <<None, NoLedger>>
  <2> HIDE DEF k
  <2> QED
    BY <1>2, <1>8 DEF Tells
<1>14. Promised
  <2>1. \A d \in Publishers : Tells(publisher'[d]) = Tells(publisher[d])
    BY <1>12, <1>13 DEF b
  <2> HIDE DEF entry
  <2> QED
    BY <1>2, <1>4, <1>5, <1>9, <2>1 DEF Promised
<1>15. Resolves(targets', flows')
  <2>1. Resolves(targets', flows)
    BY <1>1, <1>7, ResolvesStays
  <2>2. \A r \in p.refs : r[2] \in IDsOf(targets'[r[1]].versions)
    BY <1>7 DEF IDsOf
  <2> QED
    BY <1>2, <1>7, <2>1, <2>2 DEF Resolves
<1>16. \A f \in DOMAIN flows' \ DOMAIN flows : \A r \in flows'[f] :
         \E v \in Range(targets'[r[1]].versions) : v.id = r[2] /\ ~v.deleted
  BY <1>2, <1>7
<1>17. DOMAIN publisher' = Publishers /\ DOMAIN edit' = Editors
  BY <1>1, <1>2
<1> HIDE DEF k
<1> QED
  BY <1>2, <1>7, <1>10, <1>11, <1>12, <1>14, <1>15, <1>16, <1>17 DEF StepSound

LEMMA PublishStep ==
  ASSUME PublicationSound, NEW c \in Publishers, PublishSampling(c)
  PROVE  StepSound
<1>1. CASE ledger[publisher[c].pub] # NoLedger \/ ~CanApply(publisher[c].command)
  <2>1. UNCHANGED <<targets, flows, ledger, edit>> /\ publisher[c].at = "PUBLISH"
    BY <1>1 DEF PublishSampling, UnchangedStore
  <2>2. \/ Answers(c, "IDENTITY_CONFLICT") \/ Answers(c, "AUTHORITY_CONFLICT")
        \/ ledger[publisher[c].pub].digest = publisher[c].command /\ Reply(c, Replay(c))
    BY <1>1 DEF PublishSampling
  <2> QED
    BY <2>1, <2>2, AnswersStep, ReplayStep
<1>2. CASE ledger[publisher[c].pub] = NoLedger /\ CanApply(publisher[c].command)
  BY <1>2, ApplyStep
<1> QED
  BY <1>1, <1>2

\* What passes for an answer is the result of what was sent, also of a mixed-up one.
LEMMA Answered ==
  ASSUME NEW id, NEW p, p.number = 1, IsList(p.nodes),
         NEW o, DOMAIN o = DOMAIN NoOutcome, o.result = ResultOf(p),
         NEW a \in {o} \union MixedUp(o), validatePublishSamplingOutcome(id, p, a)
  PROVE  a.result = ResultOf(p)
<1> DEFINE n == Len(p.nodes)
           R == ResultOf(p)
<1>1. n \in Nat /\ DOMAIN p.nodes = 1..n
  BY ListProperties
<1>2. /\ R.nodes = [i \in 1..n |-> R.nodes[i]] /\ DOMAIN R = {"flow", "version", "number", "nodes"}
      /\ R.number = 1
  BY <1>1 DEF ResultOf
<1>3. IsList(R.nodes) /\ Len(R.nodes) = n /\ DOMAIN R.nodes = 1..n
  BY <1>1, <1>2, ListOf, ListProperties
<1>4. /\ a.result.number = 1 /\ Len(a.result.nodes) = n
      /\ \A i \in 1..n : a.result.nodes[i] = R.nodes[i]
  BY <1>1 DEF validatePublishSamplingOutcome
<1>5. DOMAIN o = {"status", "pub", "digest", "result"} /\ o.result = R
  BY DEF NoOutcome
<1> HIDE DEF R, n
<1>6. CASE a = o
  BY <1>5, <1>6
<1>7. CASE \/ a = [o EXCEPT !.status = "PENDING"] \/ a = [o EXCEPT !.pub = "another"]
           \/ a = [o EXCEPT !.digest = NoPublication]
  BY <1>5, <1>7
<1>8. CASE a = [o EXCEPT !.result.number = @ + 1]
  <2>1. a.result.number = R.number + 1
    BY <1>2, <1>5, <1>8
  <2> QED
    BY <1>2, <1>4, <2>1
<1>9. CASE a = [o EXCEPT !.result.nodes = SubSeq(@, 2, Len(@))]
  <2>1. a.result = [R EXCEPT !.nodes = SubSeq(R.nodes, 2, Len(R.nodes))]
    BY <1>5, <1>9
  <2>2. a.result.nodes = SubSeq(R.nodes, 2, n)
    BY <1>2, <1>3, <2>1
  <2>3. Len(SubSeq(R.nodes, 2, n)) = IF 2 <= n THEN n - 2 + 1 ELSE 0
    <3>1. \A i \in 2..n : R.nodes[i] \in Range(R.nodes)
      BY <1>1, <1>3, ListProperties
    <3> QED
      BY <1>1, <3>1, SubSeqProperties
  <2>4. n = 0
    BY <1>1, <1>4, <2>2, <2>3
  <2>5. SubSeq(R.nodes, 2, n) = <<>> /\ R.nodes = <<>>
    <3>1. SubSeq(R.nodes, 2, n) = <<>>
      BY <2>4, SubSeqEmpty
    <3>2. R.nodes = <<>>
      BY <1>3, <2>4, EmptySeq DEF IsList
    <3> QED
      BY <3>1, <3>2
  <2>6. a.result = [R EXCEPT !.nodes = R.nodes]
    BY <1>3, <2>1, <2>5
  <2> QED
    BY <1>2, <2>6 DEF R, ResultOf
<1>10. CASE \E x : a = [o EXCEPT !.result.nodes[1].version = x]
  <2>1. PICK x : a = [o EXCEPT !.result.nodes[1].version = x]
    BY <1>10
  <2> DEFINE nodes == [R.nodes EXCEPT ![1] = [R.nodes[1] EXCEPT !.version = x]]
  <2>2. a.result = [R EXCEPT !.nodes = nodes]
    BY <1>5, <2>1
  <2>3. nodes = [i \in 1..n |-> nodes[i]]
    BY <1>3
  <2> HIDE DEF nodes
  <2>4. a.result.nodes = nodes
    BY <1>2, <2>2
  <2>5. nodes = R.nodes
    BY <1>2, <1>4, <2>3, <2>4
  <2> QED
    BY <1>2, <2>2, <2>5 DEF R, ResultOf
<1> QED
  BY <1>6, <1>7, <1>8, <1>9, <1>10 DEF MixedUp, R

LEMMA ReceiveStep ==
  ASSUME PublicationSound, NEW c \in Publishers, Receive(c)
  PROVE  StepSound
<1> DEFINE b == publisher[c]
<1>1. /\ LedgerHolds(ledger) /\ Holds(targets, ledger, b) /\ DOMAIN publisher = Publishers
      /\ UNCHANGED <<targets, flows, ledger, edit>> /\ b.at = "REPLY"
  BY DEF PublicationSound, Receive, UnchangedStore
<1>2. PICK o \in {b.outcome} \union MixedUp(b.outcome) :
        publisher' = IF validatePublishSamplingOutcome(b.pub, b.command, o)
          THEN [publisher EXCEPT ![c] = [b EXCEPT !.at = "DONE", !.code = "OK", !.result = o.result,
                                                  !.outcome = NoOutcome]]
          ELSE [publisher EXCEPT ![c] = [b EXCEPT !.at = "DONE", !.code = "CONTRACT_VIOLATION",
                                                  !.outcome = NoOutcome]]
  BY <1>1 DEF Receive
<1> HIDE DEF b
<1>3. CASE validatePublishSamplingOutcome(b.pub, b.command, o)
  <2> DEFINE k == [b EXCEPT !.at = "DONE", !.code = "OK", !.result = o.result, !.outcome = NoOutcome]
  <2>1. /\ CommandFits(targets, b.pub, b.command) /\ ledger[b.pub].digest = b.command
        /\ DOMAIN b.outcome = DOMAIN NoOutcome /\ b.outcome.result = ledger[b.pub].result
        /\ b.command # NoPublication
    BY <1>1 DEF Holds
  <2>2. b.pub \in Pubs /\ b.command.number = 1 /\ IsList(b.command.nodes)
    BY <2>1 DEF CommandFits
  <2>3. ledger[b.pub] # NoLedger
    BY <2>1 DEF NoLedger
  <2>4. ledger[b.pub] = [digest |-> b.command, result |-> ResultOf(b.command)]
    BY <1>1, <2>1, <2>2, <2>3 DEF LedgerHolds
  <2>5. o.result = ResultOf(b.command)
    BY <1>2, <1>3, <2>1, <2>2, <2>4, Answered
  <2>6. /\ k.at = "DONE" /\ k.code = "OK" /\ k.pub = b.pub /\ k.command = b.command
        /\ k.result = o.result /\ DOMAIN k = DOMAIN b
    BY <1>1, PublisherFields
  <2>7. publisher' = [publisher EXCEPT ![c] = k]
    BY <1>2, <1>3
  <2> HIDE DEF k
  <2>8. Holds(targets, ledger, k) /\ Tells(k) = <<b.pub, ledger[b.pub]>>
    BY <1>1, <2>4, <2>5, <2>6 DEF Holds, Tells
  <2> QED
    BY <1>1, <2>2, <2>3, <2>7, <2>8, PublisherMoves
<1>4. CASE ~validatePublishSamplingOutcome(b.pub, b.command, o)
  <2> DEFINE k == [b EXCEPT !.at = "DONE", !.code = "CONTRACT_VIOLATION", !.outcome = NoOutcome]
  <2>1. /\ k.at = "DONE" /\ k.code = "CONTRACT_VIOLATION" /\ k.pub = b.pub /\ k.command = b.command
        /\ DOMAIN k = DOMAIN b
    BY <1>1, PublisherFields
  <2>2. publisher' = [publisher EXCEPT ![c] = k]
    BY <1>2, <1>4
  <2> HIDE DEF k
  <2>3. Holds(targets, ledger, k) /\ Tells(k) = <<None, NoLedger>>
    BY <1>1, <2>1 DEF Holds, Tells
  <2> QED
    BY <1>1, <2>2, <2>3, PublisherMoves
<1> QED
  BY <1>3, <1>4

-----------------------------------------------------------------------------
(* The steps of editors and of the host.                                   *)

\* A step that moves editors or writes targets.
LEMMA EditorMoves ==
  ASSUME PublicationSound, Grows(targets, targets'), UNCHANGED <<flows, ledger, publisher>>,
         DOMAIN edit' = Editors,
         \A e \in Editors : edit'[e] = edit[e] \/ Edits(targets', edit'[e])
  PROVE  StepSound
<1>1. /\ StoreWhole(targets) /\ LedgerHolds(ledger) /\ Resolves(targets, flows)
      /\ DOMAIN publisher = Publishers
  BY DEF PublicationSound
<1>2. Extends(ledger, ledger') /\ LedgerHolds(ledger') /\ Resolves(targets', flows')
  BY <1>1, ResolvesStays DEF Extends
<1>3. DOMAIN publisher' = Publishers /\ DOMAIN flows' \ DOMAIN flows = {} /\ Promised
  BY <1>1 DEF Promised
<1> QED
  BY <1>2, <1>3 DEF StepSound

LEMMA OpenStep ==
  ASSUME PublicationSound, NEW e \in Editors, NEW t \in Targets, Open(e, t)
  PROVE  StepSound
<1> DEFINE k == [NoEdit EXCEPT !.at = "LOAD", !.target = t, !.expected = targets[t].revision]
<1>1. /\ StoreWhole(targets) /\ DOMAIN edit = Editors
  BY DEF PublicationSound
<1>2. /\ targets[t] # NoTarget /\ edit' = [edit EXCEPT ![e] = k]
      /\ UNCHANGED <<targets, flows, ledger, publisher>>
  BY DEF Open, Held, UnchangedStore
<1>3. targets[t].revision \in Nat
  BY <1>1, <1>2, TargetFields DEF StoreWhole
<1>4. k.at = "LOAD" /\ k.target = t /\ k.expected = targets[t].revision /\ DOMAIN k = DOMAIN NoEdit
  BY DEF NoEdit
<1> HIDE DEF k
<1>5. Edits(targets, k)
  BY <1>2, <1>3, <1>4 DEF Edits, Reached
<1>6. DOMAIN edit' = Editors /\ \A x \in Editors : edit'[x] = edit[x] \/ Edits(targets', edit'[x])
  BY <1>1, <1>2, <1>5
<1> QED
  BY <1>1, <1>2, <1>6, EditorMoves, NothingGrows

LEMMA AbandonedEdit == ASSUME NEW S PROVE Edits(S, NoEdit)
BY DEF Edits, NoEdit

LEMMA TransitionStep ==
  ASSUME PublicationSound, NEW e \in Editors, NEW at \in Times, transitionTarget(e, at)
  PROVE  StepSound
<1> DEFINE b == edit[e]
           a == targets[b.target]
           k(r) == [b EXCEPT !.at = "SAVE", !.next = r.value]
<1>1. StoreWhole(targets) /\ DOMAIN edit = Editors /\ Edits(targets, b)
  BY DEF PublicationSound
<1>2. b.at = "LOAD" /\ UNCHANGED <<targets, flows, ledger, publisher>>
  BY DEF transitionTarget, UnchangedStore
<1>3. CASE edit' = [edit EXCEPT ![e] = NoEdit]
  <2>1. DOMAIN edit' = Editors /\ \A x \in Editors : edit'[x] = edit[x] \/ Edits(targets', edit'[x])
    BY <1>1, <1>3, AbandonedEdit
  <2> QED
    BY <1>1, <1>2, <2>1, EditorMoves, NothingGrows
<1>4. CASE /\ a.revision = b.expected
           /\ \E r \in Transitions(a, at) : r.ok /\ edit' = [edit EXCEPT ![e] = k(r)]
  <2> HIDE DEF b
  <2>1. PICK r \in Transitions(a, at) : r.ok /\ edit' = [edit EXCEPT ![e] = k(r)]
    BY <1>4
  <2>2. Reached(targets, b.target, b.expected)
    BY <1>1, <1>2 DEF Edits
  <2>3. WholeTarget(b.target, a)
    BY <1>1, <2>2 DEF Reached, StoreWhole
  <2>4. WholeTarget(b.target, r.value) /\ WriteOf(a, r.value)
    <3>1. at \in Nat
      BY PlanAssumption
    <3> QED
      BY <2>1, <2>3, <3>1, TransitionGrows
  <2>5. DOMAIN b = {"at", "target", "expected", "next"}
    BY <1>1 DEF Edits, NoEdit
  <2>6. /\ k(r).at = "SAVE" /\ k(r).target = b.target /\ k(r).expected = b.expected
        /\ k(r).next = r.value /\ DOMAIN k(r) = DOMAIN NoEdit
    BY <2>5 DEF NoEdit
  <2>7. Edits(targets, k(r))
    <3> HIDE DEF k
    <3> QED
      BY <2>2, <2>4, <2>6 DEF Edits
  <2>8. DOMAIN edit' = Editors /\ \A x \in Editors : edit'[x] = edit[x] \/ Edits(targets', edit'[x])
    <3> HIDE DEF k
    <3> QED
      BY <1>1, <1>2, <2>1, <2>7
  <2> QED
    BY <1>1, <1>2, <2>8, EditorMoves, NothingGrows
<1> QED
  BY <1>3, <1>4 DEF transitionTarget

LEMMA SaveStep ==
  ASSUME PublicationSound, NEW e \in Editors, SaveAggregate(e)
  PROVE  StepSound
<1> DEFINE b == edit[e]
           t == b.target
<1>1. StoreWhole(targets) /\ DOMAIN edit = Editors /\ Edits(targets, b)
  BY DEF PublicationSound
<1>2. b.at = "SAVE" /\ edit' = [edit EXCEPT ![e] = NoEdit] /\ UNCHANGED <<flows, ledger, publisher>>
  BY DEF SaveAggregate
<1>3. targets' = targets \/ (targets[t].revision = b.expected /\ targets' = [targets EXCEPT ![t] = b.next])
  BY DEF SaveAggregate
<1> HIDE DEF b
<1>4. Grows(targets, targets')
  <2>1. CASE targets' = targets
    BY <1>1, <2>1, NothingGrows
  <2>2. CASE targets[t].revision = b.expected /\ targets' = [targets EXCEPT ![t] = b.next]
    <3>1. WholeTarget(t, b.next) /\ WriteOf(targets[t], b.next)
      BY <1>1, <1>2, <2>2 DEF Edits, At
    <3>2. DOMAIN targets' = Targets
      BY <1>1, <2>2 DEF StoreWhole
    <3> QED
      BY <2>2, <3>1, <3>2 DEF Grows
  <2> QED
    BY <1>3, <2>1, <2>2
<1>5. DOMAIN edit' = Editors /\ \A x \in Editors : edit'[x] = edit[x] \/ Edits(targets', edit'[x])
  BY <1>1, <1>2, AbandonedEdit
<1> QED
  BY <1>2, <1>4, <1>5, EditorMoves

LEMMA DeleteStep ==
  ASSUME PublicationSound, NEW t \in Targets, Held(t), DeleteVersion(t)
  PROVE  StepSound
<1> DEFINE a == targets[t]
           left(i) == [a.versions EXCEPT ![i].deleted = TRUE]
           b(l) == [a EXCEPT !.versions = l, !.revision = @ + 1, !.current = ResolveCurrentVersion(l),
                             !.pointer = ResolveCurrentVersion(l).id]
<1>1. StoreWhole(targets) /\ DOMAIN edit = Editors /\ WholeTarget(t, a) /\ DOMAIN targets = Targets
  BY DEF PublicationSound, StoreWhole, Held
<1>2. PICK i \in DOMAIN a.versions :
        /\ ~a.versions[i].deleted /\ a.revision < MaxRevision
        /\ targets' = [targets EXCEPT ![t] = b(left(i))] /\ UNCHANGED <<flows, ledger, publisher, edit>>
  <2>1. PICK i \in DOMAIN a.versions :
          /\ ~a.versions[i].deleted /\ a.revision < MaxRevision
          /\ targets' = [targets EXCEPT ![t].versions = left(i), ![t].revision = @ + 1,
                           ![t].current = ResolveCurrentVersion(left(i)),
                           ![t].pointer = ResolveCurrentVersion(left(i)).id]
          /\ UNCHANGED <<flows, ledger, publisher, edit>>
    BY DEF DeleteVersion
  <2> HIDE DEF left
  <2> QED
    BY <1>1, <2>1
<1> DEFINE l == left(i)
           n == b(l)
<1> HIDE DEF a
<1>3. MarkedFrom(a.versions, l)
  <2>1. IsList(a.versions) /\ \A v \in Range(a.versions) : DOMAIN v = DOMAIN NoVersion
    BY <1>1, TargetFields DEF WholeTarget
  <2> QED
    BY <2>1, MarkedDeleted
<1> HIDE DEF l
<1>4. Valid(a)
  <2>1. a.versions[i] \in Range(a.versions)
    BY DEF Range
  <2> QED
    BY <1>1, <1>2, <2>1 DEF WholeTarget, ValidateLoadedHistory
<1>5. /\ DOMAIN n = DOMAIN a /\ n.id = a.id /\ n.updated = a.updated /\ n.deleted = a.deleted
      /\ n.versions = l /\ n.revision = a.revision + 1
      /\ n.current = ResolveCurrentVersion(l) /\ n.pointer = ResolveCurrentVersion(l).id
  BY <1>1 DEF WholeTarget
<1>6. targets' = [targets EXCEPT ![t] = n]
  BY <1>2 DEF l
<1> HIDE DEF n
<1>7. WholeTarget(t, n) /\ WriteOf(a, n)
  BY <1>1, <1>2, <1>3, <1>4, <1>5, DeletionGrows
<1>8. Grows(targets, targets')
  BY <1>1, <1>6, <1>7 DEF Grows, StoreWhole, a
<1> QED
  BY <1>1, <1>2, <1>8, EditorMoves

-----------------------------------------------------------------------------
(* The specification.                                                      *)

LEMMA PublicationStarts ==
  ASSUME PublicationInit
  PROVE  PublicationSound
<1>1. StoreWhole(targets)
  BY TargetsAssumption DEF PublicationInit, StoreWhole
<1>2. LedgerHolds(ledger)
  BY DEF PublicationInit, LedgerHolds
<1>3. Resolves(targets, flows)
  BY DEF PublicationInit, Resolves
<1>4. Holds(targets, ledger, AtRest)
  BY DEF Holds, AtRest
<1>5. Edits(targets, NoEdit)
  BY AbandonedEdit
<1> QED
  BY <1>1, <1>2, <1>3, <1>4, <1>5 DEF PublicationInit, PublicationSound

LEMMA PublicationSteps ==
  ASSUME PublicationSound, PublicationNext
  PROVE  StepSound
<1>1. CASE \E c \in Publishers :
             \/ \E p \in Pubs, at \in Times : Ask(c, p, at)
             \/ ReadAuthority(c) \/ Map(c) \/ SendAgain(c) \/ Lookup(c)
             \/ PublishSampling(c) \/ Fails(c) \/ Receive(c)
  BY <1>1, AskStep, ReadStep, MapStep, AgainStep, LookupStep, PublishStep, FailsStep, ReceiveStep
<1>2. CASE \E e \in Editors : \/ \E t \in Targets : Open(e, t)
                              \/ \E at \in Times : transitionTarget(e, at)
                              \/ SaveAggregate(e)
  BY <1>2, OpenStep, TransitionStep, SaveStep
<1>3. CASE \E t \in {x \in Targets : Held(x)} : DeleteVersion(t)
  BY <1>3, DeleteStep
<1> QED
  BY <1>1, <1>2, <1>3 DEF PublicationNext

LEMMA SoundStays ==
  ASSUME PublicationSound, StepSound
  PROVE  PublicationSound'
<1>1. StoreWhole(targets) /\ LedgerHolds(ledger) /\ Grows(targets, targets') /\ Extends(ledger, ledger')
  BY DEF PublicationSound, StepSound
<1>2. StoreWhole(targets')
  BY <1>1, WholeStays
<1>3. \A c \in Publishers : Holds(targets', ledger', publisher'[c])
  BY <1>1, HoldsStays DEF PublicationSound, StepSound
<1>4. \A e \in Editors : Edits(targets', edit'[e])
  BY <1>1, EditsStays DEF PublicationSound, StepSound
<1> QED
  BY <1>2, <1>3, <1>4 DEF PublicationSound, StepSound

LEMMA SoundStutters ==
  ASSUME PublicationSound, UNCHANGED publicationVars
  PROVE  StepSound
<1>1. UNCHANGED <<targets, flows, ledger, publisher, edit>>
  BY DEF publicationVars
<1>2. StoreWhole(targets) /\ DOMAIN edit = Editors
  BY DEF PublicationSound
<1> QED
  BY <1>1, <1>2, EditorMoves, NothingGrows

LEMMA SoundShows ==
  ASSUME PublicationSound
  PROVE  PublicationTypeOK /\ HistoriesStayWhole /\ ReferencesResolve /\ MapperMeetsItsContract
<1>1. PublicationTypeOK
  BY DEF PublicationSound, StoreWhole, WholeTarget, Holds, Edits, PublicationTypeOK, Held
<1>2. HistoriesStayWhole
  BY DEF PublicationSound, StoreWhole, WholeTarget, HistoriesStayWhole, Held
<1>3. ReferencesResolve
  BY DEF PublicationSound, Resolves, ReferencesResolve, Held
<1>4. MapperMeetsItsContract
  BY DEF PublicationSound, Holds, MapperMeetsItsContract
<1> QED
  BY <1>1, <1>2, <1>3, <1>4

\* A step of the calls is a step of their promise, or none.
LEMMA PromisedSteps ==
  ASSUME PublicationSound, StepSound
  PROVE  [Promise!Next]_Promise!vars
<1> DEFINE told == [c \in Publishers |-> ToldOf(c)]
           new == [c \in Publishers |-> Tells(publisher'[c])]
<1>1. told = [c \in Publishers |-> Tells(publisher[c])] /\ told' = new
  BY DEF ToldOf, Tells
<1> HIDE DEF told
<1>2. DOMAIN told = Publishers /\ \A c \in Publishers : told[c] = Tells(publisher[c])
  BY <1>1
<1>3. CASE ledger' = ledger /\ \A c \in Publishers : Tells(publisher'[c]) = Tells(publisher[c])
  <2>1. told' = told
    BY <1>1, <1>3
  <2> QED
    BY <1>3, <2>1 DEF Promise!vars, told
<1>4. CASE \E c \in Publishers :
             /\ ledger' = ledger
             /\ \A d \in Publishers \ {c} : Tells(publisher'[d]) = Tells(publisher[d])
             /\ \/ Tells(publisher'[c]) = <<None, NoLedger>>
                \/ \E p \in Pubs : ledger[p] # NoLedger /\ Tells(publisher'[c]) = <<p, ledger[p]>>
  <2>1. PICK c \in Publishers :
             /\ ledger' = ledger
             /\ \A d \in Publishers \ {c} : Tells(publisher'[d]) = Tells(publisher[d])
             /\ \/ Tells(publisher'[c]) = <<None, NoLedger>>
                \/ \E p \in Pubs : ledger[p] # NoLedger /\ Tells(publisher'[c]) = <<p, ledger[p]>>
    BY <1>4
  <2>2. told' = [told EXCEPT ![c] = Tells(publisher'[c])]
    BY <1>1, <2>1
  <2>3. CASE Tells(publisher'[c]) = <<None, NoLedger>>
    <3>1. Promise!Forget(c)
      BY <2>1, <2>2, <2>3 DEF Promise!Forget, told
    <3> QED
      BY <3>1 DEF Promise!Next
  <2>4. CASE \E p \in Pubs : ledger[p] # NoLedger /\ Tells(publisher'[c]) = <<p, ledger[p]>>
    <3>1. PICK p \in Pubs : ledger[p] # NoLedger /\ Tells(publisher'[c]) = <<p, ledger[p]>>
      BY <2>4
    <3>2. Promise!Tell(c, p)
      BY <2>1, <2>2, <3>1 DEF Promise!Tell, told
    <3> QED
      BY <3>2 DEF Promise!Next
  <2> QED
    BY <2>1, <2>3, <2>4
<1>5. CASE \E p \in Pubs :
             /\ ledger[p] = NoLedger /\ ledger'[p] # NoLedger
             /\ ledger' = [ledger EXCEPT ![p] = ledger'[p]]
             /\ \A c \in Publishers : Tells(publisher'[c]) = Tells(publisher[c])
  <2>1. PICK p \in Pubs :
             /\ ledger[p] = NoLedger /\ ledger'[p] # NoLedger
             /\ ledger' = [ledger EXCEPT ![p] = ledger'[p]]
             /\ \A c \in Publishers : Tells(publisher'[c]) = Tells(publisher[c])
    BY <1>5
  <2>2. told' = told
    BY <1>1, <2>1
  <2>3. Promise!Apply(p)
    BY <2>1, <2>2 DEF Promise!Apply, told
  <2> QED
    BY <2>3 DEF Promise!Next
<1> QED
  BY <1>3, <1>4, <1>5 DEF StepSound, Promised

\* A step of the calls writes as the action properties say.
LEMMA StepShows ==
  ASSUME PublicationSound, StepSound
  PROVE  /\ \A t \in Targets : targets'[t] # targets[t] /\ Held(t) =>
              /\ targets'[t].revision = targets[t].revision + 1
              /\ targets'[t].updated >= targets[t].updated
              /\ \A i \in DOMAIN targets[t].versions :
                   /\ i \in DOMAIN targets'[t].versions
                   /\ targets'[t].versions[i].id = targets[t].versions[i].id
                   /\ targets'[t].versions[i].number = targets[t].versions[i].number
         /\ \A f \in DOMAIN flows' \ DOMAIN flows : \A r \in flows'[f] :
              \E v \in Range(targets'[r[1]].versions) : v.id = r[2] /\ ~v.deleted
BY DEF StepSound, Grows, WriteOf, Held

\* Publications leave histories that are whole and references that resolve, count every
\* write of a target, publish no flow on a deleted version, and implement the promise of
\* publishing under an idempotency id (versioning.go, sampling_publication_mapper.go,
\* sampling_publication_transaction.go).
THEOREM PublicationTheorem == PublicationSpec => PublicationsAreSound
<1>1. PublicationInit => PublicationSound
  BY PublicationStarts
<1>2. PublicationSound /\ [PublicationNext]_publicationVars => PublicationSound'
  BY PublicationSteps, SoundStutters, SoundStays
<1>3. PublicationSound =>
        PublicationTypeOK /\ HistoriesStayWhole /\ ReferencesResolve /\ MapperMeetsItsContract
  BY SoundShows
<1>4. PublicationSound /\ [PublicationNext]_publicationVars => StepSound
  BY PublicationSteps, SoundStutters
<1>5. PublicationInit => Promise!Init
  <2> SUFFICES ASSUME PublicationInit PROVE Promise!Init
    OBVIOUS
  <2>1. \A c \in Publishers : ToldOf(c) = <<None, NoLedger>>
    BY DEF PublicationInit, ToldOf, AtRest
  <2> QED
    BY <2>1 DEF PublicationInit, Promise!Init
<1>6. PublicationSound /\ StepSound => [Promise!Next]_Promise!vars
  BY PromisedSteps
<1>7. PublicationSound /\ StepSound =>
        /\ \A t \in Targets : targets'[t] # targets[t] /\ Held(t) =>
              /\ targets'[t].revision = targets[t].revision + 1
              /\ targets'[t].updated >= targets[t].updated
              /\ \A i \in DOMAIN targets[t].versions :
                   /\ i \in DOMAIN targets'[t].versions
                   /\ targets'[t].versions[i].id = targets[t].versions[i].id
                   /\ targets'[t].versions[i].number = targets[t].versions[i].number
        /\ \A f \in DOMAIN flows' \ DOMAIN flows : \A r \in flows'[f] :
              \E v \in Range(targets'[r[1]].versions) : v.id = r[2] /\ ~v.deleted
  BY StepShows
<1> QED
  BY <1>1, <1>2, <1>3, <1>4, <1>5, <1>6, <1>7, PTL
     DEF PublicationSpec, PublicationsAreSound, EveryWriteCounts, ReferencesAreLiveWhenPublished,
         PromiseKept, Promise!Spec

-----------------------------------------------------------------------------
(* The steps of a flow (StepShape).                                        *)

\* What an editor can make of a step, in any number of edits: a text, a list or a
\* number where one belongs.
AssertionTyped(v) ==
  v \in [kind : AssertionKinds, expected : {Empty} \union Comparisons("expected"),
         expectedValues : {<<>>} \union Comparisons("expectedValues"),
         attribute : {Empty} \union Comparisons("attribute"), ignoreCase : BOOLEAN, wait : Waits]
GroupTyped(g) == DOMAIN g = {"wait", "sizes"} /\ g.wait \in Waits
StepTyped ==
  /\ DOMAIN step = StepFields
  /\ step.waitMS \in Int /\ step.repeatCount \in Int
  /\ step.values \in {<<>>, <<"plain">>, <<"unclosed">>}
  /\ step.validation # Empty => AssertionTyped(step.validation)
  /\ step.group # Empty => GroupTyped(step.group)

LEMMA FieldsOfSteps ==
  StepFields = {"action", "target", "version", "value", "values", "waitKind", "waitMS", "repeatCount",
                "optional", "children", "reference", "validation", "group"}
BY DEF StepFields, Blank

\* Which fields of a step are given.
LEMMA GivenFields ==
  /\ Given \subseteq StepFields
  /\ \A f \in StepFields : f \in Given <=> step[f] # Blank[f]
BY DEF Given

\* Of an assertion the normalisation keeps what its kind compares.
LEMMA NormalizedFields ==
  ASSUME NEW v, AssertionTyped(v)
  PROVE  LET n == Normalized(v) IN
         /\ n.kind = v.kind /\ n.wait = v.wait
         /\ n.expected = IF "expected" \in Compared(v) THEN v.expected ELSE Empty
         /\ n.expectedValues = IF "expectedValues" \in Compared(v) THEN v.expectedValues ELSE <<>>
         /\ n.attribute = IF "attribute" \in Compared(v) THEN v.attribute ELSE Empty
         /\ n.ignoreCase = IF "ignoreCase" \in Compared(v) THEN v.ignoreCase ELSE FALSE
         /\ AssertionTyped(n)
<1> DEFINE none == [expected |-> Empty, expectedValues |-> <<>>, attribute |-> Empty, ignoreCase |-> FALSE]
           n == Normalized(v)
<1>1. /\ DOMAIN v = {"kind", "expected", "expectedValues", "attribute", "ignoreCase", "wait"}
      /\ v.kind \in AssertionKinds /\ v.wait \in Waits /\ v.ignoreCase \in BOOLEAN
      /\ v.expected \in {Empty} \union Comparisons("expected")
      /\ v.expectedValues \in {<<>>} \union Comparisons("expectedValues")
      /\ v.attribute \in {Empty} \union Comparisons("attribute")
  BY DEF AssertionTyped
<1>2. n = [f \in DOMAIN v |-> IF f \in DOMAIN none \ Compared(v) THEN none[f] ELSE v[f]]
  BY DEF Normalized
<1>3. DOMAIN none = {"expected", "expectedValues", "attribute", "ignoreCase"}
  OBVIOUS
<1> HIDE DEF n
<1>4. /\ DOMAIN n = DOMAIN v /\ n.kind = v.kind /\ n.wait = v.wait
      /\ n.expected = IF "expected" \in Compared(v) THEN v.expected ELSE Empty
      /\ n.expectedValues = IF "expectedValues" \in Compared(v) THEN v.expectedValues ELSE <<>>
      /\ n.attribute = IF "attribute" \in Compared(v) THEN v.attribute ELSE Empty
      /\ n.ignoreCase = IF "ignoreCase" \in Compared(v) THEN v.ignoreCase ELSE FALSE
  BY <1>1, <1>2, <1>3
<1>5. n = [kind |-> n.kind, expected |-> n.expected, expectedValues |-> n.expectedValues,
           attribute |-> n.attribute, ignoreCase |-> n.ignoreCase, wait |-> n.wait]
  BY <1>1, <1>2
<1>6. /\ n.expected \in {Empty} \union Comparisons("expected")
      /\ n.expectedValues \in {<<>>} \union Comparisons("expectedValues")
      /\ n.attribute \in {Empty} \union Comparisons("attribute")
      /\ n.ignoreCase \in BOOLEAN
  BY <1>1, <1>4
<1>7. AssertionTyped(n)
  BY <1>1, <1>4, <1>5, <1>6 DEF AssertionTyped
<1> QED
  BY <1>4, <1>7 DEF n

\* An assertion that was normalised compares what its kind compares.
LEMMA NormalizedShape ==
  ASSUME NEW v, AssertionTyped(v)
  PROVE  LET n == Normalized(v) IN
         /\ AssertionTyped(n) /\ Normalized(n) = n
         /\ \/ AssertionValid(n)
            \/ n.kind = "odd"
            \/ n.kind = "attribute_equals" /\ n.attribute # "name"
            \/ n.kind = "text_matches" /\ n.expected = "broken"
<1> DEFINE n == Normalized(v)
           m == Normalized(n)
<1>1. /\ n.kind = v.kind /\ n.wait = v.wait
      /\ n.expected = IF "expected" \in Compared(v) THEN v.expected ELSE Empty
      /\ n.expectedValues = IF "expectedValues" \in Compared(v) THEN v.expectedValues ELSE <<>>
      /\ n.attribute = IF "attribute" \in Compared(v) THEN v.attribute ELSE Empty
      /\ n.ignoreCase = IF "ignoreCase" \in Compared(v) THEN v.ignoreCase ELSE FALSE
      /\ AssertionTyped(n)
  BY NormalizedFields
<1> HIDE DEF n
<1>2. /\ m.kind = n.kind /\ m.wait = n.wait
      /\ m.expected = IF "expected" \in Compared(n) THEN n.expected ELSE Empty
      /\ m.expectedValues = IF "expectedValues" \in Compared(n) THEN n.expectedValues ELSE <<>>
      /\ m.attribute = IF "attribute" \in Compared(n) THEN n.attribute ELSE Empty
      /\ m.ignoreCase = IF "ignoreCase" \in Compared(n) THEN n.ignoreCase ELSE FALSE
      /\ AssertionTyped(m)
  BY <1>1, NormalizedFields
<1>3. n.kind \in AssertionKinds /\ n.ignoreCase \in BOOLEAN
  BY <1>1 DEF AssertionTyped
<1>4. /\ m.expected = n.expected /\ m.expectedValues = n.expectedValues
      /\ m.attribute = n.attribute /\ m.ignoreCase = n.ignoreCase
  <2>1. CASE n.kind = "odd"
    <3>1. Compared(n) = Comparison(n)
      BY <2>1 DEF Compared
    <3>2. /\ "expected" \notin Comparison(n) => n.expected = Empty
          /\ "expectedValues" \notin Comparison(n) => n.expectedValues = <<>>
          /\ "attribute" \notin Comparison(n) => n.attribute = Empty
      BY DEF Comparison
    <3>3. "ignoreCase" \notin Comparison(n) => n.ignoreCase = FALSE
      BY <1>3 DEF Comparison
    <3> QED
      BY <1>2, <3>1, <3>2, <3>3
  <2>2. CASE n.kind # "odd"
    <3>1. Compared(n) = Compared(v)
      BY <1>1, <1>3, <2>2 DEF Compared, AssertionKinds
    <3> QED
      BY <1>1, <1>2, <3>1
  <2> QED
    BY <2>1, <2>2
<1> HIDE DEF m
<1>5. m = n
  <2>1. m = [kind |-> m.kind, expected |-> m.expected, expectedValues |-> m.expectedValues,
             attribute |-> m.attribute, ignoreCase |-> m.ignoreCase, wait |-> m.wait]
    BY <1>2 DEF AssertionTyped
  <2>2. n = [kind |-> n.kind, expected |-> n.expected, expectedValues |-> n.expectedValues,
             attribute |-> n.attribute, ignoreCase |-> n.ignoreCase, wait |-> n.wait]
    BY <1>1 DEF AssertionTyped
  <2> QED
    BY <1>2, <1>4, <2>1, <2>2
<1>6. ASSUME n.kind = "visible" PROVE AssertionValid(n)
  <2>1. Compared(v) = {}
    BY <1>1, <1>6 DEF Compared
  <2>2. n.expected = Empty /\ n.expectedValues = <<>> /\ n.attribute = Empty /\ n.ignoreCase = FALSE
    BY <1>1, <2>1
  <2> QED
    BY <1>6, <2>2 DEF AssertionValid, Comparison
<1>7. ASSUME n.kind = "text_equals" PROVE AssertionValid(n)
  <2>1. Compared(v) = {"expected", "ignoreCase"}
    BY <1>1, <1>7 DEF Compared
  <2>2. n.expectedValues = <<>> /\ n.attribute = Empty
    BY <1>1, <2>1
  <2> QED
    BY <1>7, <2>2 DEF AssertionValid, Comparison
<1>8. ASSUME n.kind = "text_matches", n.expected # "broken" PROVE AssertionValid(n)
  <2>1. Compared(v) = {"expected"}
    BY <1>1, <1>8 DEF Compared
  <2>2. n.expectedValues = <<>> /\ n.attribute = Empty /\ n.ignoreCase = FALSE
    BY <1>1, <2>1
  <2> QED
    BY <1>8, <2>2 DEF AssertionValid, Comparison
<1>9. ASSUME n.kind = "selected_set_equals" PROVE AssertionValid(n)
  <2>1. Compared(v) = {"expectedValues"}
    BY <1>1, <1>9 DEF Compared
  <2>2. n.expected = Empty /\ n.attribute = Empty /\ n.ignoreCase = FALSE
    BY <1>1, <2>1
  <2> QED
    BY <1>9, <2>2 DEF AssertionValid, Comparison
<1>10. ASSUME n.kind = "attribute_equals", n.attribute = "name" PROVE AssertionValid(n)
  <2>1. Compared(v) = {"expected", "attribute", "ignoreCase"}
    BY <1>1, <1>10 DEF Compared
  <2>2. n.expectedValues = <<>>
    BY <1>1, <2>1
  <2> QED
    BY <1>10, <2>2 DEF AssertionValid
<1>11. \/ AssertionValid(n)
       \/ n.kind = "odd"
       \/ n.kind = "attribute_equals" /\ n.attribute # "name"
       \/ n.kind = "text_matches" /\ n.expected = "broken"
  BY <1>3, <1>6, <1>7, <1>8, <1>9, <1>10 DEF AssertionKinds
<1> QED
  BY <1>1, <1>5, <1>11 DEF n, m

\* A step starts blank.
LEMMA ShapeStarts == ShapeInit => StepTyped
BY DEF ShapeInit, StepTyped, StepFields, Blank

\* An editor fills in what belongs into a field.
LEMMA FillInStep == StepTyped /\ FillIn => StepTyped'
<1> SUFFICES ASSUME StepTyped, FillIn PROVE StepTyped'
  OBVIOUS
<1>1. PICK f \in StepFields \ Given : \E v \in Offered(f) : step' = [step EXCEPT ![f] = v]
  BY DEF FillIn
<1>2. PICK v \in Offered(f) : step' = [step EXCEPT ![f] = v]
  BY <1>1
<1>3. DOMAIN step = StepFields
  BY DEF StepTyped
<1>4. \A g \in StepFields : step'[g] = IF g = f THEN v ELSE step[g]
  BY <1>2, <1>3
<1>5. DOMAIN step' = StepFields
  BY <1>2, <1>3
<1>6. step'.waitMS \in Int /\ step'.repeatCount \in Int
  <2>1. f \in {"waitMS", "repeatCount"} => v \in Int
    <3>1. Offered("waitMS") = {-1, 1, MaxWaitMS, MaxWaitMS + 1}
      BY DEF Offered
    <3>2. Offered("repeatCount") = {-1, 1, MaxRepeatCount, MaxRepeatCount + 1}
      BY DEF Offered
    <3> QED
      BY <1>2, <3>1, <3>2, LimitsAssumption
  <2>2. step.waitMS \in Int /\ step.repeatCount \in Int
    BY DEF StepTyped
  <2> QED
    BY <1>4, <2>1, <2>2, FieldsOfSteps
<1>7. step'.values \in {<<>>, <<"plain">>, <<"unclosed">>}
  BY <1>2, <1>4, FieldsOfSteps DEF StepTyped, Offered
<1>8. step'.validation # Empty => AssertionTyped(step'.validation)
  <2>1. CASE f = "validation"
    <3>1. v \in Assertions /\ step'.validation = v
      BY <1>2, <1>4, <2>1, FieldsOfSteps DEF Offered
    <3>2. NoWait \in Waits /\ GoodWait \in Waits /\ "visible" \in AssertionKinds
      BY DEF Waits, GoodWait, AssertionKinds
    <3>3. AssertionTyped(v)
      BY <3>1, <3>2 DEF Assertions, AssertionTyped
    <3> QED
      BY <3>1, <3>3
  <2>2. CASE f # "validation"
    BY <1>4, <2>2, FieldsOfSteps DEF StepTyped
  <2> QED
    BY <2>1, <2>2
<1>9. step'.group # Empty => GroupTyped(step'.group)
  <2>1. CASE f = "group"
    <3>1. v \in Groups /\ step'.group = v
      BY <1>2, <1>4, <2>1, FieldsOfSteps DEF Offered
    <3> QED
      BY <3>1 DEF Groups, GroupTyped, Waits, GoodWait
  <2>2. CASE f # "group"
    BY <1>4, <2>2, FieldsOfSteps DEF StepTyped
  <2> QED
    BY <2>1, <2>2
<1> QED
  BY <1>5, <1>6, <1>7, <1>8, <1>9 DEF StepTyped

\* An editor who changes the assertion of a step leaves the rest as it is.
LEMMA AssertionStep ==
  ASSUME StepTyped, NEW w, AssertionTyped(w), step' = [step EXCEPT !.validation = w]
  PROVE  StepTyped'
<1>1. DOMAIN step = StepFields /\ DOMAIN step' = StepFields
  BY DEF StepTyped
<1>2. /\ step'.validation = w /\ step'.waitMS = step.waitMS /\ step'.repeatCount = step.repeatCount
      /\ step'.values = step.values /\ step'.group = step.group
  BY <1>1, FieldsOfSteps
<1> QED
  BY <1>1, <1>2 DEF StepTyped

LEMMA CompareStep == StepTyped /\ Compare => StepTyped'
<1> SUFFICES ASSUME StepTyped, Compare PROVE StepTyped'
  OBVIOUS
<1>0. PICK f \in {"expected", "expectedValues", "attribute", "ignoreCase"} :
        \E v \in Comparisons(f) : step' = [step EXCEPT !.validation[f] = v]
  BY DEF Compare
<1>1. PICK v \in Comparisons(f) : step' = [step EXCEPT !.validation[f] = v]
  BY <1>0
<1> DEFINE w == [step.validation EXCEPT ![f] = v]
<1>2. AssertionTyped(step.validation)
  BY DEF Compare, StepTyped
<1>3. AssertionTyped(w)
  BY <1>0, <1>1, <1>2 DEF AssertionTyped, Comparisons
<1>4. step' = [step EXCEPT !.validation = w]
  BY <1>1
<1> QED
  BY <1>3, <1>4, AssertionStep

LEMMA SwitchStep == StepTyped /\ SwitchAssertion => StepTyped'
<1> SUFFICES ASSUME StepTyped, SwitchAssertion PROVE StepTyped'
  OBVIOUS
<1>1. PICK k \in AssertionKinds :
        step' = [step EXCEPT !.validation = Normalized([step.validation EXCEPT !.kind = k])]
  BY DEF SwitchAssertion
<1>2. AssertionTyped(step.validation)
  BY DEF SwitchAssertion, StepTyped
<1>3. AssertionTyped([step.validation EXCEPT !.kind = k])
  BY <1>2 DEF AssertionTyped
<1>4. AssertionTyped(Normalized([step.validation EXCEPT !.kind = k]))
  BY <1>3, NormalizedShape
<1> QED
  BY <1>1, <1>4, AssertionStep

LEMMA StepsStayTyped == StepTyped /\ [ShapeNext]_shapeVars => StepTyped'
<1>1. StepTyped /\ UNCHANGED shapeVars => StepTyped'
  BY DEF shapeVars, StepTyped
<1> QED
  BY <1>1, FillInStep, CompareStep, SwitchStep DEF ShapeNext

-----------------------------------------------------------------------------
\* What is published carries nothing of another kind.
LEMMA NothingLeft == Publishable => NothingLeftBehind
BY DEF Publishable, NothingLeftBehind, ActionValid, WaitStepValid, RepeatValid, ReferenceValid,
       validateStandaloneValidationStep, validateValidationGroupStep, Own

\* A wait and an assertion that are published are accepted by the plan.
LEMMA WaitsAgree == \A w : WaitValid(w) => validateValidationWait(w.max, w.stability)
BY DEF WaitValid, validateValidationWait

LEMMA AssertionsAgree ==
  ASSUME NEW v, AssertionTyped(v), AssertionValid(v),
         Interpolates(v.expected), v.expectedValues # <<"unclosed">>
  PROVE  FrozenAssertion(v)
<1>1. v.expectedValues \in {<<>>, <<"plain">>} /\ v.ignoreCase \in BOOLEAN /\ v.kind \in AssertionKinds
  BY DEF AssertionTyped, Comparisons
<1>2. \A i \in DOMAIN v.expectedValues : Interpolates(v.expectedValues[i])
  BY <1>1 DEF Interpolates
<1>3. v.kind = "visible" => Comparison(v) = {}
  BY DEF AssertionValid
<1>4. v.kind = "text_equals" => v.expectedValues = <<>> /\ v.attribute = Empty
  BY DEF AssertionValid, Comparison
<1>5. v.kind = "text_matches" =>
        v.expectedValues = <<>> /\ v.attribute = Empty /\ ~v.ignoreCase /\ v.expected # "broken"
  BY DEF AssertionValid, Comparison
<1>6. v.kind = "selected_set_equals" => v.expected = Empty /\ v.attribute = Empty /\ ~v.ignoreCase
  BY DEF AssertionValid, Comparison
<1>7. v.kind = "attribute_equals" => v.attribute = "name" /\ v.expectedValues = <<>>
  BY DEF AssertionValid
<1>8. v.kind \in {"visible", "text_equals", "text_matches", "selected_set_equals", "attribute_equals"}
  BY <1>1 DEF AssertionValid, AssertionKinds
<1> QED
  BY <1>2, <1>3, <1>4, <1>5, <1>6, <1>7, <1>8 DEF FrozenAssertion

\* What is published can be frozen, but for what publication leaves to the plan.
LEMMA ValidationAgrees ==
  ASSUME StepTyped, ~LeftToThePlan, validateStandaloneValidationStep
  PROVE  validateValidationStepInto
<1>1. AssertionTyped(step.validation) /\ AssertionValid(step.validation) /\ step.validation # Empty
  BY DEF StepTyped, validateStandaloneValidationStep
<1>2. Interpolates(step.validation.expected) /\ step.validation.expectedValues # <<"unclosed">>
  BY <1>1 DEF LeftToThePlan
<1>3. FrozenAssertion(step.validation)
  BY <1>1, <1>2, AssertionsAgree
<1>4. step.validation.wait \in Waits
  BY <1>1 DEF AssertionTyped
<1> QED
  BY <1>1, <1>3, <1>4, WaitsAgree DEF validateStandaloneValidationStep, validateValidationStepInto

LEMMA ActionAgrees ==
  ASSUME StepTyped, ~LeftToThePlan, ActionValid
  PROVE  validateActionInto
<1>1. /\ step.action \in InterpolatedActions => Interpolates(step.value) /\ step.values # <<"unclosed">>
      /\ step.action = "navigate" => Navigable(step.value)
  BY DEF LeftToThePlan
<1>2. step.action \in InterpolatedActions => step.values \in {<<>>, <<"plain">>}
  BY <1>1 DEF StepTyped
<1>3. step.action \in InterpolatedActions => \A i \in DOMAIN step.values : Interpolates(step.values[i])
  BY <1>2 DEF Interpolates
<1>4. Given \intersect {"validation", "group", "reference", "waitKind", "waitMS", "repeatCount", "children"} = {}
  BY DEF ActionValid
<1> QED
  BY <1>1, <1>3, <1>4 DEF ActionValid, validateActionInto

LEMMA WaitAgrees ==
  ASSUME StepTyped, ~LeftToThePlan, WaitStepValid
  PROVE  validateWaitInto
<1>1. step.waitMS \in Int /\ ~(step.waitMS > MaxWaitMS)
  BY DEF LeftToThePlan, StepTyped
<1>2. step.waitMS <= MaxWaitMS
  BY <1>1, LimitsAssumption
<1>3. Given \intersect {"validation", "group", "action", "value", "values", "repeatCount", "reference",
                       "children", "optional"} = {}
  BY DEF WaitStepValid
<1>4. isElementWaitKind(step.waitKind) \/ (step.target = Empty /\ step.version = Empty)
  BY FieldsOfSteps, GivenFields DEF WaitStepValid, Blank
<1> QED
  BY <1>2, <1>3, <1>4 DEF WaitStepValid, validateWaitInto

LEMMA RepeatAgrees ==
  ASSUME StepTyped, ~LeftToThePlan, RepeatValid
  PROVE  validateRepeatInto
<1>1. step.repeatCount \in Int /\ ~(step.repeatCount > MaxRepeatCount)
  BY DEF LeftToThePlan, StepTyped
<1> QED
  BY <1>1, LimitsAssumption DEF RepeatValid, validateRepeatInto

LEMMA GroupAgrees ==
  ASSUME StepTyped, validateValidationGroupStep
  PROVE  validateValidationGroupInto
<1>1. step.group.wait \in Waits
  BY DEF StepTyped, GroupTyped, validateValidationGroupStep
<1> QED
  BY <1>1, WaitsAgree DEF validateValidationGroupStep, validateValidationGroupInto

LEMMA ReferenceAgrees ==
  ASSUME ~LeftToThePlan, ReferenceValid
  PROVE  validateReferenceInto
<1>1. step.reference # Empty
  BY FieldsOfSteps, GivenFields DEF ReferenceValid, Blank
<1>2. \A b \in step.reference.bindings : BindingFits(b)
  BY <1>1 DEF LeftToThePlan
<1> QED
  BY <1>2 DEF ReferenceValid, validateReferenceInto

\* What publication leaves to the plan is refused there.
LEMMA LeftIsRefused == StepTyped /\ Publishable /\ Frozen => ~LeftToThePlan
<1> SUFFICES ASSUME StepTyped, Publishable, Frozen PROVE ~LeftToThePlan
  OBVIOUS
<1>1. \A f \in StepFields : f \notin Own => step[f] = Blank[f]
  BY NothingLeft, GivenFields DEF NothingLeftBehind
<1>2. step.waitMS \in Int /\ step.repeatCount \in Int /\ MaxWaitMS \in Nat /\ MaxRepeatCount \in Nat
  BY LimitsAssumption DEF StepTyped
<1>3. ~(step.waitMS > MaxWaitMS)
  <2>1. CASE kind = "WAIT" /\ role # "member"
    BY <1>2, <2>1 DEF Frozen, validateWaitInto
  <2>2. CASE kind # "WAIT"
    <3>1. step.waitMS = 0
      BY <1>1, <2>2, FieldsOfSteps DEF Own, Blank
    <3> QED
      BY <1>2, <3>1
  <2> QED
    BY <2>1, <2>2 DEF Publishable
<1>4. ~(step.repeatCount > MaxRepeatCount)
  <2>1. CASE kind = "REPEAT" /\ role # "member"
    BY <1>2, <2>1 DEF Frozen, validateRepeatInto
  <2>2. CASE kind # "REPEAT"
    <3>1. step.repeatCount = 0
      BY <1>1, <2>2, FieldsOfSteps DEF Own, Blank
    <3> QED
      BY <1>2, <3>1
  <2> QED
    BY <2>1, <2>2 DEF Publishable
<1>5. /\ step.action \in InterpolatedActions => Interpolates(step.value) /\ <<"unclosed">> # step.values
      /\ step.action = "navigate" => Navigable(step.value)
  <2>1. ASSUME kind = "ACTION", role # "member"
        PROVE  /\ step.action \in InterpolatedActions => Interpolates(step.value) /\ <<"unclosed">> # step.values
               /\ step.action = "navigate" => Navigable(step.value)
    <3>1. validateActionInto
      BY <2>1 DEF Frozen
    <3>2. (\A i \in DOMAIN step.values : Interpolates(step.values[i])) => <<"unclosed">> # step.values
      <4> SUFFICES ASSUME <<"unclosed">> = step.values, \A i \in DOMAIN step.values : Interpolates(step.values[i])
                   PROVE  FALSE
        OBVIOUS
      <4>1. 1 \in DOMAIN step.values /\ step.values[1] = "unclosed"
        OBVIOUS
      <4> QED
        BY <4>1 DEF Interpolates
    <3>3. step.action = "navigate" => Navigable(step.value)
      BY <3>1 DEF validateActionInto
    <3>4. step.action \in InterpolatedActions =>
            Interpolates(step.value) /\ \A i \in DOMAIN step.values : Interpolates(step.values[i])
      BY <3>1 DEF validateActionInto
    <3>5. step.action \in InterpolatedActions => Interpolates(step.value) /\ <<"unclosed">> # step.values
      BY <3>2, <3>4
    <3> QED
      BY <3>3, <3>5
  <2>2. ASSUME kind # "ACTION" PROVE step.action \notin InterpolatedActions /\ step.action # "navigate"
    <3>1. step.action = Empty
      BY <1>1, <2>2, FieldsOfSteps DEF Own, Blank
    <3> QED
      BY <3>1, EmptyAssumption DEF InterpolatedActions
  <2>3. kind = "ACTION" => role # "member"
    BY DEF Publishable
  <2> QED
    BY <2>1, <2>2, <2>3
<1>6. step.reference # Empty => \A b \in step.reference.bindings : BindingFits(b)
  <2>1. ASSUME kind = "WORKFLOW_REF", role # "member"
        PROVE  \A b \in step.reference.bindings : BindingFits(b)
    BY <2>1 DEF Frozen, validateReferenceInto
  <2>2. kind # "WORKFLOW_REF" => step.reference = Empty
    BY <1>1, FieldsOfSteps DEF Own, Blank
  <2>3. kind = "WORKFLOW_REF" => role # "member"
    BY DEF Publishable
  <2> QED
    BY <2>1, <2>2, <2>3
<1>7. step.validation # Empty =>
        Interpolates(step.validation.expected) /\ <<"unclosed">> # step.validation.expectedValues
  <2>1. ASSUME kind = "VALIDATION"
        PROVE  Interpolates(step.validation.expected) /\ <<"unclosed">> # step.validation.expectedValues
    <3>1. FrozenAssertion(step.validation)
      BY <2>1 DEF Frozen, validateValidationStepInto
    <3>2. ASSUME step.validation.expectedValues = <<"unclosed">>,
                 \A i \in DOMAIN step.validation.expectedValues : Interpolates(step.validation.expectedValues[i])
          PROVE  FALSE
      <4>1. 1 \in DOMAIN step.validation.expectedValues /\ step.validation.expectedValues[1] = "unclosed"
        BY <3>2
      <4> QED
        BY <3>2, <4>1 DEF Interpolates
    <3> QED
      BY <3>1, <3>2 DEF FrozenAssertion
  <2>2. kind # "VALIDATION" => step.validation = Empty
    BY <1>1, FieldsOfSteps DEF Own, Blank
  <2> QED
    BY <2>1, <2>2
<1> QED
  BY <1>3, <1>4, <1>5, <1>6, <1>7 DEF LeftToThePlan

\* The rest is frozen.
LEMMA PublishedFreezes == StepTyped /\ Publishable /\ ~LeftToThePlan => Frozen
<1> SUFFICES ASSUME StepTyped, Publishable, ~LeftToThePlan PROVE Frozen
  OBVIOUS
<1>1. CASE role = "member"
  BY <1>1, ValidationAgrees DEF Publishable, Frozen
<1>2. CASE role # "member"
  <2>1. CASE kind = "ACTION"
    BY <1>2, <2>1, ActionAgrees DEF Publishable, Frozen
  <2>2. CASE kind = "WAIT"
    BY <1>2, <2>2, WaitAgrees DEF Publishable, Frozen
  <2>3. CASE kind = "REPEAT"
    BY <1>2, <2>3, RepeatAgrees DEF Publishable, Frozen
  <2>4. CASE kind = "WORKFLOW_REF"
    BY <1>2, <2>4, ReferenceAgrees DEF Publishable, Frozen
  <2>5. CASE kind = "VALIDATION"
    BY <1>2, <2>5, ValidationAgrees DEF Publishable, Frozen
  <2>6. CASE kind = "VALIDATION_GROUP"
    BY <1>2, <2>6, GroupAgrees DEF Publishable, Frozen
  <2> QED
    BY <1>2, <2>1, <2>2, <2>3, <2>4, <2>5, <2>6 DEF Publishable
<1> QED
  BY <1>1, <1>2

\* The compiler has a case for all that is frozen.
LEMMA FrozenIsCompiled == StepTyped => FrozenCompiles
<1> SUFFICES ASSUME StepTyped, Frozen, DependencyHeld PROVE Compiles
  BY DEF FrozenCompiles
<1>1. kind \in {"ACTION", "WAIT", "REPEAT", "WORKFLOW_REF", "VALIDATION", "VALIDATION_GROUP"}
  BY DEF Frozen
<1>2. CASE kind = "ACTION"
  BY <1>2 DEF Compiles, DependencyHeld, spec
<1>3. CASE kind = "WAIT"
  <2>1. validateWaitInto
    BY <1>3 DEF Frozen
  <2>2. step.waitMS >= 0
    BY <2>1 DEF validateWaitInto, StepTyped
  <2> QED
    BY <1>3, <2>1, <2>2, EmptyAssumption DEF Compiles, isElementWaitKind, validateWaitInto, TargetRequired, spec
<1>4. CASE kind = "REPEAT"
  BY <1>4 DEF Compiles
<1>5. CASE kind = "WORKFLOW_REF"
  <2>1. Given = {"reference"}
    BY <1>5 DEF Frozen, validateReferenceInto
  <2>2. step.reference # Empty
    BY <2>1, FieldsOfSteps, GivenFields DEF Blank
  <2> QED
    BY <1>5, <2>2 DEF Compiles
<1>6. CASE kind = "VALIDATION"
  <2>1. validateValidationStepInto
    BY <1>6 DEF Frozen
  <2> QED
    BY <1>6, <2>1 DEF Compiles, validateValidationStepInto, TargetRequired, spec
<1>7. CASE kind = "VALIDATION_GROUP"
  <2>1. Given = {"group"}
    BY <1>7 DEF Frozen, validateValidationGroupInto
  <2>2. step.group # Empty
    BY <2>1, FieldsOfSteps, GivenFields DEF Blank
  <2> QED
    BY <1>7, <2>2 DEF Compiles
<1> QED
  BY <1>1, <1>2, <1>3, <1>4, <1>5, <1>6, <1>7

LEMMA WhatIsNormalizedFits == StepTyped => NormalizedFits
<1> SUFFICES ASSUME StepTyped, step.validation # Empty
             PROVE  LET v == Normalized(step.validation)
                    IN /\ Normalized(v) = v
                       /\ \/ AssertionValid(v)
                          \/ v.kind = "odd"
                          \/ v.kind = "attribute_equals" /\ v.attribute # "name"
                          \/ v.kind = "text_matches" /\ v.expected = "broken"
  BY DEF NormalizedFits
<1>1. AssertionTyped(step.validation)
  BY DEF StepTyped
<1> QED
  BY <1>1, NormalizedShape

-----------------------------------------------------------------------------
\* However many fields an editor fills in, leaves behind or compares, a step that is
\* published is clean and is frozen unless it breaks a rule that the plan alone has, one
\* that is frozen can be compiled, and what is normalised fits (assets.go, workflow_validation.go, step_shape.go, compiler.go).
THEOREM ShapesTheorem == ShapeSpec => []ShapesAgree
<1>1. StepTyped => ShapesAgree
  BY PublishedFreezes, LeftIsRefused, FrozenIsCompiled, WhatIsNormalizedFits, NothingLeft
  DEF ShapesAgree, NothingLeftBehind, PublishedRuns
<1> QED
  BY <1>1, ShapeStarts, StepsStayTyped, PTL DEF ShapeSpec
================================================================================
