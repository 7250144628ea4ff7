----------------------------- MODULE AssetServices -----------------------------
(* The services of environments, flow fragments and execution flows             *)
(* (application/automation environment_service.go, workflow_service.go,         *)
(* test_task_service.go): load, compare the revision that the caller expects,   *)
(* apply the operation, save under that revision. Many callers use them at      *)
(* once. The repository is the host's: a save compares the revision under its   *)
(* own lock, and its answer may be lost.                                        *)
EXTENDS AssetOperations

CONSTANTS
  Callers,
  Requests,        \* the requests considered: [asset, op, version, at]
  First,           \* what is stored at first
  MaxSent          \* bound: how often requests are sent, all callers together

VARIABLES
  store,           \* asset -> its aggregate, or Absent
  call,            \* what each caller is doing
  sent

vars == <<store, call, sent>>

ASSUME RequestsAssumption ==
  \A q \in Requests : q.asset \in Assets /\ q.op \in OpsOf(KindOf[q.asset])

\* A stored aggregate is whole: what a save stores could be loaded again and be the
\* base of another operation (ValidateLoadedHistory, ExecutionFlowAggregate.Validate).
WholeAsset(x, a) ==
  \/ a = Absent
  \/ /\ a.id = x /\ a.revision \in 1..MaxRevision
     /\ KindOf[x] = "FRAGMENT" => ValidateLoadedHistory(a)
     /\ KindOf[x] = "FLOW" => FlowValid(a)

\* The versions of a flow are one line: each was made from the one before it, the
\* last one is current (SourceVersionID in PublishVersion).
FlowLine(a) ==
  \A k \in DOMAIN a.versions :
    LET v == a.versions[k] IN
    v.number = k /\ v.source = IF k = 1 THEN None ELSE a.versions[k - 1].id

Roots == {"id", "revision", "deleted", "updated"}
\* The fields of a stored aggregate: an environment's root, with a history for the rest.
Shaped(x, a) ==
  a # Absent =>
    /\ a.deleted \in BOOLEAN
    /\ KindOf[x] = "ENVIRONMENT" => DOMAIN a = Roots
    /\ KindOf[x] # "ENVIRONMENT" =>
         /\ DOMAIN a = Roots \union {"pointer", "current", "versions"}
         /\ a.versions \in Seq(Range(a.versions))

\* What is stored at first is what the services could have stored.
ASSUME FirstAssumption ==
  /\ DOMAIN First = Assets
  /\ \A x \in Assets :
       /\ Shaped(x, First[x]) /\ WholeAsset(x, First[x])
       /\ KindOf[x] = "FLOW" /\ First[x] # Absent => FlowLine(First[x])

NoRequest == [asset |-> None, op |-> None, version |-> None, at |-> 0]
\* lost: an answer did not arrive; commits: how often the request took effect.
Idle == [at |-> "IDLE", request |-> NoRequest, expected |-> 0, current |-> Absent,
         next |-> Absent, code |-> None, lost |-> FALSE, commits |-> 0]

Init ==
  /\ store = First
  /\ call = [c \in Callers |-> Idle]
  /\ sent = 0

Ends(c, code) == call' = [call EXCEPT ![c].at = "DONE", ![c].code = code]

\* A caller asks for an operation on the revision it knows: the stored one, or one
\* that has passed.
Begin(c) ==
  /\ call[c].at \in {"IDLE", "DONE"} /\ sent < MaxSent /\ sent' = sent + 1
  /\ \E q \in Requests : \E r \in (IF q.op = "CREATE" THEN {0} ELSE 1..store[q.asset].revision) :
       call' = [call EXCEPT ![c] = [Idle EXCEPT !.at = "LOAD", !.request = q, !.expected = r]]
  /\ UNCHANGED store

\* The same request again, after its answer was lost.
Again(c) ==
  /\ call[c].at = "DONE" /\ call[c].code = "UNKNOWN" /\ sent < MaxSent /\ sent' = sent + 1
  /\ call' = [call EXCEPT ![c].at = "LOAD", ![c].code = None, ![c].lost = TRUE]
  /\ UNCHANGED store

\* The aggregate of a new asset is made without a look at the store.
Create(c) ==
  LET made == Make(call[c].request) IN
  /\ call[c].at = "LOAD" /\ call[c].request.op = "CREATE"
  /\ IF made.ok
       THEN call' = [call EXCEPT ![c].at = "SAVE", ![c].current = Absent, ![c].next = made.value]
       ELSE Ends(c, made.code)
  /\ UNCHANGED <<store, sent>>

\* Mutant: the operation is applied to whatever is loaded, and saved under its revision.
transitionUnasked(c) ==
  LET q == call[c].request
      current == store[q.asset]
      next == Change(q, current)
  IN /\ call[c].at = "LOAD" /\ q.op # "CREATE"
     /\ IF current = Absent THEN Ends(c, "NOT_FOUND")
        ELSE IF ~next.ok THEN Ends(c, next.code)
        ELSE call' = [call EXCEPT ![c].at = "SAVE", ![c].expected = current.revision,
                                  ![c].current = current, ![c].next = next.value]
     /\ UNCHANGED <<store, sent>>

transition(c) ==
  LET q == call[c].request
      current == store[q.asset]
      next == Change(q, current)
  IN /\ call[c].at = "LOAD" /\ q.op # "CREATE"
     /\ IF current = Absent THEN Ends(c, "NOT_FOUND")
        ELSE IF current.revision # call[c].expected THEN Ends(c, "REVISION_CONFLICT")
        ELSE IF ~next.ok THEN Ends(c, next.code)
        ELSE call' = [call EXCEPT ![c].at = "SAVE", ![c].current = current, ![c].next = next.value]
     /\ UNCHANGED <<store, sent>>

\* External: the repository takes a new asset, or one under the expected revision.
Accepts(c) ==
  LET stored == store[call[c].request.asset] IN
  IF call[c].request.op = "CREATE" THEN stored = Absent
  ELSE stored # Absent /\ stored.revision = call[c].expected

\* Mutant: the save does not carry the revision that the operation was applied to.
SaveUnfenced(c) ==
  /\ call[c].at = "SAVE" /\ (call[c].request.op = "CREATE" => store[call[c].request.asset] = Absent)
  /\ store' = [store EXCEPT ![call[c].request.asset] = call[c].next]
  /\ \E code \in {"OK", "UNKNOWN"} :
       call' = [call EXCEPT ![c].at = "DONE", ![c].code = code, ![c].commits = @ + 1]
  /\ UNCHANGED sent

Save(c) ==
  /\ call[c].at = "SAVE" /\ Accepts(c)
  /\ store' = [store EXCEPT ![call[c].request.asset] = call[c].next]
  /\ \E code \in {"OK", "UNKNOWN"} :
       call' = [call EXCEPT ![c].at = "DONE", ![c].code = code, ![c].commits = @ + 1]
  /\ UNCHANGED sent

SaveRefused(c) ==
  /\ call[c].at = "SAVE" /\ ~Accepts(c)
  /\ Ends(c, "STORE_CONFLICT") /\ UNCHANGED <<store, sent>>

\* The repository is not reached: the caller cannot tell whether it was.
SaveFails(c) ==
  /\ call[c].at = "SAVE"
  /\ Ends(c, "UNKNOWN") /\ UNCHANGED <<store, sent>>

Step(c) ==
  \/ Begin(c) \/ Again(c) \/ Create(c) \/ transition(c)
  \/ Save(c) \/ SaveRefused(c) \/ SaveFails(c)

Next == \E c \in Callers : Step(c)

Spec == Init /\ [][Next]_vars

--------------------------------------------------------------------------------
\* Whatever the callers do at once, what is stored is whole (WholeAsset).
Whole == \A x \in Assets : WholeAsset(x, store[x])

\* However the callers interleave, the versions of a flow are one line (FlowLine).
FlowsAreLines == \A x \in Assets : KindOf[x] = "FLOW" /\ store[x] # Absent => FlowLine(store[x])

\* A request takes effect at most once, however often it is sent, and what its caller
\* is told is true: done when told so, not done when refused the first time.
AnswersAreTrue ==
  \A c \in Callers :
    /\ call[c].commits <= 1
    /\ call[c].at = "DONE" /\ call[c].code = "OK" => call[c].commits = 1
    /\ call[c].at = "DONE" /\ call[c].code \notin {"OK", "UNKNOWN"} /\ ~call[c].lost =>
         call[c].commits = 0

\* Versions are for good: none is changed, dropped or put elsewhere, and a deleted
\* asset takes no change but its restoration (immutable versions of PublishVersion).
HistoryIsPermanent ==
  [][\A x \in Assets :
       LET a == store[x]
           b == store'[x]
       IN a # Absent /\ a # b =>
            /\ b.revision = a.revision + 1 /\ b.updated >= a.updated
            /\ a.deleted => ~b.deleted
            /\ KindOf[x] # "ENVIRONMENT" =>
                 /\ Len(b.versions) >= Len(a.versions)
                 /\ SubSeq(b.versions, 1, Len(a.versions)) = a.versions]_vars

\* What is stored can always be built upon, and no history is ever rewritten
\* (versioning.go, lifecycle.go, test_task.go).
HistoriesAreKept == [](Whole /\ FlowsAreLines) /\ HistoryIsPermanent

\* The services do what AssetRegister promises: no update is lost, none is applied to
\* a state that has passed (the revision guards of transition and SaveAggregate).
Register == INSTANCE AssetRegister
ChangesAreAtomic == Register!Spec
================================================================================
