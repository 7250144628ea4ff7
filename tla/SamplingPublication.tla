-------------------------- MODULE SamplingPublication --------------------------
(* The publication of a sampled draft: a caller reads the element targets that  *)
(* the draft was resolved to, maps draft and authority to one publication       *)
(* (application/automation/sampling_publication_mapper.go) and hands it, under  *)
(* an idempotency id, to the transaction of the host                            *)
(* (sampling_publication_transaction.go). Meanwhile editors transform the same  *)
(* targets through their service (node_service.go). The host is external: it    *)
(* stores what a save or a publication hands it when the revision it expects is *)
(* the stored one, all of it or nothing (conformancetest/suite.go).             *)
EXTENDS AssetVersions, TLC

CONSTANTS
  Publishers, Editors,
  Pubs,            \* publication ids
  Plan,            \* Plan[p]: the flow fragment's id, its version, and the nodes
                   \*   of the draft: temp, mode, target and version that is asked for
  Targets, EditIDs,\* element targets; the version ids that editors give
  FirstTargets,    \* the targets that are stored at first
  Times,           \* the times that requests carry
  MaxIssued        \* bound: how many commands are mapped or sent, all publishers together

VARIABLES
  targets,         \* the stored aggregates
  flows,           \* the stored flow fragments, with the versions they reference
  ledger,          \* publication id -> the publication that was applied, its outcome
  publisher, edit, \* what each publisher and each editor is doing
  issued           \* the commands that were mapped or sent
publicationVars == <<targets, flows, ledger, publisher, edit, issued>>

NoTarget == [NoVersion EXCEPT !.owner = "absent"]
Held(t) == targets[t] # NoTarget
NoResult == [flow |-> None, version |-> None, number |-> 0, nodes |-> <<>>]
NoPublication == [nodes |-> <<>>, flow |-> None, version |-> None, number |-> 0, refs |-> {}]
NoLedger == [digest |-> NoPublication, result |-> NoResult]
NoOutcome == [status |-> "NONE", pub |-> None, digest |-> NoPublication, result |-> NoResult]
AtRest == [at |-> "IDLE", pub |-> None, time |-> 0, seen |-> <<>>, command |-> NoPublication,
           code |-> "OK", result |-> NoResult, outcome |-> NoOutcome]
NoEdit == [at |-> "IDLE", target |-> None, expected |-> 0, next |-> NoTarget]

\* What is asked of a node is one of the four resolutions of a known target.
ASSUME PlanAssumption ==
  /\ Times \subseteq Nat
  /\ \A p \in Pubs :
       /\ Plan[p].nodes \in Seq(Range(Plan[p].nodes))
       /\ \A n \in Range(Plan[p].nodes) :
            n.target \in Targets /\ n.mode \in {"CREATE", "MERGE", "REUSE", "UNDECIDED"}

\* An element target that was loaded: its root, and a history that can be loaded again.
WholeTarget(t, a) ==
  /\ DOMAIN a = {"id", "revision", "pointer", "deleted", "updated", "current", "versions"}
  /\ a.id = t /\ a.revision \in 1..MaxRevision /\ a.deleted \in BOOLEAN /\ a.updated \in Nat
  /\ a.versions \in Seq(Range(a.versions))
  /\ \A v \in Range(a.versions) : DOMAIN v = DOMAIN NoVersion
  /\ ValidateLoadedHistory(a)
ASSUME TargetsAssumption ==
  /\ DOMAIN FirstTargets = Targets
  /\ \A t \in Targets : FirstTargets[t] = NoTarget \/ WholeTarget(t, FirstTargets[t])

PublicationInit ==
  /\ targets = FirstTargets
  /\ flows = [f \in {} |-> {}]
  /\ ledger = [p \in Pubs |-> NoLedger]
  /\ publisher = [c \in Publishers |-> AtRest]
  /\ edit = [e \in Editors |-> NoEdit]
  /\ issued = 0

Answers(c, code) ==
  publisher' = [publisher EXCEPT ![c].at = "DONE", ![c].code = code, ![c].result = NoResult]

--------------------------------------------------------------------------------
(* From a draft and its authority to a publication.                             *)
\* What is published of one node.
Decision(node, agg, revision, current, publish) ==
  [temp |-> node.temp, mode |-> node.mode, agg |-> agg, expectedRevision |-> revision,
   expectedCurrent |-> current, publish |-> publish]

mapCreate(node, at) ==
  LET made == NewElementTarget(node.target, node.version, at)
  IN IF made.ok THEN Done(Decision(node, made.value, 0, None, TRUE)) ELSE made

\* The authority is the aggregate that was read, with its revision and pointer.
mapMerge(node, seen, at) ==
  LET next == PublishVersion(seen, node.version, at)
  IN IF seen = NoTarget THEN Rejected("AUTHORITY_INVALID")
     ELSE IF seen.pointer = None THEN Rejected("AUTHORITY_INVALID")
     ELSE IF next.ok THEN Done(Decision(node, next.value, seen.revision, seen.pointer, TRUE))
     ELSE next

referenceable(versions, id) == {v \in Range(versions) : v.id = id /\ ~v.deleted}
mapReuse(node, seen) ==
  LET of == referenceable(seen.versions, node.version)
  IN IF seen = NoTarget THEN Rejected("AUTHORITY_INVALID")
     ELSE IF seen.pointer # seen.current.id THEN Rejected("AUTHORITY_INVALID")
     ELSE IF ~ValidateLoadedHistory(seen) THEN Rejected("HISTORY_INVALID")
     ELSE IF of = {} THEN Rejected("AUTHORITY_INVALID")
     ELSE Done(Decision(node, [seen EXCEPT !.current = CHOOSE v \in of : TRUE],
                        seen.revision, seen.pointer, FALSE))

mapSamplingNode(node, seen, at) ==
  CASE node.mode = "CREATE" -> mapCreate(node, at)
    [] node.mode = "MERGE" -> mapMerge(node, seen, at)
    [] node.mode = "REUSE" -> mapReuse(node, seen)
    [] OTHER -> Rejected("AUTHORITY_INVALID")

\* Every node of the draft is referenced by its steps, and only those are.
References(decisions) == {<<d.agg.id, d.agg.current.id>> : d \in Range(decisions)}

containsReferenceable(a, id) ==
  \/ a.current.id = id /\ ~a.current.deleted
  \/ referenceable(a.versions, id) # {}
DecisionValid(d) ==
  /\ IF d.mode = "REUSE" THEN ValidFor(d.agg.current, d.agg) ELSE Valid(d.agg)
  /\ ~d.agg.current.deleted
  /\ containsReferenceable(d.agg, d.agg.current.id)
  /\ CASE d.mode = "CREATE" ->
            d.expectedRevision = 0 /\ d.expectedCurrent = None /\ d.publish /\ d.agg.current.number = 1
       [] d.mode = "MERGE" ->
            /\ RevisionNext(d.expectedRevision) = Done(d.agg.revision)
            /\ d.expectedCurrent \notin {None, d.agg.current.id}
            /\ d.publish /\ d.agg.current.number >= 2
       [] d.mode = "REUSE" ->
            /\ d.expectedRevision # 0 /\ ~d.publish /\ d.expectedCurrent # None
            /\ d.agg.pointer = d.expectedCurrent /\ d.agg.revision = d.expectedRevision
       [] OTHER -> FALSE

validateContent(p) ==
  /\ \A d \in Range(p.nodes) : DecisionValid(d)
  /\ IsInjective([i \in DOMAIN p.nodes |-> p.nodes[i].temp])
  /\ IsInjective([i \in DOMAIN p.nodes |-> p.nodes[i].agg.id])
  /\ IsInjective([i \in DOMAIN p.nodes |-> p.nodes[i].agg.current.id])
  /\ p.refs \subseteq References(p.nodes)

\* Each node is mapped onto the aggregate that was read under its id, so none is missing and
\* none is too many; a flow whose references resolve is taken to be one that can be built.
MapSamplingPublication(p, seen, at) ==
  LET nodes == Plan[p].nodes
      mapped == [i \in DOMAIN nodes |-> mapSamplingNode(nodes[i], seen[i], at)]
      wrong == {i \in DOMAIN nodes : ~mapped[i].ok}
      decisions == [i \in DOMAIN nodes |-> mapped[i].value]
      made == [nodes |-> decisions, flow |-> Plan[p].flow, version |-> Plan[p].version,
               number |-> 1, refs |-> References(decisions)]
      temporary == [i \in DOMAIN nodes |-> nodes[i].temp]
      formal == [i \in DOMAIN nodes |-> nodes[i].target]
      asked == [i \in DOMAIN nodes |-> nodes[i].version]
  IN IF at = 0 \/ None \in {Plan[p].flow, Plan[p].version} THEN Rejected("AUTHORITY_INVALID")
     ELSE IF \E i \in DOMAIN nodes : None \in {temporary[i], formal[i], asked[i]}
       THEN Rejected("AUTHORITY_INVALID")
     ELSE IF \E f \in {temporary, formal, asked} : ~IsInjective(f) THEN Rejected("AUTHORITY_INVALID")
     ELSE IF wrong # {} THEN mapped[CHOOSE i \in wrong : \A j \in wrong : i <= j]
     ELSE IF ~validateContent(made) THEN Rejected("CONTENT_INVALID")
     ELSE Done(made)
--------------------------------------------------------------------------------
(* A call: the authority is read node by node, then the publication is mapped   *)
(* and sent; it is sent again, as it is, when no answer came.                   *)
UnchangedStore == UNCHANGED <<targets, flows, ledger>>

Ask(c, p, at) ==
  /\ publisher[c].at \in {"IDLE", "DONE"} /\ issued < MaxIssued /\ issued' = issued + 1
  /\ publisher' = [publisher EXCEPT ![c] = [AtRest EXCEPT !.at = "READ", !.pub = p, !.time = at]]
  /\ UnchangedStore /\ UNCHANGED edit

\* A created target has no authority to read.
ReadAuthority(c) ==
  LET nodes == Plan[publisher[c].pub].nodes
      next == nodes[Len(publisher[c].seen) + 1]
      authority == IF next.mode = "CREATE" THEN NoTarget ELSE targets[next.target]
  IN /\ publisher[c].at = "READ" /\ Len(publisher[c].seen) < Len(nodes)
     /\ publisher' = [publisher EXCEPT ![c].seen = Append(@, authority)]
     /\ UnchangedStore /\ UNCHANGED <<edit, issued>>

Map(c) ==
  LET made == MapSamplingPublication(publisher[c].pub, publisher[c].seen, publisher[c].time) IN
  /\ publisher[c].at = "READ" /\ Len(publisher[c].seen) = Len(Plan[publisher[c].pub].nodes)
  /\ publisher' = [publisher EXCEPT ![c] =
       IF made.ok THEN [@ EXCEPT !.at = "LOOKUP", !.command = made.value, !.seen = <<>>]
       ELSE [AtRest EXCEPT !.at = "DONE", !.code = made.code]]
  /\ UnchangedStore /\ UNCHANGED <<edit, issued>>

SendAgain(c) ==
  /\ publisher[c].at = "DONE" /\ publisher[c].command # NoPublication
  /\ issued < MaxIssued /\ issued' = issued + 1
  /\ publisher' = [publisher EXCEPT ![c].at = "LOOKUP", ![c].code = "OK", ![c].result = NoResult]
  /\ UnchangedStore /\ UNCHANGED edit

ResultOf(p) ==
  [flow |-> p.flow, version |-> p.version, number |-> p.number,
   nodes |-> [i \in DOMAIN p.nodes |->
               [temp |-> p.nodes[i].temp, target |-> p.nodes[i].agg.id,
                version |-> p.nodes[i].agg.current.id, mode |-> p.nodes[i].mode]]]

\* What the host answers from its ledger; a faulty host mixes answers up.
Replay(c) ==
  [status |-> "REPLAYED", pub |-> publisher[c].pub, digest |-> ledger[publisher[c].pub].digest,
   result |-> ledger[publisher[c].pub].result]
MixedUp(o) ==
  {[o EXCEPT !.status = "PENDING"], [o EXCEPT !.pub = "another"], [o EXCEPT !.digest = NoPublication],
   [o EXCEPT !.result.number = @ + 1], [o EXCEPT !.result.nodes = SubSeq(@, 2, Len(@))]}
     \union {[o EXCEPT !.result.nodes[1].version = ledger[p].result.nodes[1].version] :
               p \in {q \in Pubs : ledger[q] # NoLedger}}
Reply(c, o) == publisher' = [publisher EXCEPT ![c].at = "REPLY", ![c].outcome = o]

Lookup(c) ==
  /\ publisher[c].at = "LOOKUP"
  /\ IF ledger[publisher[c].pub] = NoLedger THEN publisher' = [publisher EXCEPT ![c].at = "PUBLISH"]
     ELSE IF ledger[publisher[c].pub].digest # publisher[c].command THEN Answers(c, "IDENTITY_CONFLICT")
     ELSE Reply(c, Replay(c))
  /\ UnchangedStore /\ UNCHANGED <<edit, issued>>

\* Mutant: only what is created is written with the flow fragment.
PublishingCreated(p) == {d \in Range(p.nodes) : d.publish /\ d.mode = "CREATE"}
Publishing(p) == {d \in Range(p.nodes) : d.publish}

\* External: what the transaction of the host checks under its lock.
Taken(versions) == \E t \in Targets : Held(t) /\ IDsOf(targets[t].versions) \intersect versions # {}
AuthorityStands(d) ==
  IF d.mode = "CREATE" THEN ~Held(d.agg.id)
  ELSE /\ Held(d.agg.id)
       /\ targets[d.agg.id].revision = d.expectedRevision
       /\ targets[d.agg.id].pointer = d.expectedCurrent
CanApply(p) ==
  /\ \A d \in Range(p.nodes) : AuthorityStands(d)
  /\ ~Taken({d.agg.current.id : d \in Publishing(p)})
  /\ p.flow \notin DOMAIN flows

PublishSampling(c) ==
  LET p == publisher[c].command
      id == publisher[c].pub
      written(t) == {d \in Publishing(p) : d.agg.id = t}
      outcome == [status |-> "APPLIED", pub |-> id, digest |-> p, result |-> ResultOf(p)]
  IN /\ publisher[c].at = "PUBLISH"
     /\ IF ledger[id] # NoLedger
        THEN /\ IF ledger[id].digest # p THEN Answers(c, "IDENTITY_CONFLICT") ELSE Reply(c, Replay(c))
             /\ UnchangedStore
        ELSE IF ~CanApply(p) THEN Answers(c, "AUTHORITY_CONFLICT") /\ UnchangedStore
        ELSE /\ targets' = [t \in Targets |->
                  IF written(t) # {} THEN (CHOOSE d \in written(t) : TRUE).agg ELSE targets[t]]
             /\ flows' = [f \in DOMAIN flows \union {p.flow} |-> IF f = p.flow THEN p.refs ELSE flows[f]]
             /\ ledger' = [ledger EXCEPT ![id] = [digest |-> p, result |-> ResultOf(p)]]
             /\ Reply(c, outcome)
     /\ UNCHANGED <<edit, issued>>

\* Fault: the host is not reached or its answer is lost, after a commit too.
Fails(c) ==
  /\ publisher[c].at \in {"LOOKUP", "REPLY"}
  /\ Answers(c, "UNAVAILABLE") /\ UnchangedStore /\ UNCHANGED <<edit, issued>>

\* Mutant: the identity of an outcome is enough.
OutcomeIdentified(id, p, o) ==
  o.status \in {"APPLIED", "REPLAYED"} /\ o.pub = id /\ o.digest = p
validatePublishSamplingOutcome(id, p, o) ==
  /\ o.status \in {"APPLIED", "REPLAYED"}
  /\ o.pub = id /\ o.digest = p
  /\ o.result.flow = p.flow /\ o.result.version = p.version /\ o.result.number = p.number
  /\ Len(o.result.nodes) = Len(p.nodes)
  /\ \A i \in DOMAIN p.nodes : o.result.nodes[i] = ResultOf(p).nodes[i]

Receive(c) ==
  /\ publisher[c].at = "REPLY"
  /\ \E o \in {publisher[c].outcome} \union MixedUp(publisher[c].outcome) :
     IF validatePublishSamplingOutcome(publisher[c].pub, publisher[c].command, o)
     THEN publisher' = [publisher EXCEPT ![c].at = "DONE", ![c].code = "OK", ![c].result = o.result,
                                         ![c].outcome = NoOutcome]
     ELSE publisher' = [publisher EXCEPT ![c].at = "DONE", ![c].code = "CONTRACT_VIOLATION",
                                         ![c].outcome = NoOutcome]
  /\ UnchangedStore /\ UNCHANGED <<edit, issued>>

--------------------------------------------------------------------------------
(* Editors of the same targets (node_service.go): the revision that an editor   *)
(* saw is compared when the target is loaded and again when it is saved.        *)
Open(e, t) ==
  /\ edit[e].at = "IDLE" /\ Held(t)
  /\ edit' = [edit EXCEPT ![e] = [NoEdit EXCEPT !.at = "LOAD", !.target = t, !.expected = targets[t].revision]]
  /\ UnchangedStore /\ UNCHANGED <<publisher, issued>>

Transitions(a, at) ==
  {UpdateMetadata(a, at), setDeleted(a, TRUE, at), setDeleted(a, FALSE, at)}
    \union {PublishVersion(a, v, at) : v \in EditIDs}

transitionTarget(e, at) ==
  LET a == targets[edit[e].target] IN
  /\ edit[e].at = "LOAD"
  /\ IF a.revision # edit[e].expected THEN edit' = [edit EXCEPT ![e] = NoEdit]
     ELSE \E r \in Transitions(a, at) :
            edit' = [edit EXCEPT ![e] = IF r.ok THEN [@ EXCEPT !.at = "SAVE", !.next = r.value] ELSE NoEdit]
  /\ UnchangedStore /\ UNCHANGED <<publisher, issued>>

\* External: the repository stores the aggregate if the revision is the expected one.
SaveAggregate(e) ==
  LET t == edit[e].target
      new == IDsOf(edit[e].next.versions) \ IDsOf(targets[t].versions)
  IN /\ edit[e].at = "SAVE"
     /\ edit' = [edit EXCEPT ![e] = NoEdit]
     /\ targets' = IF targets[t].revision = edit[e].expected /\ ~Taken(new)
                   THEN [targets EXCEPT ![t] = edit[e].next] ELSE targets
     /\ UNCHANGED <<flows, ledger, publisher, issued>>

\* External: the host deletes a version; the pointer moves to what is left.
DeleteVersion(t) ==
  \E i \in DOMAIN targets[t].versions :
    LET left == [targets[t].versions EXCEPT ![i].deleted = TRUE] IN
    /\ ~targets[t].versions[i].deleted /\ targets[t].revision < MaxRevision
    /\ targets' = [targets EXCEPT ![t].versions = left, ![t].revision = @ + 1,
                     ![t].current = ResolveCurrentVersion(left), ![t].pointer = ResolveCurrentVersion(left).id]
    /\ UNCHANGED <<flows, ledger, publisher, edit, issued>>

PublicationNext ==
  \/ \E c \in Publishers :
       \/ \E p \in Pubs, at \in Times : Ask(c, p, at)
       \/ ReadAuthority(c) \/ Map(c) \/ SendAgain(c) \/ Lookup(c)
       \/ PublishSampling(c) \/ Fails(c) \/ Receive(c)
  \/ \E e \in Editors : \/ \E t \in Targets : Open(e, t)
                         \/ \E at \in Times : transitionTarget(e, at)
                         \/ SaveAggregate(e)
  \/ \E t \in {x \in Targets : Held(x)} : DeleteVersion(t)

PublicationSpec == PublicationInit /\ [][PublicationNext]_publicationVars

--------------------------------------------------------------------------------
PublicationTypeOK ==
  /\ \A t \in Targets : Held(t) => targets[t].id = t /\ targets[t].revision \in 1..MaxRevision
  /\ \A c \in Publishers : publisher[c].at \in {"IDLE", "READ", "LOOKUP", "PUBLISH", "REPLY", "DONE"}
  /\ \A e \in Editors : edit[e].at \in {"IDLE", "LOAD", "SAVE"}

\* Whoever publishes or edits, and whatever versions are deleted meanwhile, the
\* history that is stored of a target can be loaded again: its numbers run from 1
\* without a gap or a double (versioning.go, NextVersionNumber, PublishVersion).
HistoriesStayWhole == \A t \in Targets : Held(t) => ValidateLoadedHistory(targets[t])

\* What the mapper makes of an authority that was read always passes the content
\* checks of the domain: the two state the same rules (mapSamplingNode, Validate).
MapperMeetsItsContract == \A c \in Publishers : publisher[c].code # "CONTENT_INVALID"

\* Every version that a published flow fragment references is in the history of the
\* target it names, for good.
ReferencesResolve ==
  \A f \in DOMAIN flows : \A r \in flows[f] : Held(r[1]) /\ r[2] \in IDsOf(targets[r[1]].versions)

\* Every write of a target counts its revision up by one, moves its time not back,
\* and keeps the identity and the number of every version it had: two writers that
\* read the same revision cannot both succeed.
EveryWriteCounts ==
  [][\A t \in Targets : targets'[t] # targets[t] /\ Held(t) =>
       /\ targets'[t].revision = targets[t].revision + 1
       /\ targets'[t].updated >= targets[t].updated
       /\ \A i \in DOMAIN targets[t].versions :
            /\ i \in DOMAIN targets'[t].versions
            /\ targets'[t].versions[i].id = targets[t].versions[i].id
            /\ targets'[t].versions[i].number = targets[t].versions[i].number]_publicationVars

\* At the moment it is published, a flow fragment references no version that was
\* deleted, also when it was deleted after the authority was read.
ReferencesAreLiveWhenPublished ==
  [][\A f \in DOMAIN flows' \ DOMAIN flows : \A r \in flows'[f] :
       \E v \in Range(targets'[r[1]].versions) : v.id = r[2] /\ ~v.deleted]_publicationVars

\* The calls keep the promise of publishing under an idempotency id: a caller that
\* is told a result is told that of the publication it sent, and this one is in the
\* ledger under its id, also when the host mixes its answers up, when answers were
\* lost and when it is sent again (validatePublishSamplingOutcome).
ToldOf(c) ==
  IF publisher[c].at = "DONE" /\ publisher[c].code = "OK"
  THEN <<publisher[c].pub, [digest |-> publisher[c].command, result |-> publisher[c].result]>>
  ELSE <<None, NoLedger>>
Promise ==
  INSTANCE PublicationPromise WITH
    Callers <- Publishers, Nothing <- NoLedger, Untold <- <<None, NoLedger>>,
    applied <- ledger, told <- [c \in Publishers |-> ToldOf(c)]
PromiseKept == Promise!Spec

\* Publications leave histories that are whole and references that resolve, no write
\* takes back what another wrote, no flow is published on a version that was deleted,
\* and an answer is that of what was published under its id (versioning.go,
\* sampling_publication_mapper.go, sampling_publication_transaction.go).
PublicationsAreSound ==
  /\ [](PublicationTypeOK /\ HistoriesStayWhole /\ ReferencesResolve /\ MapperMeetsItsContract)
  /\ EveryWriteCounts /\ ReferencesAreLiveWhenPublished /\ PromiseKept
================================================================================
