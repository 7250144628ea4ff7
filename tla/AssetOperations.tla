---------------------------- MODULE AssetOperations ----------------------------
(* What the operations on stored assets return (domain/automation lifecycle.go, *)
(* test_task.go): environments, which have no versions, execution flows, whose  *)
(* versions name the version they were made from, and flow fragments and        *)
(* element targets as in AssetVersions.                                         *)
EXTENDS AssetVersions

CONSTANTS
  Assets,      \* the identities of the assets
  KindOf       \* asset -> "ENVIRONMENT", "FRAGMENT" or "FLOW"

\* A fragment's operations are those of an element target, field for field.
Kinds == {"ENVIRONMENT", "FRAGMENT", "FLOW"}
ASSUME KindsAssumption == KindOf \in [Assets -> Kinds]

Absent == [id |-> None, revision |-> 0]

--------------------------------------------------------------------------------
(* Environments.                                                                *)
NewEnvironment(id, at) ==
  IF at = 0 THEN Rejected("TRANSITION_INVALID")
  ELSE Done([id |-> id, revision |-> 1, deleted |-> FALSE, updated |-> at])

AdvanceEnvironment(e, next, at) ==
  LET r == RevisionNext(e.revision) IN
  IF ~TransitionTimely(e, at) THEN Rejected("TRANSITION_INVALID")
  ELSE IF ~r.ok THEN r
  ELSE Done([next EXCEPT !.updated = at, !.revision = r.value])

UpdateEnvironment(e, at) ==
  IF e.deleted THEN Rejected("AGGREGATE_DELETED") ELSE AdvanceEnvironment(e, e, at)
setEnvironmentDeleted(e, deleted, at) ==
  IF e.deleted = deleted THEN Rejected("TRANSITION_INVALID")
  ELSE AdvanceEnvironment(e, [e EXCEPT !.deleted = deleted], at)

--------------------------------------------------------------------------------
(* Execution flows.                                                             *)
FlowVersion(id, owner, number, source) ==
  [id |-> id, owner |-> owner, number |-> number, source |-> source]

\* The first version has no source, a later one has an earlier one.
SourceFits(v, versions) ==
  IF v.number = 1 THEN v.source = None
  ELSE \E w \in Range(versions) : w.id = v.source /\ w.number < v.number

\* The current version is the last one of the history, and equal to it.
FlowValid(a) ==
  /\ a.id # None /\ a.pointer # None /\ a.updated > 0
  /\ a.versions # <<>>
  /\ validateVersionIdentity(a.versions) /\ OwnedBy(a.versions, a.id)
  /\ \A v \in Range(a.versions) : SourceFits(v, a.versions)
  /\ a.pointer = a.current.id
  /\ a.current \in Range(a.versions) /\ a.current.number = Len(a.versions)

NewExecutionFlow(id, version, at) ==
  LET first == FlowVersion(version, id, 1, None)
      a == [id |-> id, revision |-> 1, pointer |-> version, deleted |-> FALSE,
            updated |-> at, current |-> first, versions |-> <<first>>]
  IN IF at = 0 THEN Rejected("TRANSITION_INVALID")
     ELSE IF ~FlowValid(a) THEN Rejected("HISTORY_INVALID")
     ELSE Done(a)

\* Mutant: the new version names the first one as its source.
PublishFlowVersionFromFirst(a, version, at) ==
  LET v == FlowVersion(version, a.id, Len(a.versions) + 1, a.versions[1].id)
      r == RevisionNext(a.revision)
      n == [a EXCEPT !.pointer = version, !.current = v, !.versions = Append(@, v),
                     !.updated = at, !.revision = r.value]
  IN IF ~FlowValid(a) THEN Rejected("HISTORY_INVALID")
     ELSE IF a.deleted THEN Rejected("AGGREGATE_DELETED")
     ELSE IF version = None \/ ~TransitionTimely(a, at) THEN Rejected("TRANSITION_INVALID")
     ELSE IF version \in IDsOf(a.versions) THEN Rejected("TRANSITION_INVALID")
     ELSE IF ~r.ok THEN r
     ELSE IF ~FlowValid(n) THEN Rejected("HISTORY_INVALID")
     ELSE Done(n)

PublishFlowVersion(a, version, at) ==
  LET v == FlowVersion(version, a.id, Len(a.versions) + 1, a.current.id)
      r == RevisionNext(a.revision)
      n == [a EXCEPT !.pointer = version, !.current = v, !.versions = Append(@, v),
                     !.updated = at, !.revision = r.value]
  IN IF ~FlowValid(a) THEN Rejected("HISTORY_INVALID")
     ELSE IF a.deleted THEN Rejected("AGGREGATE_DELETED")
     ELSE IF version = None \/ ~TransitionTimely(a, at) THEN Rejected("TRANSITION_INVALID")
     ELSE IF version \in IDsOf(a.versions) THEN Rejected("TRANSITION_INVALID")
     ELSE IF ~r.ok THEN r
     ELSE IF ~FlowValid(n) THEN Rejected("HISTORY_INVALID")
     ELSE Done(n)

--------------------------------------------------------------------------------
(* A request: [asset, op, version, at].                                         *)
OpsOf(kind) ==
  CASE kind = "ENVIRONMENT" -> {"CREATE", "UPDATE", "DELETE", "RESTORE"}
    [] kind = "FRAGMENT"    -> {"CREATE", "UPDATE", "DELETE", "RESTORE", "PUBLISH"}
    [] kind = "FLOW"        -> {"CREATE", "PUBLISH"}

Make(q) ==
  CASE KindOf[q.asset] = "ENVIRONMENT" -> NewEnvironment(q.asset, q.at)
    [] KindOf[q.asset] = "FRAGMENT"    -> NewElementTarget(q.asset, q.version, q.at)
    [] KindOf[q.asset] = "FLOW"        -> NewExecutionFlow(q.asset, q.version, q.at)

Change(q, a) ==
  CASE q.op = "PUBLISH" -> IF KindOf[q.asset] = "FLOW" THEN PublishFlowVersion(a, q.version, q.at)
                           ELSE PublishVersion(a, q.version, q.at)
    [] q.op = "UPDATE"  -> IF KindOf[q.asset] = "ENVIRONMENT" THEN UpdateEnvironment(a, q.at)
                           ELSE UpdateMetadata(a, q.at)
    [] q.op \in {"DELETE", "RESTORE"} ->
         IF KindOf[q.asset] = "ENVIRONMENT" THEN setEnvironmentDeleted(a, q.op = "DELETE", q.at)
         ELSE setDeleted(a, q.op = "DELETE", q.at)

\* What the operation of a request makes of a stored asset, or of none.
Apply(q, a) ==
  IF q.op = "CREATE" THEN IF a = Absent THEN Make(q) ELSE Rejected("EXISTS")
  ELSE IF a = Absent THEN Rejected("NOT_FOUND") ELSE Change(q, a)
================================================================================
