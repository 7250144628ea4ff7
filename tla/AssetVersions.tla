----------------------------- MODULE AssetVersions -----------------------------
(* Versioned assets (domain/automation: lifecycle.go, versioning.go, assets.go, *)
(* revision.go): what a transition of an element target returns. An aggregate   *)
(* is its root (id, revision, current-version pointer, times), the version it   *)
(* was loaded with as current and its history. Versions of flow fragments       *)
(* follow the same rules.                                                       *)
EXTENDS Naturals, Sequences, FiniteSets, SequencesExt

CONSTANTS
  None,            \* a blank identity
  MaxRevision,     \* the largest revision
  MaxVersion       \* the largest version number

ASSUME BoundsAssumption == MaxRevision \in Nat \ {0} /\ MaxVersion \in Nat \ {0}

Rejected(code) == [ok |-> FALSE, code |-> code]
Done(value) == [ok |-> TRUE, code |-> "OK", value |-> value]

NoVersion == [id |-> None, owner |-> None, number |-> 0, deleted |-> FALSE]
Version(id, owner, number) == [id |-> id, owner |-> owner, number |-> number, deleted |-> FALSE]

RevisionNext(r) ==
  IF r = 0 THEN Rejected("REVISION_INVALID")
  ELSE IF r = MaxRevision THEN Rejected("REVISION_EXHAUSTED")
  ELSE Done(r + 1)

IDsOf(versions) == {v.id : v \in Range(versions)}
NumbersOf(versions) == {v.number : v \in Range(versions)}

NextVersionNumber(versions) ==
  LET maximum == CHOOSE n \in NumbersOf(versions) \union {0} : \A k \in NumbersOf(versions) : k <= n
  IN IF 0 \in NumbersOf(versions) THEN Rejected("VERSION_NUMBER_INVALID")
     ELSE IF maximum = MaxVersion THEN Rejected("VERSION_NUMBER_EXHAUSTED")
     ELSE Done(maximum + 1)

\* The pointer to hold when versions are deleted: the highest that is left.
ResolveCurrentVersion(versions) ==
  LET live == {v \in Range(versions) : ~v.deleted /\ v.id # None}
  IN IF live = {} THEN NoVersion
     ELSE CHOOSE v \in live : \A w \in live : w.number <= v.number

\* The root, its pointer and the current version fit each other.
Valid(a) ==
  /\ a.id # None /\ a.current.id # None
  /\ a.pointer = a.current.id
  /\ a.current.owner = a.id
  /\ a.current.number >= 1

\* A version that was selected from the history fits the root.
ValidFor(v, a) == Valid([a EXCEPT !.pointer = v.id, !.current = v])

validateVersionIdentity(versions) ==
  /\ None \notin IDsOf(versions)
  /\ Cardinality(IDsOf(versions)) = Len(versions)
  /\ NumbersOf(versions) = 1..Len(versions)

OwnedBy(versions, id) == \A v \in Range(versions) : v.owner = id

ValidateLoadedHistory(a) ==
  /\ validateVersionIdentity(a.versions)
  /\ OwnedBy(a.versions, a.id)
  /\ IF a.pointer = None THEN a.current.id = None /\ \A v \in Range(a.versions) : v.deleted
     ELSE Valid(a) /\ a.current.id \in IDsOf(a.versions)

--------------------------------------------------------------------------------
(* The transitions. Each returns a new aggregate and leaves the given one.      *)
NewElementTarget(id, version, at) ==
  LET first == Version(version, id, 1)
      a == [id |-> id, revision |-> 1, pointer |-> version, deleted |-> FALSE,
            updated |-> at, current |-> first, versions |-> <<first>>]
  IN IF at = 0 THEN Rejected("TRANSITION_INVALID")
     ELSE IF ~ValidateLoadedHistory(a) THEN Rejected("HISTORY_INVALID")
     ELSE Done(a)

TransitionTimely(a, at) == at > 0 /\ at >= a.updated

\* One revision further, with the history checked anew.
Advance(a, next, at) ==
  LET r == RevisionNext(a.revision)
      n == [next EXCEPT !.updated = at, !.revision = r.value]
  IN IF ~TransitionTimely(a, at) THEN Rejected("TRANSITION_INVALID")
     ELSE IF ~r.ok THEN r
     ELSE IF ~ValidateLoadedHistory(n) THEN Rejected("HISTORY_INVALID")
     ELSE Done(n)

UpdateMetadata(a, at) == IF a.deleted THEN Rejected("AGGREGATE_DELETED") ELSE Advance(a, a, at)
setDeleted(a, deleted, at) ==
  IF a.deleted = deleted THEN Rejected("TRANSITION_INVALID") ELSE Advance(a, [a EXCEPT !.deleted = deleted], at)

validateNewVersionIdentity(a, version) ==
  version \notin {None, a.current.id} \union IDsOf(a.versions)
nextNodeVersion(a) ==
  NextVersionNumber(a.versions \o (IF a.current.id \in IDsOf(a.versions) THEN <<>> ELSE <<a.current>>))

PublishVersion(a, version, at) ==
  LET number == nextNodeVersion(a)
      r == RevisionNext(a.revision)
      v == Version(version, a.id, number.value)
      n == [a EXCEPT !.pointer = version, !.current = v, !.versions = Append(@, v),
                     !.updated = at, !.revision = r.value]
  IN IF ~Valid(a) THEN Rejected("TARGET_INVALID")
     ELSE IF a.deleted THEN Rejected("AGGREGATE_DELETED")
     ELSE IF ~TransitionTimely(a, at) THEN Rejected("TRANSITION_INVALID")
     ELSE IF ~validateNewVersionIdentity(a, version) THEN Rejected("HISTORY_INVALID")
     ELSE IF ~r.ok THEN r
     ELSE IF ~number.ok THEN number
     ELSE IF ~Valid(n) THEN Rejected("TARGET_INVALID")
     ELSE Done(n)
================================================================================
