----------------------- MODULE InstanceCreation_proofs -----------------------
(***************************************************************************)
(* Proofs about InstanceCreation, for any calls and commands, any task     *)
(* version, any catalog, any store and every resolver that is wrong in one *)
(* of the listed ways.                                                     *)
(***************************************************************************)
EXTENDS InstanceCreation, FiniteSetTheorems, WellFoundedInduction, TLAPS

-----------------------------------------------------------------------------
(* The inductive invariant.                                                *)

Ids == {Items[k].id : k \in Positions}

\* A snapshot is what a command asked for.
Fits(cmd, s) ==
  /\ s.instance = cmd.instance /\ s.task = cmd.task
  /\ s.environment = cmd.environment /\ s.policy = cmd.policy
  /\ DOMAIN s.entries = Positions
  /\ DOMAIN cmd.entries = Ids
  /\ \A k \in Positions :
       /\ Items[k].policy = "FIXED" => s.entries[k].version = Items[k].version
       /\ DOMAIN Supplied(cmd, k) \subseteq Declared(Items[k].flow, s.entries[k].version)
       /\ s.entries[k].values =
            ResolveParameterValues(Items[k].flow, s.entries[k].version, Supplied(cmd, k))
       /\ \A j \in Positions :
            /\ Items[j].policy = "LATEST" /\ Items[k].policy = "LATEST"
            /\ Items[j].flow = Items[k].flow
            => s.entries[j].version = s.entries[k].version

WellAsked(c) == CommandOf[c].size = "fits" /\ CommandOf[c].shape = "wellformed"

\* Some admitted call asked for the record.
StoredFor(c, rec) ==
  WellAsked(c) /\ rec = Stored(cmdOf(c), rec.snapshot) /\ Fits(cmdOf(c), rec.snapshot)

Records ==
  \A key \in DOMAIN commands :
    /\ commands[key].command = key
    /\ commands[key].run \in DOMAIN runs
    /\ \E c \in Calls : StoredFor(c, commands[key])

\* A result says what is stored.
IsStored(r) ==
  /\ r.command \in DOMAIN commands
  /\ commands[r.command].snapshot = r.snapshot
  /\ commands[r.command].request = r.request

\* A success told a record for the command of its call, and what is stored where it
\* created that or where the store keeps its promises.
AnswerHolds(a) ==
  /\ RecordFor(a.record, cmdOf(a.by[1])) /\ a.snapshot = a.record.snapshot
  /\ a.applied \/ faithful => IsStored(a)

AnswersHold ==
  /\ \A a \in answers : AnswerHolds(a)
  /\ faithful => \A a, b \in answers : a.command = b.command /\ a.applied /\ b.applied => a = b

\* What a call holds answers its command; what it is about to write fits it; what it
\* found was stored.
ResultHolds(c) ==
  LET cmd == cmdOf(c)
      r == call[c].result
  IN /\ r.command = cmd.command /\ r.request = RequestDigest(cmd)
     /\ call[c].pc = "insert" => Fits(cmd, r.snapshot)
     /\ call[c].pc = "commit" => RecordFor(r.record, cmd) /\ r.snapshot = r.record.snapshot
     /\ call[c].pc = "commit" /\ call[c].dirty => Fits(cmd, r.snapshot) /\ r.applied
     /\ call[c].pc = "commit" /\ ~call[c].dirty => ~r.applied /\ (faithful => IsStored(r))

Accusations == {"contractViolation", "unclassified", "snapshotInvalid"}

CallHolds(c) ==
  /\ call[c].pc \in {"callback", "insert", "commit"} => WellAsked(c)
  /\ call[c].pc \in {"insert", "commit"} => ResultHolds(c)
  /\ faithful => call[c].answer \notin Accusations
  /\ faithful /\ call[c].answer = "commandConflict" =>
       /\ cmdOf(c).command \in DOMAIN commands
       /\ commands[cmdOf(c).command].request # RequestDigest(cmdOf(c))

\* A call has its four fields, and a result has its five.
Formed(c) ==
  LET r == call[c].result
  IN /\ call[c] = [pc |-> call[c].pc, dirty |-> call[c].dirty, result |-> r,
                   answer |-> call[c].answer]
     /\ r = [command |-> r.command, request |-> r.request, snapshot |-> r.snapshot,
             record |-> r.record, applied |-> r.applied]

\* Each command whose creation nobody was told of cost a failure.
UntoldAreFew == IsFiniteSet(Untold) /\ Cardinality(Untold) <= faults

IInv ==
  /\ TypeOK
  /\ Records
  /\ AnswersHold
  /\ UntoldAreFew
  /\ call = [c \in Calls |-> call[c]]
  /\ \A c \in Calls : Formed(c) /\ CallHolds(c)

-----------------------------------------------------------------------------
(* Numbers, lists and the constants.                                       *)

\* A set of numbers has a least one: the first error, the first dependency.
LEMMA Least ==
  ASSUME NEW T \in SUBSET Nat, T # {}
  PROVE  \E x \in T : \A y \in T : x <= y
<1> DEFINE R == OpToRel(<, Nat)
<1>1. IsWellFoundedOn(R, Nat)
  BY NatLessThanWellFounded
<1>2. \A x, y \in Nat : <<y, x>> \in R <=> y < x
  BY DEF OpToRel
<1> HIDE DEF R
<1>3. PICK x \in T : \A y \in T : ~(<<y, x>> \in R)
  BY <1>1, WFMin
<1>4. \A y \in T : ~(y < x)
  BY <1>2, <1>3
<1> QED
  BY <1>4

\* The first error is one of the errors, and there is none where every code is none.
LEMMA FirstErrorIsAnError ==
  ASSUME NEW codes, DOMAIN codes \subseteq Nat
  PROVE  /\ FirstError(codes) = None => \A k \in DOMAIN codes : codes[k] = None
         /\ FirstError(codes) # None => \E k \in DOMAIN codes : FirstError(codes) = codes[k]
<1> DEFINE bad == {k \in DOMAIN codes : codes[k] # None}
<1>1. CASE bad = {}
  BY <1>1 DEF FirstError
<1>2. CASE bad # {}
  <2>1. \E k \in bad : \A j \in bad : k <= j
    BY <1>2, Least
  <2> DEFINE first == CHOOSE k \in bad : \A j \in bad : k <= j
  <2>2. first \in bad
    BY <2>1
  <2>3. FirstError(codes) = codes[first]
    BY <1>2 DEF FirstError
  <2> QED
    BY <2>2, <2>3
<1> QED
  BY <1>1, <1>2

\* SetToSeq lists a finite set: nothing but its elements, and each of them.
LEMMA Listed ==
  ASSUME NEW S, IsFiniteSet(S)
  PROVE  /\ DOMAIN SetToSeq(S) \subseteq Nat
         /\ Range(SetToSeq(S)) = S
<1> DEFINE n == Cardinality(S)
           f == SetToSeq(S)
<1>1. n \in Nat /\ ExistsBijection(1..n, S)
  BY FS_CardinalityType
<1>2. PICK b \in Bijection(1..n, S) : TRUE
  BY <1>1 DEF ExistsBijection
<1>3. b \in [1..n -> S] /\ IsInjective(b)
  BY <1>2 DEF Bijection, Injection, IsInjective
<1>4. f \in [1..n -> S] /\ IsInjective(f)
  BY <1>3 DEF SetToSeq
<1> HIDE DEF f
<1>5. f \in Injection(1..n, S)
  BY <1>4 DEF Injection, IsInjective
<1>6. IsFiniteSet(1..n) /\ Cardinality(1..n) = n
  BY <1>1, FS_Interval
<1>7. f \in Surjection(1..n, S)
  BY <1>5, <1>6, FS_Injection
<1> QED
  BY <1>1, <1>4, <1>7 DEF Surjection, Range, f

\* The items of a version, and their identities, are as many as the version is long.
LEMMA ItemsAreCounted ==
  /\ Positions \subseteq Nat /\ IsFiniteSet(Positions)
  /\ IsFiniteSet(Ids) /\ Cardinality(Ids) = Cardinality(Positions)
<1> DEFINE f == [k \in Positions |-> Items[k].id]
<1>1. PICK n \in Nat : Positions = 1..n
  <2>1. Len(Items) \in Nat /\ Positions = 1..Len(Items)
    BY ItemsAssumption DEF Positions
  <2> QED
    BY <2>1
<1>2. IsFiniteSet(Positions)
  BY <1>1, FS_Interval
<1>3. f \in Surjection(Positions, Ids)
  BY DEF Surjection, Ids
<1>4. f \in Injection(Positions, Ids)
  BY <1>3, ItemsAssumption DEF Surjection, Injection, IsInjective, Positions
<1> QED
  BY <1>1, <1>2, <1>3, <1>4, FS_Surjection

-----------------------------------------------------------------------------
(* The command.                                                            *)

\* The normal form of a command differs from it in the policy only, and is its own
\* normal form.
LEMMA NormalForm ==
  ASSUME NEW c \in Calls
  PROVE  /\ cmdOf(c) = [command |-> CommandOf[c].command, instance |-> CommandOf[c].instance,
                        task |-> CommandOf[c].task, environment |-> CommandOf[c].environment,
                        policy |-> cmdOf(c).policy, size |-> CommandOf[c].size,
                        shape |-> CommandOf[c].shape, entries |-> CommandOf[c].entries]
         /\ cmdOf(c).policy = IF CommandOf[c].policy = "" THEN "STOP_ON_FAILURE"
                                                          ELSE CommandOf[c].policy
         /\ normalize(cmdOf(c)) = cmdOf(c)
         /\ RequestDigest(CommandOf[c]) = RequestDigest(cmdOf(c))
         /\ RequestDigest(cmdOf(c)) = [cmdOf(c) EXCEPT !.command = None]
<1>1. CommandOf[c] = [command |-> CommandOf[c].command, instance |-> CommandOf[c].instance,
                      task |-> CommandOf[c].task, environment |-> CommandOf[c].environment,
                      policy |-> CommandOf[c].policy, size |-> CommandOf[c].size,
                      shape |-> CommandOf[c].shape, entries |-> CommandOf[c].entries]
  BY CommandAssumption
<1>2. CASE CommandOf[c].policy = ""
  <2>1. cmdOf(c) = [CommandOf[c] EXCEPT !.policy = "STOP_ON_FAILURE"]
    BY <1>2 DEF cmdOf, normalize
  <2>2. cmdOf(c).policy = "STOP_ON_FAILURE"
    BY <1>1, <2>1
  <2>3. normalize(cmdOf(c)) = cmdOf(c)
    BY <2>2 DEF normalize
  <2>4. RequestDigest(CommandOf[c]) = RequestDigest(cmdOf(c))
    BY <2>3 DEF RequestDigest, cmdOf
  <2> QED
    BY <1>1, <1>2, <2>1, <2>2, <2>3, <2>4 DEF RequestDigest
<1>3. CASE CommandOf[c].policy # ""
  <2>1. cmdOf(c) = CommandOf[c]
    BY <1>3 DEF cmdOf, normalize
  <2>2. normalize(cmdOf(c)) = cmdOf(c)
    BY <1>3, <2>1 DEF normalize
  <2> QED
    BY <1>1, <1>3, <2>1, <2>2 DEF RequestDigest
<1> QED
  BY <1>2, <1>3

\* The fields of a normal form and of a digest.
LEMMA NormalFields ==
  ASSUME NEW c \in Calls
  PROVE  /\ cmdOf(c).command = CommandOf[c].command /\ cmdOf(c).policy # ""
         /\ RequestDigest(cmdOf(c)) =
              [command |-> None, instance |-> CommandOf[c].instance, task |-> CommandOf[c].task,
               environment |-> CommandOf[c].environment, policy |-> cmdOf(c).policy,
               size |-> CommandOf[c].size, shape |-> CommandOf[c].shape,
               entries |-> CommandOf[c].entries]
<1> DEFINE p == cmdOf(c).policy
           form == [command |-> CommandOf[c].command, instance |-> CommandOf[c].instance,
                    task |-> CommandOf[c].task, environment |-> CommandOf[c].environment,
                    policy |-> p, size |-> CommandOf[c].size,
                    shape |-> CommandOf[c].shape, entries |-> CommandOf[c].entries]
<1>1. cmdOf(c) = form /\ RequestDigest(cmdOf(c)) = [cmdOf(c) EXCEPT !.command = None]
  BY NormalForm
<1>2. cmdOf(c).policy # ""
  BY NormalForm
<1> HIDE DEF p
<1>3. form.command = CommandOf[c].command
  OBVIOUS
<1>4. [form EXCEPT !.command = None] =
        [command |-> None, instance |-> CommandOf[c].instance, task |-> CommandOf[c].task,
         environment |-> CommandOf[c].environment, policy |-> p,
         size |-> CommandOf[c].size, shape |-> CommandOf[c].shape,
         entries |-> CommandOf[c].entries]
  OBVIOUS
<1> HIDE DEF form
<1> QED
  BY <1>1, <1>2, <1>3, <1>4 DEF p

\* Requests with one digest agree on everything but the command identity.
LEMMA SameRequest ==
  ASSUME NEW c \in Calls, NEW d \in Calls,
         RequestDigest(cmdOf(c)) = RequestDigest(cmdOf(d))
  PROVE  /\ cmdOf(c).instance = cmdOf(d).instance /\ cmdOf(c).task = cmdOf(d).task
         /\ cmdOf(c).environment = cmdOf(d).environment
         /\ cmdOf(c).policy = cmdOf(d).policy /\ cmdOf(c).entries = cmdOf(d).entries
<1>1. [cmdOf(c) EXCEPT !.command = None] = [cmdOf(d) EXCEPT !.command = None]
  BY NormalForm
<1> QED
  BY <1>1, NormalForm

-----------------------------------------------------------------------------
(* Freezing.                                                               *)

\* An item that passes its checks carries the values that its command supplied, completed
\* by the defaults of the version of its root invocation.
LEMMA ItemIsChecked ==
  ASSUME NEW cmd, NEW res, NEW k \in Positions, ItemError(cmd, res, k) = None
  PROVE  LET v == res.roots[k].version
         IN /\ Items[k].id \in DOMAIN cmd.entries /\ k \in DOMAIN res.roots
            /\ DOMAIN Supplied(cmd, k) \subseteq Declared(Items[k].flow, v)
            /\ res.roots[k].values =
                 ResolveParameterValues(Items[k].flow, v, Supplied(cmd, k))
<1>1. Items[k].id \in DOMAIN cmd.entries /\ k \in DOMAIN res.roots
  BY DEF ItemError, None
<1>2. \E d \in Range(res.deps) : d.version = res.roots[k].version
  BY <1>1 DEF ItemError, None
<1> QED
  BY <1>1, <1>2 DEF ItemError, None

\* What the construction lets through is what the command asked for, whatever the
\* resolver returned for the items of the version.
LEMMA BuildIsSound ==
  ASSUME NEW cmd, NEW res, NEW pins,
         pins = [k \in Positions |-> resolvedWorkflowVersion(k, res)],
         DOMAIN cmd.entries = Ids,
         res.items \subseteq Positions,
         BuildError(cmd, res, pins) = None
  PROVE  Fits(cmd, Frozen(cmd, res, pins))
<1> DEFINE codes == [k \in Positions |->
                       IF k \in res.items THEN ItemError(cmd, res, k) ELSE None]
           last == <<DraftError(res, pins), SealError(res, pins)>>
<1>1. FirstError(codes) = None /\ FirstError(last) = None
      /\ Cardinality(DOMAIN cmd.entries) = Cardinality(res.items)
  BY DEF BuildError, None
<1>2. res.items = Positions
  BY <1>1, ItemsAreCounted, FS_Subset
<1>3. \A k \in Positions : ItemError(cmd, res, k) = None
  <2>1. DOMAIN codes \subseteq Nat
    BY ItemsAreCounted
  <2>2. \A k \in DOMAIN codes : codes[k] = None
    BY <1>1, <2>1, FirstErrorIsAnError
  <2> QED
    BY <1>2, <2>2
<1>4. SealError(res, pins) = None
  <2>1. DOMAIN last \subseteq Nat /\ 2 \in DOMAIN last /\ last[2] = SealError(res, pins)
    OBVIOUS
  <2> HIDE DEF last
  <2> QED
    BY <1>1, <2>1, FirstErrorIsAnError
<1>5. \A k \in Positions : res.roots[k].version = pins[k]
  BY <1>2, <1>4 DEF SealError, None
<1> DEFINE s == Frozen(cmd, res, pins)
<1>6. /\ s.instance = cmd.instance /\ s.task = cmd.task
      /\ s.environment = cmd.environment /\ s.policy = cmd.policy
      /\ DOMAIN s.entries = Positions
      /\ \A k \in Positions : /\ s.entries[k].version = pins[k]
                              /\ s.entries[k].values = res.roots[k].values
  BY <1>2 DEF Frozen
<1> HIDE DEF s
<1>7. ASSUME NEW k \in Positions
      PROVE  /\ Items[k].policy = "FIXED" => s.entries[k].version = Items[k].version
             /\ DOMAIN Supplied(cmd, k) \subseteq Declared(Items[k].flow, s.entries[k].version)
             /\ s.entries[k].values =
                  ResolveParameterValues(Items[k].flow, s.entries[k].version, Supplied(cmd, k))
  <2>1. Items[k].policy = "FIXED" => pins[k] = Items[k].version
    BY DEF resolvedWorkflowVersion
  <2> QED
    BY <1>3, <1>5, <1>6, <1>7, <2>1, ItemIsChecked
<1>8. ASSUME NEW k \in Positions, NEW j \in Positions, Items[j].policy = "LATEST",
             Items[k].policy = "LATEST", Items[j].flow = Items[k].flow
      PROVE  s.entries[j].version = s.entries[k].version
  <2>1. pins[j] = pins[k]
    BY <1>8 DEF resolvedWorkflowVersion
  <2> QED
    BY <1>6, <2>1
<1> QED
  BY <1>6, <1>7, <1>8 DEF Fits, s

\* Every resolution concerns items of the version.
LEMMA ResolutionsConcernItems ==
  ASSUME NEW cmd, NEW res \in Resolutions(cmd)
  PROVE  res.items \subseteq Positions
<1> DEFINE honest == Resolution(cmd, current)
<1>1. honest.items = Positions
  BY DEF Resolution
<1>2. honest = [task |-> honest.task, environment |-> honest.environment, size |-> honest.size,
                deps |-> honest.deps, items |-> honest.items, roots |-> honest.roots]
  BY DEF Resolution
<1>3. res = honest \/ \E d \in Defects : res = Spoiled(d, honest, cmd, current)
  BY DEF Resolutions
<1> HIDE DEF honest
<1>4. ASSUME NEW d \in Defects PROVE Spoiled(d, honest, cmd, current).items \subseteq Positions
  <2>1. d \in {"environment", "oversized", "root", "values", "provenance", "item",
               "torn", "tornFirst"}
    BY DefectAssumption
  <2>2. CASE d = "environment"
    BY <1>1, <1>2, <2>2 DEF Spoiled
  <2>3. CASE d = "oversized"
    BY <1>1, <1>2, <2>3 DEF Spoiled
  <2>4. CASE d = "root"
    BY <1>1, <1>2, <2>4 DEF Spoiled
  <2>5. CASE d = "values"
    BY <1>1, <1>2, <2>5 DEF Spoiled
  <2>6. CASE d = "provenance"
    BY <1>1, <1>2, <2>6 DEF Spoiled
  <2>7. CASE d = "item"
    BY <1>1, <1>2, <2>7 DEF Spoiled
  <2>8. CASE d \in {"torn", "tornFirst"}
    BY <1>1, <1>2, <2>8 DEF Spoiled
  <2> QED
    BY <2>1, <2>2, <2>3, <2>4, <2>5, <2>6, <2>7, <2>8
<1> QED
  BY <1>1, <1>3, <1>4

\* The construction ends in one of its codes.
LEMMA BuildErrorIsACode ==
  ASSUME NEW cmd, NEW res, NEW pins
  PROVE  BuildError(cmd, res, pins) \in
           {None, "contractViolation", "catalogUnresolvable", "unclassified",
            "parameterInvalid", "snapshotInvalid"}
<1> DEFINE codes == [k \in Positions |->
                       IF k \in res.items THEN ItemError(cmd, res, k) ELSE None]
           last == <<DraftError(res, pins), SealError(res, pins)>>
<1>1. FirstError(codes) \in {None, "catalogUnresolvable", "unclassified", "parameterInvalid"}
  <2>1. DOMAIN codes \subseteq Nat
    BY ItemsAreCounted
  <2>2. ASSUME NEW k \in DOMAIN codes
        PROVE  codes[k] \in {None, "catalogUnresolvable", "unclassified", "parameterInvalid"}
    BY DEF ItemError
  <2> QED
    BY <2>1, <2>2, FirstErrorIsAnError
<1>2. FirstError(last) \in {None, "catalogUnresolvable", "snapshotInvalid"}
  <2>1. DOMAIN last = {1, 2} /\ last[1] = DraftError(res, pins) /\ last[2] = SealError(res, pins)
    OBVIOUS
  <2>2. last[1] \in {None, "catalogUnresolvable"} /\ last[2] \in {None, "snapshotInvalid"}
    BY <2>1 DEF DraftError, SealError
  <2> HIDE DEF last
  <2> QED
    BY <2>1, <2>2, FirstErrorIsAnError
<1> QED
  BY <1>1, <1>2 DEF BuildError

\* An honest resolution of what can be resolved is never called faulty.
LEMMA HonestResolutionIsNotBlamed ==
  ASSUME NEW cmd, NEW view, CanResolve(cmd, view)
  PROVE  LET res == Resolution(cmd, view)
             pins == [k \in Positions |-> resolvedWorkflowVersion(k, res)]
         IN BuildError(cmd, res, pins) \notin Accusations
<1> DEFINE res == Resolution(cmd, view)
           pins == [k \in Positions |-> resolvedWorkflowVersion(k, res)]
           pinned == [k \in Positions |-> Pinned(k, view)]
           followed(f, v) == \E k \in Positions :
             Items[k].policy = "LATEST" /\ Items[k].flow = f /\ pinned[k] = v
           dep == [k \in Positions |->
             Dependency(Items[k].flow, pinned[k], followed(Items[k].flow, pinned[k]))]
           all == {dep[k] : k \in Positions}
<1>1. /\ res.size = "fits" /\ res.task = cmd.task /\ res.environment = cmd.environment
      /\ res.items = Positions /\ DOMAIN res.roots = Positions /\ res.deps = Dependencies(view)
      /\ \A k \in Positions :
           /\ res.roots[k].version = pinned[k]
           /\ res.roots[k].values =
                ResolveParameterValues(Items[k].flow, pinned[k], Supplied(cmd, k))
  BY DEF Resolution
<1>2. DOMAIN res.deps \subseteq Nat /\ Range(res.deps) = all
  <2>1. dep \in Surjection(Positions, all)
    BY DEF Surjection
  <2>2. IsFiniteSet(all)
    BY <2>1, ItemsAreCounted, FS_Surjection
  <2>3. Dependencies(view) = SetToSeq(all)
    BY DEF Dependencies
  <2> HIDE DEF all
  <2> QED
    BY <1>1, <2>2, <2>3, Listed
<1>3. \A k \in Positions : /\ dep[k].flow = Items[k].flow /\ dep[k].version = pinned[k]
                           /\ dep[k].latest <=> followed(Items[k].flow, pinned[k])
  BY DEF Dependency
<1>4. \A k \in Positions : /\ Items[k].policy = "FIXED" => pinned[k] = Items[k].version
                           /\ Items[k].policy = "LATEST" => pinned[k] = view[Items[k].flow]
  BY DEF Pinned
<1>5. \A k \in Positions : Items[k].policy \in {"FIXED", "LATEST"}
  BY ItemsAssumption DEF Positions
<1> HIDE DEF res, pinned, dep
<1>6. ASSUME NEW d \in DOMAIN res.deps PROVE \E k \in Positions : res.deps[d] = dep[k]
  <2>1. res.deps[d] \in Range(res.deps)
    BY DEF Range
  <2> QED
    BY <1>2, <2>1
<1>7. ASSUME NEW k \in Positions PROVE \E d \in DOMAIN res.deps : res.deps[d] = dep[k]
  <2>1. dep[k] \in Range(res.deps)
    BY <1>2
  <2> QED
    BY <2>1 DEF Range
\* Every dependency that followed a pointer has the version that the pointer had.
<1>8. ASSUME NEW k \in Positions, Items[k].policy = "LATEST"
      PROVE  FollowedVersion(Items[k].flow, res) = pinned[k]
  <2> DEFINE following == {d \in DOMAIN res.deps :
                             res.deps[d].flow = Items[k].flow /\ res.deps[d].latest}
             first == CHOOSE d \in following : \A e \in following : d <= e
  <2>1. \E d \in DOMAIN res.deps : d \in following
    <3>1. dep[k].flow = Items[k].flow /\ dep[k].latest
      BY <1>3, <1>8
    <3> QED
      BY <1>7, <3>1
  <2>2. ASSUME NEW d \in following PROVE res.deps[d].version = pinned[k]
    <3>1. PICK j \in Positions : res.deps[d] = dep[j]
      BY <1>6
    <3>2. Items[j].flow = Items[k].flow /\ followed(Items[j].flow, pinned[j])
          /\ res.deps[d].version = pinned[j]
      BY <1>3, <3>1
    <3>3. PICK i \in Positions : Items[i].policy = "LATEST" /\ Items[i].flow = Items[k].flow
                                 /\ pinned[i] = pinned[j]
      BY <3>2
    <3> QED
      BY <1>4, <1>8, <3>2, <3>3
  <2>3. following \in SUBSET Nat /\ following # {}
    BY <1>2, <2>1
  <2>4. \E d \in following : \A e \in following : d <= e
    BY <2>3, Least
  <2>5. first \in following
    BY <2>4
  <2>6. FollowedVersion(Items[k].flow, res) = res.deps[first].version
    BY <2>3 DEF FollowedVersion
  <2> QED
    BY <2>2, <2>5, <2>6
<1>9. \A k \in Positions : pins[k] = pinned[k]
  BY <1>4, <1>5, <1>8 DEF resolvedWorkflowVersion
<1>10. ASSUME NEW k \in Positions PROVE ItemError(cmd, res, k) \notin Accusations
  <2>1. Items[k].id \in DOMAIN cmd.entries /\ k \in DOMAIN res.roots
    BY <1>1 DEF CanResolve
  <2>2. \E d \in Range(res.deps) : d.version = res.roots[k].version
    BY <1>1, <1>3, <1>7 DEF Range
  <2>3. Resolvable(Items[k].flow, pinned[k], Supplied(cmd, k))
    BY DEF CanResolve, pinned
  <2>4. DOMAIN Supplied(cmd, k) \subseteq Declared(Items[k].flow, pinned[k])
    BY <2>3 DEF Resolvable
  <2> QED
    BY <1>1, <2>1, <2>2, <2>3, <2>4 DEF ItemError, Accusations, None
<1> DEFINE codes == [k \in Positions |->
                       IF k \in res.items THEN ItemError(cmd, res, k) ELSE None]
           last == <<DraftError(res, pins), SealError(res, pins)>>
<1>11. FirstError(codes) \notin Accusations
  <2>1. DOMAIN codes \subseteq Nat
    BY ItemsAreCounted
  <2>2. \A k \in DOMAIN codes : codes[k] \notin Accusations
    BY <1>1, <1>10
  <2> QED
    BY <2>1, <2>2, FirstErrorIsAnError DEF Accusations, None
<1>12. FirstError(last) \notin Accusations
  <2>1. DOMAIN last = {1, 2} /\ last[1] = DraftError(res, pins) /\ last[2] = SealError(res, pins)
    OBVIOUS
  <2>2. SealError(res, pins) = None
    BY <1>1, <1>9 DEF SealError
  <2>3. last[1] \notin Accusations /\ last[2] \notin Accusations
    BY <2>1, <2>2 DEF DraftError, Accusations, None
  <2> HIDE DEF last
  <2> QED
    BY <2>1, <2>3, FirstErrorIsAnError DEF Accusations, None
<1>13. BuildError(cmd, res, pins) \notin Accusations
  BY <1>1, <1>11, <1>12 DEF BuildError, Accusations
<1> QED
  BY <1>13 DEF res

-----------------------------------------------------------------------------
(* What is stored answers every call that asks for it.                     *)

\* An honest record of a request is a valid answer to every spelling of that request.
LEMMA StoredIsValid ==
  ASSUME NEW c \in Calls, NEW d \in Calls, NEW rec, StoredFor(d, rec),
         rec.request = RequestDigest(cmdOf(c))
  PROVE  validateStoredCreateInstanceResult(rec, cmdOf(c))
<1> DEFINE s == rec.snapshot
<1>1. /\ rec.digest = s /\ rec.run = cmdOf(d).instance /\ rec.entries = DOMAIN s.entries
      /\ rec.request = RequestDigest(cmdOf(d))
  <2>1. rec = Stored(cmdOf(d), s)
    BY DEF StoredFor
  <2> DEFINE t == s
  <2> HIDE DEF s
  <2>2. rec = [command |-> cmdOf(d).command, request |-> RequestDigest(cmdOf(d)),
               run |-> cmdOf(d).instance, snapshot |-> s, digest |-> s,
               entries |-> DOMAIN s.entries]
    BY <2>1 DEF Stored
  <2> QED
    BY <2>2
<1>2. /\ cmdOf(c).instance = cmdOf(d).instance /\ cmdOf(c).task = cmdOf(d).task
      /\ cmdOf(c).environment = cmdOf(d).environment
      /\ cmdOf(c).policy = cmdOf(d).policy /\ cmdOf(c).entries = cmdOf(d).entries
  BY <1>1, SameRequest
<1>3. Fits(cmdOf(d), s)
  BY DEF StoredFor
<1>4. ASSUME NEW id \in DOMAIN cmdOf(c).entries
      PROVE  \E k \in DOMAIN s.entries :
               /\ Items[k].id = id
               /\ \A n \in DOMAIN cmdOf(c).entries[id] :
                    n \in DOMAIN s.entries[k].values
                    /\ s.entries[k].values[n] = cmdOf(c).entries[id][n]
  <2>1. PICK k \in Positions : Items[k].id = id
    BY <1>2, <1>3 DEF Fits, Ids
  <2>2. /\ DOMAIN Supplied(cmdOf(d), k) \subseteq Declared(Items[k].flow, s.entries[k].version)
        /\ s.entries[k].values =
             ResolveParameterValues(Items[k].flow, s.entries[k].version, Supplied(cmdOf(d), k))
    BY <1>3 DEF Fits
  <2>3. Supplied(cmdOf(d), k) = cmdOf(c).entries[id]
    BY <1>2, <2>1 DEF Supplied
  <2>4. \A n \in DOMAIN cmdOf(c).entries[id] :
          n \in DOMAIN s.entries[k].values
          /\ s.entries[k].values[n] = cmdOf(c).entries[id][n]
    BY <2>2, <2>3 DEF ResolveParameterValues
  <2>5. k \in DOMAIN s.entries
    BY <1>3 DEF Fits
  <2> QED
    BY <2>1, <2>4, <2>5
<1>5. /\ s.instance = cmdOf(c).instance /\ s.task = cmdOf(c).task
      /\ s.environment = cmdOf(c).environment /\ s.policy = cmdOf(c).policy
  BY <1>2, <1>3 DEF Fits
<1> QED
  BY <1>1, <1>2, <1>4, <1>5 DEF validateStoredCreateInstanceResult

\* What fits a command holds its values: it is a record for it under its identities.
LEMMA FitsAreRecords ==
  ASSUME NEW cmd, NEW rec, Fits(cmd, rec.snapshot),
         rec.command = cmd.command, rec.request = RequestDigest(cmd), rec.run = cmd.instance,
         rec.digest = rec.snapshot, rec.entries = DOMAIN rec.snapshot.entries
  PROVE  RecordFor(rec, cmd)
<1> DEFINE s == rec.snapshot
<1>1. ASSUME NEW id \in DOMAIN cmd.entries
      PROVE  \E k \in DOMAIN s.entries :
               /\ Items[k].id = id
               /\ \A n \in DOMAIN cmd.entries[id] :
                    n \in DOMAIN s.entries[k].values
                    /\ s.entries[k].values[n] = cmd.entries[id][n]
  <2>1. PICK k \in Positions : Items[k].id = id
    BY DEF Fits, Ids
  <2>2. /\ DOMAIN Supplied(cmd, k) \subseteq Declared(Items[k].flow, s.entries[k].version)
        /\ s.entries[k].values =
             ResolveParameterValues(Items[k].flow, s.entries[k].version, Supplied(cmd, k))
    BY DEF Fits
  <2>3. Supplied(cmd, k) = cmd.entries[id]
    BY <2>1 DEF Supplied
  <2>4. \A n \in DOMAIN cmd.entries[id] :
          n \in DOMAIN s.entries[k].values
          /\ s.entries[k].values[n] = cmd.entries[id][n]
    BY <2>2, <2>3 DEF ResolveParameterValues
  <2> QED
    BY <2>1, <2>4 DEF Fits
<1>2. s.instance = cmd.instance /\ s.task = cmd.task /\ s.environment = cmd.environment
      /\ s.policy = cmd.policy
  BY DEF Fits
<1> QED
  BY <1>1, <1>2 DEF RecordFor

\* The honest outcome of an insert passes: what was submitted, or what came first.
LEMMA HonestOutcomeIsValid ==
  ASSUME NEW c \in Calls, NEW snapshot, snapshot.instance = cmdOf(c).instance
  PROVE  validateInsertCreateInstanceOutcome(
           [status |-> "APPLIED", rec |-> Stored(cmdOf(c), snapshot)], cmdOf(c), snapshot)
<1> DEFINE rec == Stored(cmdOf(c), snapshot)
<1>1. /\ rec.command = cmdOf(c).command /\ rec.request = RequestDigest(cmdOf(c))
      /\ rec.run = cmdOf(c).instance /\ rec.snapshot = snapshot /\ rec.digest = snapshot
      /\ rec.entries = DOMAIN snapshot.entries
  BY DEF Stored
<1> HIDE DEF rec
<1> QED
  BY <1>1 DEF validateInsertCreateInstanceOutcome, rec

\* A call that is refused for a conflict asked for something else, not for another spelling.
Conflicts(c) ==
  /\ cmdOf(c).command \in DOMAIN commands
  /\ commands[cmdOf(c).command].request # RequestDigest(cmdOf(c))

LEMMA ConflictIsNotSpelling ==
  ASSUME Records, \A c \in Calls : call[c].answer = "commandConflict" => Conflicts(c)
  PROVE  SpellingIsNoConflict
<1> SUFFICES ASSUME NEW c \in Calls, call[c].answer = "commandConflict"
    PROVE  LET stored == commands[CommandOf[c].command].request
           IN /\ CommandOf[c].command \in DOMAIN commands
              /\ [stored EXCEPT !.policy = None, !.command = None] =
                   [CommandOf[c] EXCEPT !.policy = None, !.command = None] =>
                   /\ stored.policy # CommandOf[c].policy
                   /\ ~({stored.policy, CommandOf[c].policy} \subseteq {"", "STOP_ON_FAILURE"})
  BY DEF SpellingIsNoConflict
<1> DEFINE key == CommandOf[c].command
           stored == commands[key].request
<1>1. cmdOf(c).command = key
  BY NormalFields
<1>2. key \in DOMAIN commands /\ stored # RequestDigest(cmdOf(c))
  BY <1>1 DEF Conflicts
<1>3. PICK d \in Calls : StoredFor(d, commands[key])
  BY <1>2 DEF Records
<1>4. stored = RequestDigest(cmdOf(d))
  BY <1>3 DEF StoredFor, Stored
<1>5. stored = [command |-> None, instance |-> CommandOf[d].instance, task |-> CommandOf[d].task,
                environment |-> CommandOf[d].environment, policy |-> cmdOf(d).policy,
                size |-> CommandOf[d].size, shape |-> CommandOf[d].shape,
                entries |-> CommandOf[d].entries]
  BY <1>4, NormalFields
<1> HIDE DEF stored
<1>6. stored.policy # "" /\ stored.policy = cmdOf(d).policy /\ stored.command = None
  <2>1. cmdOf(d).policy # ""
    BY NormalFields
  <2> QED
    BY <1>5, <2>1
<1>7. ASSUME [stored EXCEPT !.policy = None, !.command = None] =
               [CommandOf[c] EXCEPT !.policy = None, !.command = None]
      PROVE  stored.policy # cmdOf(c).policy
  <2>1. stored = [command |-> None, instance |-> stored.instance, task |-> stored.task,
                  environment |-> stored.environment, policy |-> stored.policy,
                  size |-> stored.size, shape |-> stored.shape, entries |-> stored.entries]
    BY <1>5
  <2>2. CommandOf[c] =
          [command |-> CommandOf[c].command, instance |-> CommandOf[c].instance,
           task |-> CommandOf[c].task, environment |-> CommandOf[c].environment,
           policy |-> CommandOf[c].policy, size |-> CommandOf[c].size,
           shape |-> CommandOf[c].shape, entries |-> CommandOf[c].entries]
    BY CommandAssumption
  <2>3. /\ stored.instance = CommandOf[c].instance /\ stored.task = CommandOf[c].task
        /\ stored.environment = CommandOf[c].environment /\ stored.size = CommandOf[c].size
        /\ stored.shape = CommandOf[c].shape /\ stored.entries = CommandOf[c].entries
    BY <1>7, <2>1, <2>2
  <2>4. RequestDigest(cmdOf(c)) =
          [command |-> None, instance |-> CommandOf[c].instance, task |-> CommandOf[c].task,
           environment |-> CommandOf[c].environment, policy |-> cmdOf(c).policy,
           size |-> CommandOf[c].size, shape |-> CommandOf[c].shape,
           entries |-> CommandOf[c].entries]
    BY NormalFields
  <2> QED
    BY <1>2, <2>1, <2>3, <2>4 DEF stored
<1>8. cmdOf(c).policy = IF CommandOf[c].policy = "" THEN "STOP_ON_FAILURE" ELSE CommandOf[c].policy
  BY NormalForm
<1> QED
  BY <1>2, <1>6, <1>7, <1>8 DEF stored

-----------------------------------------------------------------------------
(* The inductive invariant holds at first.                                 *)

LEMMA InitEstablishes == Init => IInv
<1> SUFFICES ASSUME Init PROVE IInv
  OBVIOUS
<1>1. \A c \in Calls : call[c] = Idle
  BY DEF Init
<1>2. Idle = [pc |-> "idle", dirty |-> FALSE, result |-> NoResult, answer |-> None]
      /\ NoResult = [command |-> None, request |-> <<>>, snapshot |-> <<>>, record |-> <<>>,
                      applied |-> FALSE]
  BY DEF Idle, NoResult
<1>3. \A c \in Calls : call[c].pc = "idle" /\ call[c].answer = None
  BY <1>1, <1>2
<1>4. DOMAIN commands = {}
  BY DEF Init
<1>5. TypeOK
  <2>1. current \in [Flows -> 1..MaxVersions]
    BY BoundAssumption DEF Init
  <2>2. retries \in 0..MaxRetries /\ faults \in 0..MaxFaults
    BY BoundAssumption DEF Init
  <2>3. queue \in Seq(DOMAIN runs)
    BY DEF Init
  <2> QED
    BY <1>3, <1>4, <2>1, <2>2, <2>3 DEF TypeOK, Init
<1>6. Records
  BY <1>4 DEF Records
<1>7. AnswersHold
  BY DEF AnswersHold, Init
<1>11. UntoldAreFew
  <2>1. Untold = {}
    BY <1>4 DEF Untold
  <2> QED
    BY <2>1, FS_EmptySet DEF UntoldAreFew, Init
<1>8. call = [c \in Calls |-> call[c]]
  BY DEF Init
<1>9. ASSUME NEW c \in Calls PROVE Formed(c)
  BY <1>1, <1>2 DEF Formed
<1>10. ASSUME NEW c \in Calls PROVE CallHolds(c)
  BY <1>3 DEF CallHolds, Accusations, None
<1> QED
  BY <1>5, <1>6, <1>7, <1>8, <1>9, <1>10, <1>11 DEF IInv

-----------------------------------------------------------------------------
(* What every step keeps.                                                  *)

\* One more untold command costs one more failure.
LEMMA FewMore ==
  ASSUME NEW S, NEW T, NEW x, NEW m \in Nat, IsFiniteSet(S), Cardinality(S) <= m,
         T \subseteq S \cup {x}
  PROVE  IsFiniteSet(T) /\ Cardinality(T) <= m + 1
<1>1. IsFiniteSet(S \cup {x})
      /\ (Cardinality(S \cup {x}) = Cardinality(S) \/ Cardinality(S \cup {x}) = Cardinality(S) + 1)
  BY FS_AddElement
<1>2. IsFiniteSet(T) /\ Cardinality(T) <= Cardinality(S \cup {x})
  BY <1>1, FS_Subset
<1>3. Cardinality(S) \in Nat /\ Cardinality(T) \in Nat
  BY <1>2, FS_CardinalityType
<1> QED
  BY <1>1, <1>2, <1>3

\* No more untold ones cost nothing.
LEMMA FewerUntold ==
  ASSUME UntoldAreFew, Untold' \subseteq Untold, faults \in Nat, faults' \in Nat, faults' >= faults
  PROVE  UntoldAreFew'
<1>1. IsFiniteSet(Untold') /\ Cardinality(Untold') <= Cardinality(Untold)
  BY FS_Subset DEF UntoldAreFew
<1>2. Cardinality(Untold) \in Nat /\ Cardinality(Untold') \in Nat /\ Cardinality(Untold) <= faults
  BY <1>1, FS_CardinalityType DEF UntoldAreFew
<1>3. Cardinality(Untold') <= faults'
  BY <1>1, <1>2
<1> QED
  BY <1>1, <1>3 DEF UntoldAreFew

\* Nothing that is stored is changed.
Grows ==
  /\ faithful' = faithful
  /\ \A key \in DOMAIN commands : key \in DOMAIN commands' /\ commands'[key] = commands[key]

\* One call moves.
Moves(c) ==
  /\ call' = [d \in Calls |-> call'[d]]
  /\ \A d \in Calls \ {c} : call'[d] = call[d]

\* Its new place and answer are known ones.
Lands(c) ==
  /\ call[c].pc \in {"idle", "callback", "insert", "commit", "done"}
  /\ call[c].answer \in Codes \union {None, "ok"}
  /\ Formed(c)
  /\ CallHolds(c)

\* What holds of a call does not depend on what others store or are answered.
LEMMA OthersHold ==
  ASSUME IInv, Grows, NEW d \in Calls, call'[d] = call[d]
  PROVE  Formed(d)' /\ CallHolds(d)'
<1>1. Formed(d) /\ CallHolds(d) /\ Records
  BY DEF IInv
<1>2. Formed(d)'
  BY <1>1 DEF Formed
<1>3. ASSUME ResultHolds(d) PROVE ResultHolds(d)'
  <2>1. IsStored(call[d].result) => IsStored(call[d].result)'
    <3>1. call'[d].result = call[d].result
      OBVIOUS
    <3> QED
      BY <3>1 DEF IsStored, Grows
  <2> QED
    BY <1>3, <2>1 DEF ResultHolds, Grows
<1>4. CallHolds(d)'
  BY <1>1, <1>3 DEF CallHolds, Grows
<1> QED
  BY <1>2, <1>4

LEMMA CallsHold ==
  ASSUME IInv, Grows, NEW c \in Calls, Moves(c), Lands(c)'
  PROVE  /\ (call = [d \in Calls |-> call[d]])'
         /\ \A d \in Calls : (Formed(d) /\ CallHolds(d))'
         /\ (\A d \in Calls :
               /\ call[d].pc \in {"idle", "callback", "insert", "commit", "done"}
               /\ call[d].answer \in Codes \union {None, "ok"})'
<1>1. \A d \in Calls : d # c => call'[d] = call[d]
  BY DEF Moves
<1>2. \A d \in Calls :
        /\ call[d].pc \in {"idle", "callback", "insert", "commit", "done"}
        /\ call[d].answer \in Codes \union {None, "ok"}
  BY DEF IInv, TypeOK
<1>3. ASSUME NEW d \in Calls, d # c PROVE Formed(d)' /\ CallHolds(d)'
  BY <1>1, <1>3, OthersHold
<1> QED
  BY <1>1, <1>2, <1>3 DEF Moves, Lands

\* A step of a call that stores nothing and answers no success.
LEMMA QuietStep ==
  ASSUME IInv, NEW c \in Calls, Moves(c), Lands(c)',
         UNCHANGED <<faithful, current, db, answers>>,
         retries' \in 0..MaxRetries, faults' \in faults..MaxFaults
  PROVE  IInv'
<1>1. Grows
  BY DEF Grows, db
<1>2. /\ (call = [d \in Calls |-> call[d]])'
      /\ \A d \in Calls : (Formed(d) /\ CallHolds(d))'
      /\ (\A d \in Calls :
            /\ call[d].pc \in {"idle", "callback", "insert", "commit", "done"}
            /\ call[d].answer \in Codes \union {None, "ok"})'
  BY <1>1, CallsHold
<1>3. Records'
  <2>1. Records
    BY DEF IInv
  <2> QED
    BY <2>1 DEF Records, db
<1>4. AnswersHold'
  <2>1. AnswersHold
    BY DEF IInv
  <2>2. answers' = answers /\ faithful' = faithful /\ commands' = commands
    BY DEF db
  <2>3. \A a : IsStored(a)' <=> IsStored(a)
    BY <2>2 DEF IsStored
  <2> QED
    BY <2>1, <2>2 DEF AnswersHold, AnswerHolds, IsStored
<1>5. TypeOK'
  <2>1. TypeOK /\ faults' \in 0..MaxFaults
    BY BoundAssumption DEF IInv, TypeOK
  <2> QED
    BY <1>2, <2>1 DEF TypeOK, db
<1>6. UntoldAreFew'
  <2>1. Untold' = Untold
    BY DEF Untold, db
  <2>2. UntoldAreFew /\ faults \in Nat /\ faults' \in Nat /\ faults' >= faults
    BY BoundAssumption DEF IInv, TypeOK
  <2> QED
    BY <2>1, <2>2, FewerUntold
<1> QED
  BY <1>2, <1>3, <1>4, <1>5, <1>6 DEF IInv

\* A call that ends with an error.
LEMMA RefusalStep ==
  ASSUME IInv, NEW c \in Calls, NEW code \in Codes, Answered(c, code),
         faithful => code \notin Accusations,
         faithful /\ code = "commandConflict" => Conflicts(c),
         UNCHANGED <<faithful, current, db, answers>>,
         retries' \in 0..MaxRetries, faults' \in faults..MaxFaults
  PROVE  IInv'
<1>1. call = [d \in Calls |-> call[d]]
  BY DEF IInv
<1>2. Moves(c)
  BY <1>1 DEF Moves, Answered
<1>3. call'[c] = [pc |-> "done", dirty |-> FALSE, result |-> NoResult, answer |-> code]
  BY <1>1 DEF Answered, Idle
<1>4. Formed(c)'
  BY <1>3 DEF Formed, NoResult
<1>5. call'[c].pc = "done" /\ call'[c].answer = code
  BY <1>3
<1>6. CallHolds(c)'
  BY <1>5 DEF CallHolds, Conflicts, db
<1>7. Lands(c)'
  BY <1>4, <1>5, <1>6 DEF Lands
<1> QED
  BY <1>2, <1>7, QuietStep

\* A call that goes on with what it holds.
LEMMA StepsOn ==
  ASSUME IInv, NEW c \in Calls, NEW p \in {"callback", "insert", "commit"},
         NEW r, NEW b, r = [command |-> r.command, request |-> r.request,
                            snapshot |-> r.snapshot, record |-> r.record,
                            applied |-> r.applied],
         call' = [call EXCEPT ![c] = [call[c] EXCEPT !.pc = p, !.result = r, !.dirty = b]],
         WellAsked(c), p # "callback" => ResultHolds(c)',
         UNCHANGED <<faithful, current, db, answers>>,
         retries' \in 0..MaxRetries, faults' \in faults..MaxFaults
  PROVE  IInv'
<1>1. call = [d \in Calls |-> call[d]] /\ Formed(c) /\ CallHolds(c)
      /\ call[c].answer \in Codes \union {None, "ok"}
  BY DEF IInv, TypeOK
<1>2. Moves(c)
  BY <1>1 DEF Moves
<1>3. call'[c] = [pc |-> p, dirty |-> b, result |-> r, answer |-> call[c].answer]
  BY <1>1 DEF Formed
<1>4. call'[c].pc = p /\ call'[c].answer = call[c].answer /\ call'[c].result = r
      /\ call'[c].dirty = b
  BY <1>3
<1>5. Formed(c)'
  BY <1>3, <1>4 DEF Formed
<1>6. CallHolds(c)'
  BY <1>1, <1>4 DEF CallHolds, WellAsked, db
<1>7. Lands(c)'
  BY <1>1, <1>4, <1>5, <1>6 DEF Lands
<1> QED
  BY <1>2, <1>7, QuietStep

-----------------------------------------------------------------------------
(* The steps of a call.                                                    *)

LEMMA StartKeeps ==
  ASSUME IInv, NEW c \in Calls, Start(c)
  PROVE  IInv'
<1>1. retries \in 0..MaxRetries /\ faults \in faults..MaxFaults /\ Formed(c)
      /\ call = [d \in Calls |-> call[d]]
  BY DEF IInv, TypeOK
<1>2. CASE WellAsked(c)
  <2> DEFINE r == call[c].result
             b == call[c].dirty
  <2>1. call' = [call EXCEPT ![c].pc = "callback"]
    BY <1>2 DEF Start, WellAsked, preflight, validate
  <2>2. call' = [call EXCEPT ![c] = [call[c] EXCEPT !.pc = "callback", !.result = r, !.dirty = b]]
    BY <1>1, <2>1 DEF Formed
  <2>3. r = [command |-> r.command, request |-> r.request,
             snapshot |-> r.snapshot, record |-> r.record, applied |-> r.applied]
    BY <1>1 DEF Formed
  <2>4. UNCHANGED <<faithful, current, db, answers, retries, faults>>
    BY DEF Start
  <2> HIDE DEF r, b
  <2> QED
    BY <1>1, <1>2, <2>2, <2>3, <2>4, StepsOn
<1>3. CASE ~WellAsked(c)
  <2>1. Answered(c, "commandInvalid")
    BY <1>3 DEF Start, WellAsked, preflight, validate
  <2> QED
    BY <1>1, <2>1, RefusalStep DEF Start, Codes, Accusations
<1> QED
  BY <1>2, <1>3

\* The truth about a record is the record, where the store keeps its promises.
LEMMA TruthsAreTrue ==
  ASSUME faithful, NEW rec, NEW told \in Truths(rec)
  PROVE  told = rec
BY DEF Truths

LEMMA CallbackFoundKeeps ==
  ASSUME IInv, NEW c \in Calls, CallbackFound(c)
  PROVE  IInv'
<1> DEFINE cmd == cmdOf(c)
<1>1. retries \in 0..MaxRetries /\ faults \in faults..MaxFaults /\ Records
      /\ call[c].pc = "callback" /\ WellAsked(c) /\ cmd.command \in DOMAIN commands
  BY DEF IInv, TypeOK, CallHolds, CallbackFound
<1>2. PICK rec \in Truths(commands[cmd.command]) :
        IF rec.request # RequestDigest(cmd) THEN Answered(c, "commandConflict")
        ELSE IF rec.command # cmd.command \/ ~validateStoredCreateInstanceResult(rec, cmd)
          THEN Answered(c, "contractViolation")
        ELSE Holds(c, resultFromStored(cmd, rec, FALSE), FALSE)
  BY DEF CallbackFound
<1>3. UNCHANGED <<faithful, current, db, answers, retries, faults>>
  BY DEF CallbackFound
<1>4. faithful => rec = commands[cmd.command]
  BY TruthsAreTrue
<1>5. CASE rec.request # RequestDigest(cmd)
  <2>1. Answered(c, "commandConflict")
    BY <1>2, <1>5
  <2>2. faithful => Conflicts(c)
    BY <1>1, <1>4, <1>5 DEF Conflicts
  <2> QED
    BY <1>1, <1>3, <2>1, <2>2, RefusalStep DEF Codes, Accusations
<1>6. CASE rec.request = RequestDigest(cmd)
           /\ (rec.command # cmd.command \/ ~validateStoredCreateInstanceResult(rec, cmd))
  <2>1. Answered(c, "contractViolation")
    BY <1>2, <1>6
  <2>2. ~faithful
    <3>1. PICK d \in Calls : StoredFor(d, commands[cmd.command])
      BY <1>1 DEF Records
    <3>2. commands[cmd.command].command = cmd.command
      BY <1>1 DEF Records
    <3> QED
      BY <1>4, <1>6, <3>1, <3>2, StoredIsValid
  <2> QED
    BY <1>1, <1>3, <2>1, <2>2, RefusalStep DEF Codes
<1>7. CASE rec.request = RequestDigest(cmd) /\ rec.command = cmd.command
           /\ validateStoredCreateInstanceResult(rec, cmd)
  <2> DEFINE r == resultFromStored(cmd, rec, FALSE)
  <2>1. Holds(c, r, FALSE)
    BY <1>2, <1>7
  <2>2. r = [command |-> cmd.command, request |-> RequestDigest(cmd),
             snapshot |-> rec.snapshot, record |-> rec, applied |-> FALSE]
    BY DEF resultFromStored
  <2> HIDE DEF r
  <2>3. r.command = cmd.command /\ r.request = RequestDigest(cmd)
        /\ r.snapshot = rec.snapshot /\ r.record = rec /\ r.applied = FALSE
    BY <2>2
  <2>4. r = [command |-> r.command, request |-> r.request,
             snapshot |-> r.snapshot, record |-> r.record, applied |-> r.applied]
    BY <2>2
  <2>5. call = [d \in Calls |-> call[d]] /\ Formed(c)
    BY DEF IInv
  <2>6. call' = [call EXCEPT ![c] = [call[c] EXCEPT !.pc = "commit", !.result = r, !.dirty = FALSE]]
    BY <2>1, <2>5 DEF Holds, Formed
  <2>7. call'[c].pc = "commit" /\ call'[c].result = r /\ call'[c].dirty = FALSE
    BY <2>5, <2>6 DEF Formed
  <2>8. faithful => IsStored(r)
    BY <1>1, <1>4, <1>7, <2>3 DEF IsStored
  <2>9. RecordFor(rec, cmd)
    BY <1>7 DEF validateStoredCreateInstanceResult, RecordFor
  <2>10. IsStored(call[c].result)' <=> IsStored(r)
    BY <1>3, <2>7 DEF IsStored, db
  <2>11. ResultHolds(c)'
    BY <1>3, <2>3, <2>7, <2>8, <2>9, <2>10 DEF ResultHolds
  <2> QED
    BY <1>1, <1>3, <2>4, <2>6, <2>11, StepsOn
<1> QED
  BY <1>5, <1>6, <1>7

LEMMA CallbackNewKeeps ==
  ASSUME IInv, NEW c \in Calls, CallbackNew(c)
  PROVE  IInv'
<1> DEFINE cmd == cmdOf(c)
           pins(res) == [k \in Positions |-> resolvedWorkflowVersion(k, res)]
           error(res) == BuildError(cmd, res, pins(res))
           built(res) == resultFromStored(cmd, Stored(cmd, Frozen(cmd, res, pins(res))), TRUE)
<1>1. retries \in 0..MaxRetries /\ faults \in faults..MaxFaults
      /\ call[c].pc = "callback" /\ WellAsked(c)
      /\ call = [d \in Calls |-> call[d]] /\ Formed(c)
  <2>1. retries \in 0..MaxRetries /\ faults \in 0..MaxFaults
    BY DEF IInv, TypeOK
  <2>2. call[c].pc = "callback"
    BY DEF CallbackNew
  <2>3. WellAsked(c) /\ call = [d \in Calls |-> call[d]] /\ Formed(c)
    BY <2>2 DEF IInv, CallHolds
  <2> QED
    BY <2>1, <2>2, <2>3, BoundAssumption
<1>2. UNCHANGED <<faithful, current, db, answers, retries, faults>>
  BY DEF CallbackNew
<1>3. CASE ~CanResolve(cmd, current)
  <2>1. Answered(c, "catalogUnresolvable")
    BY <1>3 DEF CallbackNew
  <2> QED
    BY <1>1, <1>2, <2>1, RefusalStep DEF Codes, Accusations
<1>4. CASE CanResolve(cmd, current)
  <2>1. PICK res \in Resolutions(cmd) :
          IF error(res) # None THEN Answered(c, error(res))
          ELSE call' = [call EXCEPT ![c].pc = "insert", ![c].result = built(res)]
    BY <1>4 DEF CallbackNew
  <2>2. CASE error(res) # None
    <3>1. error(res) \in Codes /\ error(res) # "commandConflict"
      <4> HIDE DEF pins
      <4> QED
        BY <2>2, BuildErrorIsACode DEF Codes
    <3>2. ASSUME faithful PROVE error(res) \notin Accusations
      <4>1. res = Resolution(cmd, current)
        BY <3>2 DEF Resolutions
      <4> QED
        BY <1>4, <4>1, HonestResolutionIsNotBlamed
    <3>3. Answered(c, error(res))
      BY <2>1, <2>2
    <3> HIDE DEF error
    <3> QED
      BY <1>1, <1>2, <3>1, <3>2, <3>3, RefusalStep
  <2>3. CASE error(res) = None
    <3> DEFINE s == Frozen(cmd, res, pins(res))
               r == built(res)
               b == call[c].dirty
    <3>1. Fits(cmd, s)
      <4>1. res.items \subseteq Positions
        BY ResolutionsConcernItems
      <4>2. DOMAIN cmd.entries = Ids
        BY <1>4 DEF CanResolve, Ids
      <4> QED
        BY <2>3, <4>1, <4>2, BuildIsSound
    <3> HIDE DEF s
    <3>2. r = [command |-> cmd.command, request |-> RequestDigest(cmd),
               snapshot |-> s, record |-> Stored(cmd, s), applied |-> TRUE]
      BY DEF resultFromStored, Stored, s
    <3>3. call' = [call EXCEPT ![c].pc = "insert", ![c].result = r]
      BY <2>1, <2>3
    <3> HIDE DEF r
    <3>4. r.command = cmd.command /\ r.request = RequestDigest(cmd) /\ r.snapshot = s
      BY <3>2
    <3>5. r = [command |-> r.command, request |-> r.request,
               snapshot |-> r.snapshot, record |-> r.record, applied |-> r.applied]
      BY <3>2
    <3>6. call' = [call EXCEPT ![c] = [call[c] EXCEPT !.pc = "insert", !.result = r, !.dirty = b]]
      BY <1>1, <3>3 DEF Formed
    <3>7. call'[c].pc = "insert" /\ call'[c].result = r
      BY <1>1, <3>6 DEF Formed
    <3>8. ResultHolds(c)'
      BY <3>1, <3>4, <3>7 DEF ResultHolds
    <3> HIDE DEF b
    <3> QED
      BY <1>1, <1>2, <3>5, <3>6, <3>8, StepsOn
  <2> QED
    BY <2>2, <2>3
<1> QED
  BY <1>3, <1>4

LEMMA InsertKeeps ==
  ASSUME IInv, NEW c \in Calls, InsertCreateInstance(c)
  PROVE  IInv'
<1> DEFINE cmd == cmdOf(c)
           snapshot == call[c].result.snapshot
           replayed == cmd.command \in DOMAIN commands
           known == IF replayed THEN commands[cmd.command] ELSE Stored(cmd, snapshot)
           out(rec) == [status |-> IF replayed THEN "REPLAYED" ELSE "APPLIED", rec |-> rec]
<1>1. retries \in 0..MaxRetries /\ faults \in faults..MaxFaults /\ Records
      /\ call[c].pc = "insert" /\ WellAsked(c) /\ ResultHolds(c)
      /\ call = [d \in Calls |-> call[d]] /\ Formed(c)
  BY DEF IInv, TypeOK, CallHolds, InsertCreateInstance
<1>2. UNCHANGED <<faithful, current, db, answers, retries, faults>>
  BY DEF InsertCreateInstance
<1>3. Fits(cmd, snapshot) /\ snapshot.instance = cmd.instance /\ snapshot.policy = cmd.policy
  BY <1>1 DEF ResultHolds, Fits
<1>4. CASE known.request # RequestDigest(cmd)
  <2>1. Answered(c, "commandConflict")
    BY <1>4 DEF InsertCreateInstance
  <2>2. Conflicts(c)
    BY <1>4 DEF Conflicts, Stored
  <2> QED
    BY <1>1, <1>2, <2>1, <2>2, RefusalStep DEF Codes, Accusations
<1>5. CASE known.request = RequestDigest(cmd)
           /\ ~replayed /\ cmd.instance \in DOMAIN runs /\ runs[cmd.instance] # snapshot
  <2>1. Answered(c, "snapshotConflict")
    BY <1>5 DEF InsertCreateInstance
  <2> QED
    BY <1>1, <1>2, <2>1, RefusalStep DEF Codes, Accusations
<1>6. CASE known.request = RequestDigest(cmd)
           /\ ~(~replayed /\ cmd.instance \in DOMAIN runs /\ runs[cmd.instance] # snapshot)
  <2>1. PICK rec \in Truths(known) :
          IF validateInsertCreateInstanceOutcome(out(rec), cmd, snapshot)
            THEN Holds(c, resultFromStored(cmd, rec, ~replayed), ~replayed)
            ELSE Answered(c, "contractViolation")
    BY <1>6 DEF InsertCreateInstance
  <2>2. faithful => rec = known
    BY TruthsAreTrue
  <2>3. faithful => validateInsertCreateInstanceOutcome(out(rec), cmd, snapshot)
    <3>1. CASE replayed
      <4>1. PICK d \in Calls : StoredFor(d, commands[cmd.command])
        BY <1>1, <3>1 DEF Records
      <4>2. validateStoredCreateInstanceResult(known, cmd)
        BY <1>6, <3>1, <4>1, StoredIsValid
      <4>3. known.command = cmd.command
        BY <1>1, <3>1 DEF Records
      <4>4. /\ known.run = cmd.instance /\ known.snapshot.instance = known.run
            /\ known.entries = DOMAIN known.snapshot.entries
        BY <4>2 DEF validateStoredCreateInstanceResult
      <4> HIDE DEF known
      <4> QED
        BY <1>6, <2>2, <3>1, <4>2, <4>3, <4>4 DEF validateInsertCreateInstanceOutcome
    <3>2. CASE ~replayed
      BY <1>3, <2>2, <3>2, HonestOutcomeIsValid
    <3> QED
      BY <3>1, <3>2
  <2>4. CASE ~validateInsertCreateInstanceOutcome(out(rec), cmd, snapshot)
    <3>1. Answered(c, "contractViolation") /\ ~faithful
      BY <2>1, <2>3, <2>4
    <3> QED
      BY <1>1, <1>2, <3>1, RefusalStep DEF Codes
  <2>5. CASE validateInsertCreateInstanceOutcome(out(rec), cmd, snapshot)
    <3> DEFINE r == resultFromStored(cmd, rec, ~replayed)
               b == ~replayed
    <3>1. call' = [call EXCEPT ![c].pc = "commit", ![c].result = r, ![c].dirty = b]
      BY <2>1, <2>5 DEF Holds
    <3>2. r = [command |-> cmd.command, request |-> RequestDigest(cmd),
               snapshot |-> rec.snapshot, record |-> rec, applied |-> b]
      BY DEF resultFromStored
    <3> HIDE DEF r
    <3>3. r.command = cmd.command /\ r.request = RequestDigest(cmd)
          /\ r.snapshot = rec.snapshot /\ r.record = rec /\ r.applied = b
      BY <3>2
    <3>4. r = [command |-> r.command, request |-> r.request,
               snapshot |-> r.snapshot, record |-> r.record, applied |-> r.applied]
      BY <3>2
    <3>5. call' = [call EXCEPT ![c] = [call[c] EXCEPT !.pc = "commit", !.result = r, !.dirty = b]]
      BY <1>1, <3>1 DEF Formed
    <3>6. call'[c].pc = "commit" /\ call'[c].result = r /\ call'[c].dirty = b
      BY <1>1, <3>5 DEF Formed
    <3>7. CASE replayed
      <4>1. /\ validateStoredCreateInstanceResult(rec, cmd)
            /\ rec.command = cmd.command /\ rec.request = RequestDigest(cmd)
        BY <2>5, <3>7 DEF validateInsertCreateInstanceOutcome
      <4>2. RecordFor(rec, cmd)
        BY <4>1 DEF validateStoredCreateInstanceResult, RecordFor
      <4>3. faithful => IsStored(r)
        <5>1. faithful => rec.snapshot = known.snapshot /\ known.request = RequestDigest(cmd)
              /\ known = commands[cmd.command]
          BY <1>6, <2>2, <3>7
        <5> QED
          BY <3>3, <3>7, <5>1 DEF IsStored
      <4>4. IsStored(call[c].result)' <=> IsStored(r)
        BY <1>2, <3>6 DEF IsStored, db
      <4>5. ResultHolds(c)'
        BY <1>2, <3>3, <3>6, <3>7, <4>2, <4>3, <4>4 DEF ResultHolds
      <4> HIDE DEF b
      <4> QED
        BY <1>1, <1>2, <3>4, <3>5, <4>5, StepsOn
    <3>8. CASE ~replayed
      <4>1. /\ rec.snapshot = snapshot /\ rec.digest = snapshot
            /\ rec.command = cmd.command /\ rec.request = RequestDigest(cmd)
            /\ rec.run = cmd.instance /\ rec.entries = DOMAIN rec.snapshot.entries
        BY <2>5, <3>8 DEF validateInsertCreateInstanceOutcome
      <4>3. RecordFor(rec, cmd)
        BY <1>3, <4>1, FitsAreRecords
      <4>2. ResultHolds(c)'
        BY <1>3, <3>3, <3>6, <3>8, <4>1, <4>3 DEF ResultHolds
      <4> HIDE DEF b
      <4> QED
        BY <1>1, <1>2, <3>4, <3>5, <4>2, StepsOn
    <3> QED
      BY <3>7, <3>8
  <2> QED
    BY <2>4, <2>5
<1> QED
  BY <1>4, <1>5, <1>6

LEMMA CallbackFailsKeeps ==
  ASSUME IInv, NEW c \in Calls, CallbackFails(c)
  PROVE  IInv'
<1>1. retries \in 0..MaxRetries /\ faults \in 0..MaxFaults
  BY BoundAssumption DEF IInv, TypeOK
<1>2. faults' \in faults..MaxFaults
  BY <1>1, BoundAssumption DEF CallbackFails
<1> QED
  BY <1>1, <1>2, RefusalStep DEF CallbackFails, Codes, Accusations

\* A write stores the command of the call that made it, beside everything stored before.
LEMMA PublishStores ==
  ASSUME IInv, NEW c \in Calls, WellAsked(c), ResultHolds(c),
         Fits(cmdOf(c), call[c].result.snapshot),
         ~Overtaken(c), Publish(c), faithful' = faithful
  PROVE  /\ Grows /\ Records' /\ queue' \in Seq(DOMAIN runs')
         /\ cmdOf(c).command \notin DOMAIN commands
         /\ cmdOf(c).command \in DOMAIN commands'
         /\ commands'[cmdOf(c).command].snapshot = call[c].result.snapshot
         /\ commands'[cmdOf(c).command].request = RequestDigest(cmdOf(c))
         /\ DOMAIN commands' = DOMAIN commands \cup {cmdOf(c).command}
<1> DEFINE key == cmdOf(c).command
           s == call[c].result.snapshot
           rec == Stored(cmdOf(c), s)
<1>1. key \notin DOMAIN commands
  BY DEF Overtaken
<1>2. rec.command = key /\ rec.run = cmdOf(c).instance /\ rec.snapshot = s
      /\ rec.request = RequestDigest(cmdOf(c))
  BY DEF Stored
<1>3. /\ commands' = Added(commands, rec.command, rec)
      /\ runs' = Added(runs, rec.run, rec.snapshot)
      /\ queue' = IF rec.run \in DOMAIN runs THEN queue ELSE Append(queue, rec.run)
  BY DEF Publish
<1> HIDE DEF rec
<1>4. /\ DOMAIN commands' = DOMAIN commands \cup {key} /\ commands'[key] = rec
      /\ \A k \in DOMAIN commands : commands'[k] = commands[k]
      /\ DOMAIN runs' = DOMAIN runs \cup {rec.run}
  BY <1>1, <1>2, <1>3 DEF Added
<1>5. Records /\ queue \in Seq(DOMAIN runs)
  BY DEF IInv, TypeOK
<1>6. queue' \in Seq(DOMAIN runs')
  <2>1. queue \in Seq(DOMAIN runs') /\ rec.run \in DOMAIN runs'
    BY <1>4, <1>5
  <2>2. Append(queue, rec.run) \in Seq(DOMAIN runs')
    BY <2>1
  <2> QED
    BY <1>3, <2>1, <2>2
<1>7. StoredFor(c, rec)
  BY <1>2 DEF StoredFor, rec
<1>8. Records'
  <2>1. ASSUME NEW k \in DOMAIN commands
        PROVE  /\ commands'[k].command = k /\ commands'[k].run \in DOMAIN runs'
               /\ \E d \in Calls : StoredFor(d, commands'[k])
    BY <1>4, <1>5 DEF Records
  <2>2. /\ commands'[key].command = key /\ commands'[key].run \in DOMAIN runs'
        /\ \E d \in Calls : StoredFor(d, commands'[key])
    BY <1>2, <1>4, <1>7
  <2> HIDE DEF key
  <2> QED
    BY <1>4, <2>1, <2>2 DEF Records
<1>9. Grows
  BY <1>4 DEF Grows
<1> QED
  BY <1>1, <1>2, <1>4, <1>6, <1>8, <1>9

\* The answers given so far stay true.
LEMMA AnswersStay ==
  ASSUME IInv, Grows, answers' = answers
  PROVE  AnswersHold'
<1>1. AnswersHold
  BY DEF IInv
<1>2. ASSUME NEW a \in answers, IsStored(a)
      PROVE  /\ a.command \in DOMAIN commands' /\ commands'[a.command].snapshot = a.snapshot
             /\ commands'[a.command].request = a.request
  BY <1>2 DEF IsStored, Grows
<1> QED
  BY <1>1, <1>2 DEF AnswersHold, AnswerHolds, IsStored, Grows

\* A success of a call whose result is stored, and was stored by nobody else if it says so.
LEMMA SuccessHolds ==
  ASSUME IInv, Grows, NEW c \in Calls, ResultHolds(c), call[c].pc = "commit", Succeeds(c),
         faithful \/ call[c].result.applied =>
           /\ cmdOf(c).command \in DOMAIN commands'
           /\ commands'[cmdOf(c).command].snapshot = call[c].result.snapshot
           /\ commands'[cmdOf(c).command].request = RequestDigest(cmdOf(c)),
         faithful /\ call[c].result.applied => cmdOf(c).command \notin DOMAIN commands
  PROVE  /\ AnswersHold' /\ Moves(c) /\ Lands(c)'
         /\ answers \subseteq answers'
         /\ call[c].result.applied => \E a \in answers' : a.command = cmdOf(c).command /\ a.applied
<1> DEFINE r == call[c].result
           cmd == cmdOf(c)
           a == [command |-> r.command, request |-> r.request, snapshot |-> r.snapshot,
                 record |-> r.record, applied |-> r.applied, by |-> <<c, retries>>]
<1>1. /\ r.command = cmd.command /\ r.request = RequestDigest(cmd)
      /\ RecordFor(r.record, cmd) /\ r.snapshot = r.record.snapshot
  BY DEF ResultHolds
<1>3. a.command = r.command /\ a.request = r.request /\ a.snapshot = r.snapshot
      /\ a.record = r.record /\ a.applied = r.applied /\ a.by[1] = c
  OBVIOUS
<1>4. answers' = answers \union {a} /\ faithful' = faithful
  BY DEF Succeeds, Grows
<1>5. call = [d \in Calls |-> call[d]] /\ AnswersHold
  BY DEF IInv
<1> HIDE DEF a
<1>6. ASSUME NEW b, b = a PROVE AnswerHolds(b)'
  <2>1. RecordFor(b.record, cmdOf(b.by[1])) /\ b.snapshot = b.record.snapshot
    BY <1>1, <1>3, <1>6
  <2>2. b.applied \/ faithful => /\ b.command \in DOMAIN commands'
                                /\ commands'[b.command].snapshot = b.snapshot
                                /\ commands'[b.command].request = b.request
    BY <1>1, <1>3, <1>6
  <2> QED
    BY <1>4, <2>1, <2>2 DEF AnswerHolds, IsStored
<1>7. ASSUME NEW b, AnswerHolds(b) PROVE AnswerHolds(b)'
  BY <1>4, <1>7 DEF AnswerHolds, IsStored, Grows
<1>8. \A b \in answers : AnswerHolds(b)
  BY <1>5 DEF AnswersHold
<1>9. ASSUME faithful, NEW b \in answers, b.command = a.command, a.applied
      PROVE  FALSE
  BY <1>1, <1>3, <1>8, <1>9 DEF AnswerHolds, IsStored
<1>10. ASSUME faithful, NEW x \in answers', NEW y \in answers',
              x.command = y.command, x.applied, y.applied
       PROVE  x = y
  <2>1. CASE x \in answers /\ y \in answers
    BY <1>5, <1>10, <2>1 DEF AnswersHold
  <2>2. CASE x = a \/ y = a
    BY <1>4, <1>9, <1>10, <2>2
  <2> QED
    BY <1>4, <2>1, <2>2
<1>11. AnswersHold'
  <2>1. ASSUME NEW x \in answers' PROVE AnswerHolds(x)'
    <3>1. CASE x \in answers
      BY <1>7, <1>8, <3>1
    <3>2. CASE x = a
      BY <1>6, <3>2
    <3> QED
      BY <1>4, <3>1, <3>2
  <2> QED
    BY <1>4, <1>10, <2>1 DEF AnswersHold
<1>2. /\ answers \subseteq answers'
      /\ r.applied => \E x \in answers' : x.command = cmd.command /\ x.applied
  BY <1>1, <1>3, <1>4
<1>12. call'[c] = [pc |-> "done", dirty |-> FALSE, result |-> NoResult, answer |-> "ok"]
       /\ Moves(c)
  BY <1>5 DEF Succeeds, Moves, Idle
<1>13. call'[c].pc = "done" /\ call'[c].answer = "ok" /\ call'[c].result = NoResult
  BY <1>12
<1>14. Formed(c)'
  BY <1>12, <1>13 DEF Formed, NoResult
<1>15. CallHolds(c)'
  BY <1>13 DEF CallHolds, Accusations
<1> QED
  BY <1>2, <1>11, <1>12, <1>13, <1>14, <1>15 DEF Lands

\* The invariant from its parts, after a step that may have stored and answered.
LEMMA StoringStep ==
  ASSUME IInv, NEW c \in Calls, Grows, Moves(c), Lands(c)', AnswersHold', Records', UntoldAreFew',
         queue' \in Seq(DOMAIN runs'), current' = current,
         retries' \in 0..MaxRetries, faults' \in 0..MaxFaults
  PROVE  IInv'
<1>1. /\ (call = [d \in Calls |-> call[d]])'
      /\ \A d \in Calls : (Formed(d) /\ CallHolds(d))'
      /\ (\A d \in Calls :
            /\ call[d].pc \in {"idle", "callback", "insert", "commit", "done"}
            /\ call[d].answer \in Codes \union {None, "ok"})'
  BY CallsHold
<1>2. faithful' \in BOOLEAN /\ current' \in [Flows -> 1..MaxVersions]
  BY DEF IInv, TypeOK, Grows
<1>3. \A k \in DOMAIN commands' : commands'[k].command = k /\ commands'[k].run \in DOMAIN runs'
  BY DEF Records
<1>4. TypeOK'
  BY <1>1, <1>2, <1>3 DEF TypeOK
<1> QED
  BY <1>1, <1>4 DEF IInv

LEMMA CommitKeeps ==
  ASSUME IInv, NEW c \in Calls, Commit(c)
  PROVE  IInv'
<1> DEFINE cmd == cmdOf(c)
           r == call[c].result
<1>1. retries \in 0..MaxRetries /\ faults \in 0..MaxFaults /\ Records
      /\ queue \in Seq(DOMAIN runs)
      /\ call[c].pc = "commit" /\ WellAsked(c) /\ ResultHolds(c)
      /\ call = [d \in Calls |-> call[d]] /\ Formed(c)
  BY DEF IInv, TypeOK, CallHolds, Commit
<1>2. UNCHANGED <<faithful, current, retries, faults>> /\ faults \in Nat /\ faults' \in Nat
      /\ faults' >= faults /\ faults' \in faults..MaxFaults
  BY <1>1, BoundAssumption DEF Commit
\* There was nothing to write: the call found what is stored.
<1>3. ASSUME ~call[c].dirty, Succeeds(c), UNCHANGED db
      PROVE  IInv'
  <2>1. Grows
    BY <1>2, <1>3 DEF Grows, db
  <2>2. ~r.applied /\ (faithful => IsStored(r)) /\ r.command = cmd.command
        /\ r.request = RequestDigest(cmd)
    BY <1>1, <1>3 DEF ResultHolds
  <2>3. faithful => /\ cmd.command \in DOMAIN commands'
                    /\ commands'[cmd.command].snapshot = r.snapshot
                    /\ commands'[cmd.command].request = RequestDigest(cmd)
    BY <1>3, <2>2 DEF IsStored, db
  <2>4. AnswersHold' /\ Moves(c) /\ Lands(c)' /\ answers \subseteq answers'
    BY <1>1, <1>3, <2>1, <2>2, <2>3, SuccessHolds
  <2>5. Records' /\ queue' \in Seq(DOMAIN runs')
    BY <1>1, <1>3 DEF Records, db
  <2>6. UntoldAreFew'
    <3>1. Untold' \subseteq Untold
      BY <1>3, <2>4 DEF Untold, db
    <3> QED
      BY <1>1, <1>2, <3>1, FewerUntold DEF IInv
  <2> QED
    BY <1>1, <1>2, <2>1, <2>4, <2>5, <2>6, StoringStep
\* Someone was faster: the callback runs again, or the call is refused.
<1>4. ASSUME call[c].dirty, Overtaken(c), UNCHANGED <<db, answers>>,
             IF cmd.command \in DOMAIN commands
               THEN IF commands[cmd.command].request = RequestDigest(cmd)
                      THEN call' = [call EXCEPT ![c].pc = "callback"]
                      ELSE Answered(c, "commandConflict")
               ELSE Answered(c, "snapshotConflict")
      PROVE  IInv'
  <2>1. UNCHANGED <<faithful, current, db, answers, retries, faults>>
    BY <1>2, <1>4
  <2>2. CASE call' = [call EXCEPT ![c].pc = "callback"]
    <3> DEFINE b == call[c].dirty
    <3>1. r = [command |-> r.command, request |-> r.request,
               snapshot |-> r.snapshot, record |-> r.record, applied |-> r.applied]
      BY <1>1 DEF Formed
    <3>2. call' = [call EXCEPT ![c] =
                     [call[c] EXCEPT !.pc = "callback", !.result = r, !.dirty = b]]
      BY <1>1, <2>2 DEF Formed
    <3> HIDE DEF r, b
    <3> QED
      BY <1>1, <1>2, <2>1, <3>1, <3>2, StepsOn
  <2>3. CASE Answered(c, "commandConflict") /\ Conflicts(c)
    BY <1>1, <2>1, <2>3, RefusalStep DEF Codes, Accusations
  <2>4. CASE Answered(c, "snapshotConflict")
    BY <1>1, <2>1, <2>4, RefusalStep DEF Codes, Accusations
  <2> QED
    BY <1>4, <2>2, <2>3, <2>4 DEF Conflicts
\* The write.
<1>5. ASSUME call[c].dirty, ~Overtaken(c), Publish(c), Succeeds(c)
      PROVE  IInv'
  <2>1. Fits(cmd, r.snapshot) /\ r.applied
    BY <1>1, <1>5 DEF ResultHolds
  <2>2. /\ Grows /\ Records' /\ queue' \in Seq(DOMAIN runs')
        /\ cmd.command \notin DOMAIN commands /\ cmd.command \in DOMAIN commands'
        /\ commands'[cmd.command].snapshot = r.snapshot
        /\ commands'[cmd.command].request = RequestDigest(cmd)
        /\ DOMAIN commands' = DOMAIN commands \cup {cmd.command}
    BY <1>1, <1>2, <1>5, <2>1, PublishStores
  <2>3. /\ AnswersHold' /\ Moves(c) /\ Lands(c)' /\ answers \subseteq answers'
        /\ \E a \in answers' : a.command = cmd.command /\ a.applied
    BY <1>1, <1>5, <2>1, <2>2, SuccessHolds
  <2>4. UntoldAreFew'
    <3>1. Untold' \subseteq Untold
      BY <2>2, <2>3 DEF Untold
    <3> QED
      BY <1>1, <1>2, <3>1, FewerUntold DEF IInv
  <2> QED
    BY <1>1, <1>2, <2>2, <2>3, <2>4, StoringStep
<1> QED
  BY <1>3, <1>4, <1>5 DEF Commit

\* A failed commit may have written: the record that it left is one that fits.
LEMMA CommitFailsKeeps ==
  ASSUME IInv, NEW c \in Calls, CommitFails(c)
  PROVE  IInv'
<1>1. retries \in 0..MaxRetries /\ faults \in 0..MaxFaults /\ Records
      /\ queue \in Seq(DOMAIN runs)
      /\ call[c].pc = "commit" /\ WellAsked(c) /\ ResultHolds(c) /\ CallHolds(c)
      /\ call = [d \in Calls |-> call[d]] /\ Formed(c)
      /\ call[c].answer \in Codes \union {None, "ok"}
  BY DEF IInv, TypeOK, CallHolds, CommitFails
<1>2. faults' \in 0..MaxFaults /\ UNCHANGED <<faithful, current, retries, answers>>
  BY <1>1, BoundAssumption DEF CommitFails
<1>3. /\ Grows /\ Records' /\ queue' \in Seq(DOMAIN runs')
      /\ DOMAIN commands' \subseteq DOMAIN commands \cup {cmdOf(c).command}
  <2>1. CASE UNCHANGED db
    BY <1>1, <1>2, <2>1 DEF Grows, Records, db
  <2>2. CASE call[c].dirty /\ ~Overtaken(c) /\ Publish(c)
    <3>1. Fits(cmdOf(c), call[c].result.snapshot)
      BY <1>1, <2>2 DEF ResultHolds
    <3> QED
      BY <1>1, <1>2, <2>2, <3>1, PublishStores
  <2> QED
    BY <2>1, <2>2 DEF CommitFails
<1>4. AnswersHold'
  BY <1>2, <1>3, AnswersStay
<1>6. UntoldAreFew'
  <2>1. Untold' \subseteq Untold \cup {cmdOf(c).command}
    BY <1>2, <1>3 DEF Untold
  <2>2. UntoldAreFew /\ faults \in Nat /\ faults' = faults + 1
    BY <1>1 DEF IInv, CommitFails
  <2>3. IsFiniteSet(Untold') /\ Cardinality(Untold') <= faults + 1
    BY <2>1, <2>2, FewMore DEF UntoldAreFew
  <2> QED
    BY <2>2, <2>3 DEF UntoldAreFew
<1>5. Moves(c) /\ Lands(c)'
  <2>1. CASE call' = [call EXCEPT ![c].pc = "callback"]
    <3>1. Moves(c) /\ call'[c].pc = "callback" /\ call'[c].answer = call[c].answer
          /\ call'[c].result = call[c].result
          /\ call'[c] = [pc |-> "callback", dirty |-> call'[c].dirty,
                         result |-> call[c].result, answer |-> call[c].answer]
      BY <1>1, <2>1 DEF Moves, Formed
    <3>2. Formed(c)'
      BY <1>1, <3>1 DEF Formed
    <3>3. CallHolds(c)'
      BY <1>1, <1>3, <3>1 DEF CallHolds, WellAsked, Grows
    <3> QED
      BY <1>1, <3>1, <3>2, <3>3 DEF Lands
  <2>2. CASE Answered(c, "retryable")
    <3>1. Moves(c) /\ call'[c] = [pc |-> "done", dirty |-> FALSE, result |-> NoResult,
                                  answer |-> "retryable"]
      BY <1>1, <2>2 DEF Answered, Moves, Idle
    <3>2. call'[c].pc = "done" /\ call'[c].answer = "retryable" /\ call'[c].result = NoResult
      BY <3>1
    <3>3. Formed(c)'
      BY <3>1, <3>2 DEF Formed, NoResult
    <3>4. CallHolds(c)'
      BY <3>2 DEF CallHolds, Accusations
    <3> QED
      BY <3>1, <3>2, <3>3, <3>4 DEF Lands, Codes
  <2> QED
    BY <2>1, <2>2 DEF CommitFails
<1> QED
  BY <1>1, <1>2, <1>3, <1>4, <1>5, <1>6, StoringStep

LEMMA RetryKeeps ==
  ASSUME IInv, NEW c \in Calls, Retry(c)
  PROVE  IInv'
<1>1. call = [d \in Calls |-> call[d]] /\ retries \in 0..MaxRetries /\ faults \in faults..MaxFaults
  BY BoundAssumption DEF IInv, TypeOK
<1>2. UNCHANGED <<faithful, current, db, answers, faults>> /\ retries' \in 0..MaxRetries
  BY <1>1, BoundAssumption DEF Retry
<1>3. Moves(c) /\ call'[c] = [pc |-> "idle", dirty |-> FALSE, result |-> NoResult, answer |-> None]
  BY <1>1 DEF Retry, Moves, Idle
<1>4. call'[c].pc = "idle" /\ call'[c].answer = None /\ call'[c].result = NoResult
  BY <1>3
<1>5. Formed(c)'
  BY <1>3, <1>4 DEF Formed, NoResult
<1>6. CallHolds(c)'
  BY <1>4 DEF CallHolds, Accusations, None
<1>7. Lands(c)'
  BY <1>4, <1>5, <1>6 DEF Lands
<1> QED
  BY <1>1, <1>2, <1>3, <1>7, QuietStep

\* What is not about the catalog does not depend on its moves.
LEMMA CatalogMoves ==
  ASSUME IInv, UNCHANGED <<faithful, db, call, retries, faults, answers>>,
         current' \in [Flows -> 1..MaxVersions]
  PROVE  IInv'
<1>1. Grows
  BY DEF Grows, db
<1>2. \A d \in Calls : Formed(d)' /\ CallHolds(d)'
  BY <1>1, OthersHold
<1>3. AnswersHold'
  BY <1>1, AnswersStay
<1>4. Records'
  <2>1. Records
    BY DEF IInv
  <2> QED
    BY <2>1 DEF Records, db
<1>5. TypeOK'
  BY DEF IInv, TypeOK, db
<1>6. (call = [d \in Calls |-> call[d]])'
  BY DEF IInv
<1>7. UntoldAreFew'
  <2>1. Untold' = Untold
    BY DEF Untold, db
  <2> QED
    BY <2>1 DEF IInv, UntoldAreFew
<1> QED
  BY <1>2, <1>3, <1>4, <1>5, <1>6, <1>7 DEF IInv

LEMMA PublishVersionKeeps ==
  ASSUME IInv, NEW f \in Flows, PublishVersion(f)
  PROVE  IInv'
<1>1. current \in [Flows -> 1..MaxVersions]
  BY DEF IInv, TypeOK
<1>2. current' \in [Flows -> 1..MaxVersions]
  BY <1>1, BoundAssumption DEF PublishVersion
<1> QED
  BY <1>2, CatalogMoves DEF PublishVersion

LEMMA NextKeeps == IInv /\ [Next]_vars => IInv'
<1> SUFFICES ASSUME IInv, [Next]_vars PROVE IInv'
  OBVIOUS
<1>1. CASE Next
  <2>1. ASSUME NEW c \in Calls, CallStep(c) PROVE IInv'
    BY <2>1, StartKeeps, CallbackFoundKeeps, CallbackNewKeeps, InsertKeeps, CommitKeeps
       DEF CallStep
  <2>2. ASSUME NEW c \in Calls, CallbackFails(c) \/ CommitFails(c) \/ Retry(c) PROVE IInv'
    BY <2>2, CallbackFailsKeeps, CommitFailsKeeps, RetryKeeps
  <2> QED
    BY <1>1, <2>1, <2>2, PublishVersionKeeps DEF Next
<1>2. CASE UNCHANGED vars
  <2>1. current \in [Flows -> 1..MaxVersions]
    BY DEF IInv, TypeOK
  <2>2. UNCHANGED <<faithful, db, call, retries, faults, answers>> /\ current' = current
    BY <1>2 DEF vars, db
  <2> QED
    BY <2>1, <2>2, CatalogMoves
<1> QED
  BY <1>1, <1>2

THEOREM Invariance == Spec => []IInv
BY InitEstablishes, NextKeeps, PTL DEF Spec

-----------------------------------------------------------------------------
(* The results.                                                            *)

\* However often and in whatever spelling a command is repeated, wherever its replies are
\* lost and however the catalog moves, its callers share one instance, at most one is told
\* that it created it, and no honest store or resolver is accused
\* (create_instance_service.go).
THEOREM RetriesShareTheorem == Spec => []RetriesShareOneInstance
<1>1. IInv => RetriesShareOneInstance
  <2> SUFFICES ASSUME IInv PROVE RetriesShareOneInstance
    OBVIOUS
  <2>1. TypeOK /\ Records /\ AnswersHold /\ \A c \in Calls : CallHolds(c)
    BY DEF IInv
  <2>2. ASSUME faithful PROVE AnswerIsWhatIsStored
    BY <2>1, <2>2 DEF AnswersHold, AnswerHolds, IsStored, AnswerIsWhatIsStored
  <2>3. ASSUME faithful PROVE RetriesAgree
    BY <2>1, <2>3 DEF AnswersHold, AnswerHolds, IsStored, RetriesAgree
  <2>4. ASSUME faithful PROVE SpellingIsNoConflict
    BY <2>1, <2>4, ConflictIsNotSpelling DEF CallHolds, Conflicts
  <2>5. ASSUME faithful PROVE HonestStoreIsNeverBlamed
    BY <2>1, <2>5 DEF CallHolds, Accusations, HonestStoreIsNeverBlamed
  <2> QED
    BY <2>1, <2>2, <2>3, <2>4, <2>5 DEF RetriesShareOneInstance
<1> QED
  BY <1>1, Invariance, PTL

\* Whatever a resolver gets wrong and whatever a store answers, what is stored is what its
\* command asked for, a success is told of a record for the caller's command alone, the one
\* who is told of a creation holds what is stored, and every stored command has such a one,
\* but for as many as there were failures: a refusal stores nothing
\* (create_instance_builder.go, create_instance_service.go).
THEOREM ContainmentTheorem == Spec => []DefectsAreContained
<1>1. IInv => DefectsAreContained
  <2> SUFFICES ASSUME IInv PROVE DefectsAreContained
    OBVIOUS
  <2>1. Records /\ AnswersHold /\ UntoldAreFew
    BY DEF IInv
  <2>2. LiesAreCaught
    BY <2>1 DEF AnswersHold, AnswerHolds, IsStored, LiesAreCaught
  <2>3. ASSUME NEW key \in DOMAIN commands, NEW c \in Calls, StoredFor(c, commands[key])
        PROVE  /\ commands[key].request = RequestDigest(CommandOf[c])
               /\ commands[key].command = CommandOf[c].command
               /\ commands[key].request.environment = cmdOf(c).environment
               /\ commands[key].request.policy = cmdOf(c).policy
               /\ commands[key].request.entries = cmdOf(c).entries
    <3>1. commands[key].request = RequestDigest(cmdOf(c))
          /\ commands[key].command = cmdOf(c).command
      BY <2>3 DEF StoredFor, Stored
    <3>2. RequestDigest(CommandOf[c]) = RequestDigest(cmdOf(c))
          /\ cmdOf(c).command = CommandOf[c].command
      BY NormalForm, NormalFields
    <3>3. RequestDigest(cmdOf(c)).environment = cmdOf(c).environment
          /\ RequestDigest(cmdOf(c)).policy = cmdOf(c).policy
          /\ RequestDigest(cmdOf(c)).entries = cmdOf(c).entries
      BY NormalForm
    <3> QED
      BY <3>1, <3>2, <3>3
  <2>4. FrozenAsAsked
    <3> SUFFICES ASSUME NEW key \in DOMAIN commands
        PROVE  LET rec == commands[key]
                   entries == rec.snapshot.entries
               IN /\ DOMAIN entries = Positions
                  /\ rec.snapshot.environment = rec.request.environment
                  /\ rec.snapshot.policy = rec.request.policy
                  /\ \A k \in Positions :
                       /\ Items[k].policy = "FIXED" => entries[k].version = Items[k].version
                       /\ entries[k].values =
                            ResolveParameterValues(Items[k].flow, entries[k].version,
                                                   rec.request.entries[Items[k].id])
                       /\ \A j \in Positions :
                            /\ Items[j].policy = "LATEST" /\ Items[k].policy = "LATEST"
                            /\ Items[j].flow = Items[k].flow
                            => entries[j].version = entries[k].version
      BY DEF FrozenAsAsked
    <3>1. PICK c \in Calls : StoredFor(c, commands[key])
      BY <2>1 DEF Records
    <3>2. Fits(cmdOf(c), commands[key].snapshot)
      BY <3>1 DEF StoredFor
    <3>3. \A k \in Positions :
            Supplied(cmdOf(c), k) = commands[key].request.entries[Items[k].id]
      BY <2>3, <3>1 DEF Supplied
    <3> QED
      BY <2>3, <3>1, <3>2, <3>3 DEF Fits
  <2>5. RefusalStoresNothing
    <3> SUFFICES ASSUME NEW key \in DOMAIN commands
        PROVE  \E c \in Calls :
                 /\ CommandOf[c].command = key
                 /\ RequestDigest(CommandOf[c]) = commands[key].request
                 /\ CommandOf[c].size = "fits" /\ CommandOf[c].shape = "wellformed"
      BY <2>1 DEF RefusalStoresNothing, UntoldAreFew
    <3>1. PICK c \in Calls : StoredFor(c, commands[key])
      BY <2>1 DEF Records
    <3>2. commands[key].command = key
      BY <2>1 DEF Records
    <3> QED
      BY <2>3, <3>1, <3>2 DEF StoredFor, WellAsked
  <2> QED
    BY <2>2, <2>4, <2>5 DEF DefectsAreContained
<1> QED
  BY <1>1, Invariance, PTL
=============================================================================
