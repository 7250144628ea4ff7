--------------------------- MODULE InstanceCreation ---------------------------
(***************************************************************************)
(* Creating an instance (application/scheduling/create_instance_*.go,      *)
(* plan_mapper.go).  A call checks its command, and inside a transaction   *)
(* of the host either replays the result stored under its command identity *)
(* or resolves the task version against the catalog, freezes it into a     *)
(* snapshot, and inserts the queued instance.  The transaction may run its *)
(* callback several times, fail, or lose its reply; the catalog moves.     *)
(* The store is the host's: it is modelled from the comments of its        *)
(* interface and from the store of create_instance_transaction_test.go.    *)
(***************************************************************************)
EXTENDS Naturals, Sequences, SequencesExt, FiniteSets

CONSTANTS
  Calls,        \* concurrent calls of CreateInstance
  CommandOf,    \* call -> its command; a repeated command is a retry by another caller
  Items,        \* the items of the test-task version, by position:
                \*   [id, flow, policy, version] with policy "FIXED" or "LATEST"
  Flows,
  MaxVersions,  \* bound: versions a flow fragment gets
  Defaults,     \* [flow, version] -> name -> default value, or Required
  Legal,        \* [flow, version] -> name -> values its declaration admits
  Defects,      \* what a faulty resolver may get wrong
  Tampers,      \* what a faulty store may answer instead of the truth
  MaxRetries,   \* bound: calls repeated by their caller
  MaxFaults     \* bound: failures of the transaction

\* The items of a version have distinct identities (test_task.go:83), a command has its
\* fields, and the resolver is wrong in one of the ways below.
ASSUME ItemsAssumption ==
  /\ Items \in Seq(Range(Items))
  /\ \A k \in DOMAIN Items : Items[k].policy \in {"FIXED", "LATEST"}
  /\ \A j, k \in DOMAIN Items : Items[j].id = Items[k].id => j = k
ASSUME CommandAssumption ==
  \A c \in Calls :
    LET cmd == CommandOf[c]
    IN cmd = [command |-> cmd.command, instance |-> cmd.instance, task |-> cmd.task,
              environment |-> cmd.environment, policy |-> cmd.policy, size |-> cmd.size,
              shape |-> cmd.shape, entries |-> cmd.entries]
ASSUME DefectAssumption ==
  Defects \subseteq {"environment", "oversized", "root", "values", "provenance", "item",
                     "torn", "tornFirst"}
ASSUME BoundAssumption ==
  MaxVersions \in Nat \ {0} /\ MaxRetries \in Nat /\ MaxFaults \in Nat

VARIABLES
  faithful,  \* the resolver and the store keep their promises
  current,   \* flow fragment -> its current published version
  commands,  \* command identity -> what was stored with it
  runs,      \* instance -> the snapshot it is sealed with
  queue,     \* instances in queue order
  call,      \* call -> where it is, the result it holds, whether it wrote, its answer
  retries,   \* repeated calls so far
  faults,    \* failures so far
  answers    \* history: the successful answers, and which call got each at which retry

db == <<commands, runs, queue>>
vars == <<faithful, current, commands, runs, queue, call, retries, faults, answers>>

None == "none"
Required == "required"
Codes == {"commandInvalid", "commandConflict", "snapshotConflict", "contractViolation",
          "catalogUnresolvable", "parameterInvalid", "snapshotInvalid", "unclassified",
          "adapterUnavailable", "retryable"}
NoResult == [command |-> None, request |-> <<>>, snapshot |-> <<>>, record |-> <<>>, applied |-> FALSE]
Idle == [pc |-> "idle", dirty |-> FALSE, result |-> NoResult, answer |-> None]

Init ==
  /\ faithful \in BOOLEAN
  /\ current = [f \in Flows |-> 1]
  /\ commands = <<>>
  /\ runs = <<>>
  /\ queue = <<>>
  /\ call = [c \in Calls |-> Idle]
  /\ retries = 0
  /\ faults = 0
  /\ answers = {}

-----------------------------------------------------------------------------
(* The command: its limits, its normal form, its digest.                   *)

normalize(cmd) ==
  IF cmd.policy = "" THEN [cmd EXCEPT !.policy = "STOP_ON_FAILURE"] ELSE cmd

\* Every string, map and list fits the limits of a request.
preflight(cmd) == cmd.size = "fits"

\* Identities, times, policies and values are well formed.
validate(cmd) == cmd.shape = "wellformed"

\* The digest covers everything but the command identity, and tells apart what
\* differs in it: it is modelled as that content.
RequestDigest(cmd) == [normalize(cmd) EXCEPT !.command = None]

-----------------------------------------------------------------------------
(* The catalog and its resolver.                                           *)

Positions == DOMAIN Items
Declared(f, v) == DOMAIN Defaults[f, v]
Admitted(f, v) == Legal[f, v]
Supplied(cmd, k) == cmd.entries[Items[k].id]

\* ResolveParameterValues: nothing undeclared, nothing required missing, every
\* value admitted by its declaration.
Resolvable(f, v, values) ==
  /\ DOMAIN values \subseteq Declared(f, v)
  /\ \A n \in Declared(f, v) \ DOMAIN values : Defaults[f, v][n] # Required
  /\ \A n \in DOMAIN values : values[n] \in Admitted(f, v)[n]

ResolveParameterValues(f, v, values) ==
  [n \in Declared(f, v) |-> IF n \in DOMAIN values THEN values[n] ELSE Defaults[f, v][n]]

Pinned(k, view) == IF Items[k].policy = "FIXED" THEN Items[k].version ELSE view[Items[k].flow]

Dependency(f, v, latest) == [flow |-> f, version |-> v, latest |-> latest]

\* The dependencies of the plan, one per version, in the resolver's order; a version
\* that some item reached through the current pointer says so.
Dependencies(view) ==
  LET pins == [k \in Positions |-> Pinned(k, view)]
      followed(f, v) == \E k \in Positions :
        Items[k].policy = "LATEST" /\ Items[k].flow = f /\ pins[k] = v
  IN SetToSeq({Dependency(Items[k].flow, pins[k], followed(Items[k].flow, pins[k])) :
                 k \in Positions})

\* What an honest resolver returns from one view of the catalog.
Resolution(cmd, view) ==
  [task |-> cmd.task, environment |-> cmd.environment, size |-> "fits",
   deps |-> Dependencies(view), items |-> Positions,
   roots |-> [k \in Positions |->
     [version |-> Pinned(k, view),
      values |-> ResolveParameterValues(Items[k].flow, Pinned(k, view), Supplied(cmd, k))]]]

\* An honest resolver refuses what it cannot resolve.
CanResolve(cmd, view) ==
  /\ DOMAIN cmd.entries = {Items[k].id : k \in Positions}
  /\ \A k \in Positions : Resolvable(Items[k].flow, Pinned(k, view), Supplied(cmd, k))

Others(deps, f, v) == SelectSeq(deps, LAMBDA d : d.flow # f \/ d.version # v)

\* A faulty one returns a resolution that is wrong in one respect.
Spoiled(defect, res, cmd, view) ==
  CASE defect = "environment" -> [res EXCEPT !.environment = None]
    [] defect = "oversized"   -> [res EXCEPT !.size = "over"]
    [] defect = "root"        -> [res EXCEPT !.roots = [k \in Positions \ {1} |-> res.roots[k]]]
    [] defect = "values"      -> [res EXCEPT !.roots[1].values =
                                    [n \in DOMAIN @ |-> "stale"]]
    [] defect = "provenance"  ->
         [res EXCEPT !.deps = [d \in DOMAIN @ |-> [@[d] EXCEPT !.latest = FALSE]]]
    [] defect = "item"        -> [res EXCEPT !.items = Positions \ {Len(Items)}]
    [] defect \in {"torn", "tornFirst"} ->
         \* the first item read the pointer of its flow fragment at another time
         LET f == Items[1].flow
             other == CHOOSE v \in 1..MaxVersions : v # view[f]
             late == <<Dependency(f, other, TRUE)>>
             rest == Others(res.deps, f, other)
         IN [res EXCEPT !.roots[1].version = other,
                        !.roots[1].values = ResolveParameterValues(f, other, Supplied(cmd, 1)),
                        !.deps = IF defect = "torn" THEN rest \o late ELSE late \o rest]

-----------------------------------------------------------------------------
(* Freezing: BuildInstanceSnapshot and the mapping of the plan.            *)

\* The first dependency of a flow fragment that came from the current pointer.
FollowedVersion(f, res) ==
  LET following == {d \in DOMAIN res.deps : res.deps[d].flow = f /\ res.deps[d].latest}
  IN IF following = {} THEN 0
     ELSE res.deps[CHOOSE d \in following : \A e \in following : d <= e].version

\* The version of an item: its own when fixed, else the one that its flow fragment's
\* current pointer gave.
resolvedWorkflowVersion(k, res) ==
  IF Items[k].policy = "FIXED" THEN Items[k].version ELSE FollowedVersion(Items[k].flow, res)

\* One item, in the order of the loop.
ItemError(cmd, res, k) ==
  LET item == Items[k] IN
  IF item.id \notin DOMAIN cmd.entries \/ k \notin DOMAIN res.roots THEN "catalogUnresolvable"
  ELSE LET root == res.roots[k]
           values == Supplied(cmd, k)
           known == \E d \in Range(res.deps) : d.version = root.version
           declared == IF known THEN Declared(item.flow, root.version) ELSE {}
       IN IF ~(DOMAIN values \subseteq declared) THEN "unclassified"
          ELSE IF \E n \in DOMAIN values : values[n] \notin Admitted(item.flow, root.version)[n]
            THEN "parameterInvalid"
          ELSE IF ~known THEN "unclassified"
          ELSE IF ~Resolvable(item.flow, root.version, values) THEN "parameterInvalid"
          ELSE IF ResolveParameterValues(item.flow, root.version, values) # root.values
            THEN "unclassified"
          ELSE None

\* validateEntries of buildExecutionDraft: every item has a dependency that its policy
\* allows, and its entry pins one that is there.  That the task version is valid and that a
\* value set is complete (rejectUnmappedParameters) is left out: more is admitted here.
DraftError(res, pins) ==
  LET of(k) == {d \in Range(res.deps) : d.flow = Items[k].flow}
      matches(k) == \E d \in of(k) :
        IF Items[k].policy = "FIXED" THEN d.version = Items[k].version ELSE d.latest
  IN IF \A k \in res.items : matches(k) /\ \E d \in of(k) : d.version = pins[k]
       THEN None ELSE "catalogUnresolvable"

\* Mutant: nothing compares the version of a root invocation with that of its entry.
SealAnything(res, pins) == None

\* SealInstanceSnapshot on this level: the root invocation of an entry is of the
\* version that the entry pins.
SealError(res, pins) ==
  IF \E k \in res.items : res.roots[k].version # pins[k] \/ res.items # DOMAIN res.roots
    THEN "snapshotInvalid" ELSE None

Frozen(cmd, res, pins) ==
  [instance |-> cmd.instance, task |-> cmd.task, environment |-> cmd.environment,
   policy |-> cmd.policy,
   entries |-> [k \in res.items |-> [version |-> pins[k], values |-> res.roots[k].values]]]

FirstError(codes) ==
  LET bad == {k \in DOMAIN codes : codes[k] # None}
  IN IF bad = {} THEN None ELSE codes[CHOOSE k \in bad : \A j \in bad : k <= j]

\* The error of the whole construction.
BuildError(cmd, res, pins) ==
  IF res.size # "fits" THEN "contractViolation"
  ELSE IF res.task # cmd.task \/ res.environment # cmd.environment THEN "catalogUnresolvable"
  ELSE LET perItem == FirstError([k \in Positions |->
                        IF k \in res.items THEN ItemError(cmd, res, k) ELSE None])
       IN IF perItem # None THEN perItem
          ELSE IF Cardinality(DOMAIN cmd.entries) # Cardinality(res.items)
            THEN "catalogUnresolvable"
          ELSE FirstError(<<DraftError(res, pins), SealError(res, pins)>>)

-----------------------------------------------------------------------------
(* What the store answers.                                                 *)

\* The record that belongs to a command and a snapshot.
Stored(cmd, snapshot) ==
  [command |-> cmd.command, request |-> RequestDigest(cmd),
   run |-> cmd.instance, snapshot |-> snapshot, digest |-> snapshot,
   entries |-> DOMAIN snapshot.entries]

\* A store that breaks its promise returns a record that is wrong in one respect; with
\* a wrong snapshot it returns the digest of that snapshot.
Resealed(rec, s) == [rec EXCEPT !.snapshot = s, !.digest = s]
Tampered(tamper, rec) ==
  CASE tamper = "command"  -> [rec EXCEPT !.command = "another"]
    [] tamper = "request"  -> [rec EXCEPT !.request.task = "another"]
    [] tamper = "run"      -> [rec EXCEPT !.run = "another"]
    [] tamper = "digest"   -> [rec EXCEPT !.digest = <<>>]
    [] tamper = "entries"  -> [rec EXCEPT !.entries = {}]
    [] tamper \in {"instance", "task", "environment", "policy"} ->
         Resealed(rec, [rec.snapshot EXCEPT ![tamper] = "another"])
    [] tamper = "values"   -> Resealed(rec, [rec.snapshot EXCEPT !.entries[1].values = <<>>])
    [] tamper = "version"  -> Resealed(rec, [rec.snapshot EXCEPT !.entries[1].version = 0])

Truths(rec) == {rec} \union IF faithful THEN {} ELSE {Tampered(t, rec) : t \in Tampers}

\* A stored result answers this command: identities agree with each other and with
\* the command, its policy is kept, and each supplied value is in force.
validateStoredCreateInstanceResult(rec, cmd) ==
  /\ rec.digest = rec.snapshot
  /\ rec.run = cmd.instance /\ rec.snapshot.instance = cmd.instance
  /\ rec.snapshot.task = cmd.task /\ rec.snapshot.environment = cmd.environment
  /\ rec.snapshot.policy = cmd.policy
  /\ rec.entries = DOMAIN rec.snapshot.entries
  /\ \A id \in DOMAIN cmd.entries : \E k \in DOMAIN rec.snapshot.entries :
       /\ Items[k].id = id
       /\ \A n \in DOMAIN cmd.entries[id] :
            LET values == rec.snapshot.entries[k].values
            IN n \in DOMAIN values /\ values[n] = cmd.entries[id][n]

\* Mutant: the entries of the outcome are not compared with those of its snapshot.
OutcomeAnyEntries(out, cmd, snapshot) ==
  /\ out.rec.command = cmd.command /\ out.rec.request = RequestDigest(cmd)
  /\ out.rec.run = cmd.instance /\ out.rec.snapshot.instance = out.rec.run
  /\ \/ out.status = "REPLAYED" /\ validateStoredCreateInstanceResult(out.rec, cmd)
     \/ out.status = "APPLIED" /\ out.rec.digest = snapshot /\ out.rec.snapshot = snapshot

\* The outcome of an insert is exactly what was submitted, or the stored result of
\* the same request that came first.
validateInsertCreateInstanceOutcome(out, cmd, snapshot) ==
  /\ out.rec.command = cmd.command /\ out.rec.request = RequestDigest(cmd)
  /\ out.rec.run = cmd.instance /\ out.rec.snapshot.instance = out.rec.run
  /\ out.rec.entries = DOMAIN out.rec.snapshot.entries
  /\ \/ out.status = "REPLAYED" /\ validateStoredCreateInstanceResult(out.rec, cmd)
     \/ out.status = "APPLIED" /\ out.rec.digest = snapshot /\ out.rec.snapshot = snapshot

\* `record` is what the store told: the run and the entries of the result are its own.
resultFromStored(cmd, rec, applied) ==
  [command |-> cmd.command, request |-> RequestDigest(cmd), snapshot |-> rec.snapshot,
   record |-> rec, applied |-> applied]

-----------------------------------------------------------------------------
(* A call.                                                                 *)

cmdOf(c) == normalize(CommandOf[c])

Answered(c, code) ==
  call' = [call EXCEPT ![c] = [Idle EXCEPT !.pc = "done", !.answer = code]]

\* The command is checked before any transaction begins.
Start(c) ==
  /\ call[c].pc = "idle"
  /\ IF preflight(CommandOf[c]) /\ validate(CommandOf[c])
       THEN call' = [call EXCEPT ![c].pc = "callback"]
       ELSE Answered(c, "commandInvalid")
  /\ UNCHANGED <<faithful, current, db, retries, faults, answers>>

\* Mutant: the snapshot of the first attempt is kept when the callback is rerun.
HoldsFirst(c, result, dirty) ==
  call' = [call EXCEPT ![c].pc = "commit", ![c].dirty = dirty,
                       ![c].result = IF @ = NoResult THEN result
                                       ELSE [result EXCEPT !.snapshot = call[c].result.snapshot]]

\* Mutant: a replay is committed as if it had written.
HoldsDirty(c, result, dirty) ==
  call' = [call EXCEPT ![c].pc = "commit", ![c].result = result, ![c].dirty = TRUE]

\* The result of a callback replaces that of an earlier one.
Holds(c, result, dirty) ==
  call' = [call EXCEPT ![c].pc = "commit", ![c].result = result, ![c].dirty = dirty]

\* The callback looks the command up, and its writes stay in the transaction until the
\* commit.  The command identity is already known:
CallbackFound(c) ==
  LET cmd == cmdOf(c) IN
  /\ call[c].pc = "callback"
  /\ cmd.command \in DOMAIN commands
  /\ \E rec \in Truths(commands[cmd.command]) :
       IF rec.request # RequestDigest(cmd) THEN Answered(c, "commandConflict")
       ELSE IF rec.command # cmd.command \/ ~validateStoredCreateInstanceResult(rec, cmd)
         THEN Answered(c, "contractViolation")
       ELSE Holds(c, resultFromStored(cmd, rec, FALSE), FALSE)
  /\ UNCHANGED <<faithful, current, db, retries, faults, answers>>

Resolutions(cmd) ==
  LET honest == Resolution(cmd, current)
  IN {honest} \union IF faithful THEN {}
                     ELSE {Spoiled(d, honest, cmd, current) : d \in Defects}

\* or it is not: resolve against one view of the catalog, and freeze.
CallbackNew(c) ==
  LET cmd == cmdOf(c) IN
  /\ call[c].pc = "callback"
  /\ cmd.command \notin DOMAIN commands
  /\ IF ~CanResolve(cmd, current) THEN Answered(c, "catalogUnresolvable")
     ELSE \E res \in Resolutions(cmd) :
       LET pins == [k \in Positions |-> resolvedWorkflowVersion(k, res)]
           error == BuildError(cmd, res, pins) IN
       IF error # None THEN Answered(c, error)
       ELSE call' = [call EXCEPT
              ![c].pc = "insert",
              ![c].result = resultFromStored(cmd, Stored(cmd, Frozen(cmd, res, pins)), TRUE)]
  /\ UNCHANGED <<faithful, current, db, retries, faults, answers>>

\* The insert may see what was committed since the lookup.
InsertCreateInstance(c) ==
  LET cmd == cmdOf(c)
      snapshot == call[c].result.snapshot
      replayed == cmd.command \in DOMAIN commands
      known == IF replayed THEN commands[cmd.command] ELSE Stored(cmd, snapshot)
  IN /\ call[c].pc = "insert"
     /\ IF known.request # RequestDigest(cmd) THEN Answered(c, "commandConflict")
        ELSE IF ~replayed /\ cmd.instance \in DOMAIN runs /\ runs[cmd.instance] # snapshot
          THEN Answered(c, "snapshotConflict")
        ELSE \E rec \in Truths(known) :
          LET out == [status |-> IF replayed THEN "REPLAYED" ELSE "APPLIED", rec |-> rec]
          IN IF validateInsertCreateInstanceOutcome(out, cmd, snapshot)
               THEN Holds(c, resultFromStored(cmd, rec, ~replayed), ~replayed)
               ELSE Answered(c, "contractViolation")
     /\ UNCHANGED <<faithful, current, db, retries, faults, answers>>

\* FindCommand, the resolver or the insert fails: the transaction rolls back.  The failure
\* of a resolver is returned as the host made it; here it has the code of the other two.
CallbackFails(c) ==
  /\ call[c].pc \in {"callback", "insert"} /\ faults < MaxFaults
  /\ faults' = faults + 1
  /\ Answered(c, "adapterUnavailable")
  /\ UNCHANGED <<faithful, current, db, retries, answers>>

Succeeds(c) ==
  /\ call' = [call EXCEPT ![c] = [Idle EXCEPT !.pc = "done", !.answer = "ok"]]
  /\ LET r == call[c].result
     IN answers' = answers \union {[command |-> r.command, request |-> r.request,
                                    snapshot |-> r.snapshot, record |-> r.record,
                                    applied |-> r.applied, by |-> <<c, retries>>]}

\* Someone else stored this command or this instance since the callback read them.
Overtaken(c) ==
  LET cmd == cmdOf(c) IN
  \/ cmd.command \in DOMAIN commands
  \/ cmd.instance \in DOMAIN runs /\ runs[cmd.instance] # call[c].result.snapshot

\* What is there under a key stays.
Added(stored, key, value) ==
  [k \in DOMAIN stored \union {key} |-> IF k \in DOMAIN stored THEN stored[k] ELSE value]

Publish(c) ==
  LET rec == Stored(cmdOf(c), call[c].result.snapshot)
  IN /\ commands' = Added(commands, rec.command, rec)
     /\ runs' = Added(runs, rec.run, rec.snapshot)
     /\ queue' = IF rec.run \in DOMAIN runs THEN queue ELSE Append(queue, rec.run)

\* The commit: nothing to write, or a winner to reconcile with, or the write.
Commit(c) ==
  LET cmd == cmdOf(c) IN
  /\ call[c].pc = "commit"
  /\ \/ /\ ~call[c].dirty
        /\ Succeeds(c)
        /\ UNCHANGED db
     \/ /\ call[c].dirty /\ Overtaken(c)
        /\ IF cmd.command \in DOMAIN commands
             THEN IF commands[cmd.command].request = RequestDigest(cmd)
                    THEN call' = [call EXCEPT ![c].pc = "callback"]
                    ELSE Answered(c, "commandConflict")
             ELSE Answered(c, "snapshotConflict")
        /\ UNCHANGED <<db, answers>>
     \/ /\ call[c].dirty /\ ~Overtaken(c)
        /\ Publish(c)
        /\ Succeeds(c)
  /\ UNCHANGED <<faithful, current, retries, faults>>

\* The commit fails, or its outcome stays unknown: the transaction reruns the
\* callback, or gives up and asks the caller to retry.
CommitFails(c) ==
  /\ call[c].pc = "commit" /\ faults < MaxFaults
  /\ faults' = faults + 1
  /\ \/ UNCHANGED db
     \/ call[c].dirty /\ ~Overtaken(c) /\ Publish(c)
  /\ \/ call' = [call EXCEPT ![c].pc = "callback"]
     \/ Answered(c, "retryable")
  /\ UNCHANGED <<faithful, current, retries, answers>>

\* A caller repeats its unchanged command.
Retry(c) ==
  /\ call[c].pc = "done" /\ retries < MaxRetries
  /\ retries' = retries + 1
  /\ call' = [call EXCEPT ![c] = Idle]
  /\ UNCHANGED <<faithful, current, db, faults, answers>>

\* Meanwhile a new version of a flow fragment is published.
PublishVersion(f) ==
  /\ current[f] < MaxVersions
  /\ current' = [current EXCEPT ![f] = @ + 1]
  /\ UNCHANGED <<faithful, db, call, retries, faults, answers>>

CallStep(c) ==
  \/ Start(c)
  \/ CallbackFound(c)
  \/ CallbackNew(c)
  \/ InsertCreateInstance(c)
  \/ Commit(c)

Next ==
  \/ \E c \in Calls : CallStep(c) \/ CallbackFails(c) \/ CommitFails(c) \/ Retry(c)
  \/ \E f \in Flows : PublishVersion(f)

Spec == Init /\ [][Next]_vars

-----------------------------------------------------------------------------
(* Properties.                                                             *)

TypeOK ==
  /\ faithful \in BOOLEAN
  /\ current \in [Flows -> 1..MaxVersions]
  /\ \A k \in DOMAIN commands : commands[k].command = k /\ commands[k].run \in DOMAIN runs
  /\ queue \in Seq(DOMAIN runs)
  /\ \A c \in Calls :
       /\ call[c].pc \in {"idle", "callback", "insert", "commit", "done"}
       /\ call[c].answer \in Codes \union {None, "ok"}
  /\ retries \in 0..MaxRetries
  /\ faults \in 0..MaxFaults

\* However often a command is repeated, by whomever, and wherever its replies were
\* lost, all successful answers name one snapshot, and at most one of them says
\* that it created the instance.  (A command is a retry of another when the
\* identity and the content agree.)
RetriesAgree ==
  \A a, b \in answers : a.command = b.command =>
    /\ a.snapshot = b.snapshot
    /\ a.applied /\ b.applied => a = b

\* The answer is what is stored, not what an attempt built that was rolled back or
\* overtaken while the catalog moved.
AnswerIsWhatIsStored ==
  \A a \in answers :
    /\ a.command \in DOMAIN commands
    /\ commands[a.command].snapshot = a.snapshot
    /\ commands[a.command].request = a.request

\* Leaving the failure policy out and spelling its default are one request: a call is
\* refused as a conflict only if what is stored asked for something else.
SpellingIsNoConflict ==
  LET sameButPolicy(x, y) == [x EXCEPT !.policy = None, !.command = None] =
                             [y EXCEPT !.policy = None, !.command = None]
      spellings == {"", "STOP_ON_FAILURE"}
  IN \A c \in Calls : call[c].answer = "commandConflict" =>
       /\ CommandOf[c].command \in DOMAIN commands
       /\ LET stored == commands[CommandOf[c].command].request
          IN sameButPolicy(stored, CommandOf[c]) =>
               /\ stored.policy # CommandOf[c].policy
               /\ ~({stored.policy, CommandOf[c].policy} \subseteq spellings)

\* A store and a resolver that keep their promises are never accused, in whatever
\* order calls, retries, lost replies and published versions come.
HonestStoreIsNeverBlamed ==
  \A c \in Calls : call[c].answer \notin {"contractViolation", "unclassified", "snapshotInvalid"}

\* Whatever the resolver gets wrong, a stored snapshot is what its command asked
\* for: it has every item; a fixed item has its version; the items that follow one
\* flow fragment's current version share one version of it; and each entry's values
\* are the supplied ones completed by the defaults of the version it pins.
FrozenAsAsked ==
  \A key \in DOMAIN commands :
    LET rec == commands[key]
        entries == rec.snapshot.entries
    IN /\ DOMAIN entries = Positions
       /\ rec.snapshot.environment = rec.request.environment
       /\ rec.snapshot.policy = rec.request.policy
       /\ \A k \in Positions :
            /\ Items[k].policy = "FIXED" => entries[k].version = Items[k].version
            /\ entries[k].values =
                 ResolveParameterValues(Items[k].flow, entries[k].version,
                                        rec.request.entries[Items[k].id])
            /\ \A j \in Positions :
                 /\ Items[j].policy = "LATEST" /\ Items[k].policy = "LATEST"
                 /\ Items[j].flow = Items[k].flow
                 => entries[j].version = entries[k].version

\* A record is one for a command: its identities and its digests are the command's and
\* its own snapshot's, and each value that the command supplies is in force.
RecordFor(rec, cmd) ==
  /\ rec.command = cmd.command /\ rec.request = RequestDigest(cmd) /\ rec.run = cmd.instance
  /\ rec.digest = rec.snapshot /\ rec.entries = DOMAIN rec.snapshot.entries
  /\ rec.snapshot.instance = cmd.instance /\ rec.snapshot.task = cmd.task
  /\ rec.snapshot.environment = cmd.environment /\ rec.snapshot.policy = cmd.policy
  /\ \A id \in DOMAIN cmd.entries : \E k \in DOMAIN rec.snapshot.entries :
       /\ Items[k].id = id
       /\ \A n \in DOMAIN cmd.entries[id] :
            LET values == rec.snapshot.entries[k].values
            IN n \in DOMAIN values /\ values[n] = cmd.entries[id][n]

\* Whatever the store answers, a caller that is told of a success holds a record for its
\* own command, wherever the record came from: the lookup, a winner of the insert, or its
\* own write.  One that is told that it created the instance holds what is stored.  (A
\* replay that differs from what was stored, and is still a record for the command, is a
\* lie that no check can find: "version" is one.)
LiesAreCaught ==
  \A a \in answers :
    /\ RecordFor(a.record, cmdOf(a.by[1])) /\ a.snapshot = a.record.snapshot
    /\ a.applied => /\ a.command \in DOMAIN commands
                    /\ commands[a.command].snapshot = a.snapshot
                    /\ commands[a.command].request = a.request

\* The stored commands that no caller was told to have created.
Untold == {key \in DOMAIN commands : ~\E a \in answers : a.command = key /\ a.applied}

\* What is stored was asked for by a call that was admitted, and one caller was told that
\* it created it, unless the reply of a commit was lost: as many are untold as there were
\* failures, at the most.  So a call that is refused, for its command, its resolution or
\* the answer of the store, has stored nothing.
RefusalStoresNothing ==
  /\ \A key \in DOMAIN commands :
       \E c \in Calls :
         /\ CommandOf[c].command = key
         /\ RequestDigest(CommandOf[c]) = commands[key].request
         /\ CommandOf[c].size = "fits" /\ CommandOf[c].shape = "wellformed"
  /\ Cardinality(Untold) <= faults

\* Callers that repeat a command, in whatever spelling, share one instance and one
\* answer, and neither they nor an honest store are accused of what they did not do
\* (create_instance_service.go).
RetriesShareOneInstance ==
  /\ TypeOK
  /\ faithful => /\ RetriesAgree
                 /\ AnswerIsWhatIsStored
                 /\ SpellingIsNoConflict
                 /\ HonestStoreIsNeverBlamed

\* Whatever the resolver or the store gets wrong, what is stored is what was asked for, a
\* success is told of a record for the caller's command alone, and a refusal leaves nothing
\* behind (create_instance_builder.go, create_instance_service.go).
DefectsAreContained == FrozenAsAsked /\ LiesAreCaught /\ RefusalStoresNothing
=============================================================================
