------------------------------ MODULE FlowClosure ------------------------------
(* The resolved dependencies of an execution flow (domain/automation            *)
(* test_task.go, ResolvedExecutionFlow.Validate): every item names a flow       *)
(* fragment version, whose steps name element targets and further versions. The *)
(* graph is walked depth first from the items; at the end nothing that was      *)
(* supplied may be left unused. The walk visits the steps of a version in one   *)
(* order, children and branches in place, so a version is the list of them.     *)
EXTENDS Naturals, Sequences, FiniteSets

CONSTANTS
  Flows,   \* the resolved flows considered
  None     \* a blank identity

(* A flow: [number, source, expected]   its version, and what it is a version of *)
(*   items      <<[fragment, version, fits]>>   a LATEST item names no version   *)
(*   workflows  <<[fragment, version, latest]>>                                  *)
(*   steps      version -> <<[id, node, to]>>, to is NoReference or              *)
(*                [fragment, version, fits]; a LATEST reference names no version *)
(*   nodes      <<node>>                                                         *)
(*   references <<[parent, step, fragment, version, latest]>>                    *)
(* fits: the parameters that are supplied agree with those that are declared.    *)

\* The names of the verdicts are no identities.
ASSUME NoneAssumption == None \notin {"OK", "cycle", "step", "shape", "items", "index", "unused"}

VARIABLES
  flow,            \* the flow that is judged
  pc,              \* the check that is next
  verdict,         \* None, OK, or why the flow was refused
  item,            \* the item whose dependencies are walked
  stack,           \* the visits under way: [version, next]
  finished,        \* usedWorkflows, in the order they were completed
  usedReferences,
  usedNodes

walk == <<item, stack, finished, usedReferences, usedNodes>>
vars == <<flow, pc, verdict, walk>>

Elements(list) == {list[i] : i \in DOMAIN list}
IsList(list) == list \in Seq(Elements(list))
\* What is supplied is given in lists, and every snapshot has steps.
ASSUME FlowsAssumption ==
  \A f \in Flows :
    /\ IsList(f.items) /\ IsList(f.workflows) /\ IsList(f.nodes) /\ IsList(f.references)
    /\ \A w \in Elements(f.workflows) : IsList(f.steps[w.version])

NoReference == [fragment |-> None, version |-> None, fits |-> TRUE]
Distinct(list, Key(_)) == \A i, j \in DOMAIN list : Key(list[i]) = Key(list[j]) => i = j

Versions == {w.version : w \in Elements(flow.workflows)}
Nodes == Elements(flow.nodes)
StepKeys == {<<r.parent, r.step>> : r \in Elements(flow.references)}
Dependency(version) == CHOOSE w \in Elements(flow.workflows) : w.version = version
Resolution(key) == CHOOSE r \in Elements(flow.references) : <<r.parent, r.step>> = key

Init ==
  /\ flow \in Flows
  /\ pc = "shape" /\ verdict = None
  /\ item = 1 /\ stack = <<>> /\ finished = <<>>
  /\ usedReferences = {} /\ usedNodes = {}

Refuse(why) == pc' = "done" /\ verdict' = why /\ UNCHANGED <<flow, walk>>
Proceed(to) == pc' = to /\ UNCHANGED <<flow, verdict, walk>>

--------------------------------------------------------------------------------
(* Before the walk.                                                              *)
\* A first version has no source, a later one names it and the revision expected.
EnvelopeFits ==
  IF flow.number = 1 THEN flow.expected = 0 /\ flow.source = None
  ELSE flow.expected # 0 /\ flow.source # None

Identity(w) == <<w.fragment, w.version>>
SnapshotsFit ==
  /\ \A w \in Elements(flow.workflows) : None \notin {w.fragment, w.version}
  /\ Distinct(flow.workflows, Identity)
  /\ Distinct(flow.nodes, LAMBDA n : n)

Shape ==
  /\ pc = "shape"
  /\ IF EnvelopeFits /\ SnapshotsFit THEN Proceed("items") ELSE Refuse("shape")

Matches(i, w) ==
  /\ w.fragment = i.fragment
  /\ IF i.version = None THEN w.latest ELSE w.version = i.version
Candidates(i) == {k \in DOMAIN flow.workflows : Matches(i, flow.workflows[k])}
\* The first snapshot that an item matches.
FirstMatch(i) == {k \in Candidates(i) : \A l \in Candidates(i) : k <= l}
Root(i) == flow.workflows[CHOOSE k \in FirstMatch(i) : TRUE].version

MatchItems ==
  /\ pc = "items"
  /\ IF \A i \in Elements(flow.items) : Candidates(i) # {} /\ i.fits
       THEN Proceed("index") ELSE Refuse("items")

\* byVersion and references are filled, without duplicates.
IndexGraph ==
  /\ pc = "index"
  /\ IF /\ Distinct(flow.workflows, LAMBDA w : w.version)
        /\ Distinct(flow.references, LAMBDA r : <<r.parent, r.step>>)
        /\ \A r \in Elements(flow.references) : None \notin {r.parent, r.step, r.fragment, r.version}
       THEN Proceed("walk") ELSE Refuse("index")

--------------------------------------------------------------------------------
(* The walk.                                                                     *)
Used == Elements(finished)
\* Mutant: a version that was left counts as being visited.
VisitingStill == {frame.version : frame \in Elements(stack)} \union Used
Visiting == {frame.version : frame \in Elements(stack)}
Frame(version) == [version |-> version, next |-> 1]

Top == stack[Len(stack)]
TopSteps == flow.steps[Top.version]
Rest == SubSeq(stack, 1, Len(stack) - 1)

NextItem ==
  /\ pc = "walk" /\ stack = <<>> /\ item <= Len(flow.items)
  /\ \E k \in FirstMatch(flow.items[item]) :
       LET root == flow.workflows[k].version
       IN stack' = IF root \in Used THEN <<>> ELSE <<Frame(root)>>
  /\ item' = item + 1
  /\ UNCHANGED <<flow, pc, verdict, finished, usedReferences, usedNodes>>

\* The resolution of a reference names what the step asks for.
TargetAgrees(to, r) ==
  /\ r.version \in Versions
  /\ Dependency(r.version).fragment = r.fragment /\ r.fragment = to.fragment
  /\ IF to.version = None THEN r.latest ELSE ~r.latest /\ to.version = r.version

StepHolds(version, s) ==
  /\ s.node # None => s.node \in Nodes
  /\ s.to # NoReference =>
       /\ <<version, s.id>> \in StepKeys
       /\ TargetAgrees(s.to, Resolution(<<version, s.id>>))
       /\ s.to.fits

Target(version, s) == Resolution(<<version, s.id>>).version

StepOn == pc = "walk" /\ stack # <<>> /\ Top.next <= Len(TopSteps)

\* visit: a version under way closes a cycle, a completed one is passed over.
Enter(target, advanced) ==
  IF target \in Visiting THEN pc' = "done" /\ verdict' = "cycle" /\ UNCHANGED stack
  ELSE /\ stack' = IF target \in Used THEN advanced ELSE Append(advanced, Frame(target))
       /\ UNCHANGED <<pc, verdict>>

StepRefused == StepOn /\ ~StepHolds(Top.version, TopSteps[Top.next]) /\ Refuse("step")

\* The node and the reference of a step are used, then its target is visited.
TakeStep ==
  /\ StepOn
  /\ LET s == TopSteps[Top.next]
         advanced == [stack EXCEPT ![Len(stack)].next = @ + 1]
     IN /\ StepHolds(Top.version, s)
        /\ usedNodes' = usedNodes \union ({s.node} \ {None})
        /\ IF s.to = NoReference
             THEN stack' = advanced /\ UNCHANGED <<pc, verdict, usedReferences>>
             ELSE /\ usedReferences' = usedReferences \union {<<Top.version, s.id>>}
                  /\ Enter(Target(Top.version, s), advanced)
  /\ UNCHANGED <<flow, item, finished>>

Leave ==
  /\ pc = "walk" /\ stack # <<>> /\ Top.next > Len(TopSteps)
  /\ finished' = Append(finished, Top.version)
  /\ stack' = Rest
  /\ UNCHANGED <<flow, pc, verdict, item, usedReferences, usedNodes>>

\* As many are used as were supplied.
AllUsed ==
  /\ Cardinality(Used) = Cardinality(Versions)
  /\ Cardinality(usedReferences) = Cardinality(StepKeys)
  /\ Cardinality(usedNodes) = Cardinality(Nodes)

Finish ==
  /\ pc = "walk" /\ stack = <<>> /\ item > Len(flow.items)
  /\ Refuse(IF AllUsed THEN "OK" ELSE "unused")

Next ==
  \/ Shape \/ MatchItems \/ IndexGraph \/ NextItem
  \/ StepRefused \/ TakeStep \/ Leave \/ Finish

Spec == Init /\ [][Next]_vars

--------------------------------------------------------------------------------
(* What an accepted flow is.                                                     *)
StepsOf(version) == Elements(flow.steps[version])
Edges == {e \in Versions \X Versions :
            \E s \in StepsOf(e[1]) : s.to # NoReference /\ Target(e[1], s) = e[2]}

\* What the items lead to in at most n references.
Within[n \in Nat] ==
  IF n = 0 THEN {Root(i) : i \in Elements(flow.items)}
  ELSE Within[n - 1] \union {e[2] : e \in {d \in Edges : d[1] \in Within[n - 1]}}

\* The versions from which nothing leads on for more than n references.
Bottom[n \in Nat] ==
  IF n = 0 THEN {}
  ELSE {v \in Versions : \A e \in Edges : e[1] = v => e[2] \in Bottom[n - 1]}

Indexed ==
  /\ EnvelopeFits /\ SnapshotsFit
  /\ \A i \in Elements(flow.items) : Candidates(i) # {} /\ i.fits
  /\ Cardinality(Versions) = Len(flow.workflows)
  /\ Cardinality(StepKeys) = Len(flow.references)
  /\ \A r \in Elements(flow.references) : None \notin {r.parent, r.step, r.fragment, r.version}

Closed ==
  LET size == Cardinality(Versions) IN
  /\ Indexed
  /\ \A v \in Versions : \A s \in StepsOf(v) : StepHolds(v, s)
  /\ Bottom[size] = Versions
  /\ Within[size] = Versions
  /\ StepKeys = UNION {{<<v, s.id>> : s \in {t \in StepsOf(v) : t.to # NoReference}} : v \in Versions}
  /\ Nodes = UNION {{s.node : s \in StepsOf(v)} : v \in Versions} \ {None}

\* The flow is accepted exactly when its graph is closed, consistent, without
\* cycles, reached from its items, and nothing else was supplied: the answer of
\* the depth-first walk in ResolvedExecutionFlow.Validate.
VerdictIsClosure == pc = "done" => (verdict = "OK" <=> Closed)

\* A refused cycle is one: the visits under way lead from one version to the
\* next and the step that was taken leads back to one of them (visiting in visit).
CycleIsReal ==
  verdict = "cycle" =>
    \E from \in DOMAIN stack :
      \A k \in from..Len(stack) :
        <<stack[k].version, stack[IF k = Len(stack) THEN from ELSE k + 1].version>> \in Edges

\* References only lead to versions that were completed before, so that what is
\* accepted can be run without end of references (the order of usedWorkflows).
Placed(version, k) == \E m \in 1..k : finished[m] = version
AcceptedIsOrdered ==
  verdict = "OK" =>
    /\ Used = Versions
    /\ \A k \in DOMAIN finished : \A s \in StepsOf(finished[k]) :
         /\ StepHolds(finished[k], s)
         /\ s.to # NoReference => Placed(Target(finished[k], s), k - 1)

\* A verdict says what the graph is: a cycle is one, and what is accepted can be run
\* (validateDependencyGraph).
VerdictsAreReal == CycleIsReal /\ AcceptedIsOrdered
================================================================================
