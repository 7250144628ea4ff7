---------------------------- MODULE InstancePlan ----------------------------
(***************************************************************************)
(* From the graph of a task version to a program (domain/execution         *)
(* validation.go, budget.go, step_shape.go, instance_snapshot.go;          *)
(* application/engine/compiler.go).  A plan names entries, the flow        *)
(* fragment versions they run and the exact version of every reference.    *)
(* It is validated (references depth first, cost with memory, dependencies *)
(* by consumption), frozen together with one invocation per call site, and *)
(* later compiled without further checks that could be met halfway.        *)
(* A node of the step tree is a record; ids are unique in one workflow.    *)
(***************************************************************************)
EXTENDS Integers, Sequences, SequencesExt, FiniteSets, FiniteSetsExt

CONSTANTS
  Plans,          \* the plans considered: entries, items, steps, refs, nodes
  Forgeries(_),   \* invocation sets offered for a plan
  MaxNesting,     \* MaxStepNestingDepth
  MaxDepth,       \* MaxWorkflowReferenceDepth
  MaxReachable,   \* MaxReachableWorkflows
  MaxEdges,       \* MaxWorkflowReferenceEdges
  MaxExecutions,  \* MaxExpandedExecutions
  MaxWait         \* MaxCumulativeWaitMS

VARIABLES
  plan,         \* the plan under validation
  phase,        \* which check comes next
  verdict,      \* why it was refused
  entry,        \* the entry whose references are walked
  stack,        \* frames of that walk
  states,       \* version -> 0 unseen, 1 on the path, 2 done
  edges,        \* references met so far
  invocations,  \* the accepted invocations
  program       \* what the compiler made of each entry

vars == <<plan, phase, verdict, entry, stack, states, edges, invocations, program>>

NoId == "none"
NoNode == [target |-> NoId, version |-> NoId]

Init ==
  /\ plan \in Plans
  /\ phase = "shape"
  /\ verdict = NoId
  /\ entry = 1
  /\ stack = <<>>
  /\ states = [w \in DOMAIN plan.steps |-> 0]
  /\ edges = 0
  /\ invocations = {}
  /\ program = <<>>

-----------------------------------------------------------------------------
(* The step tree.                                                          *)

RECURSIVE StepsIn(_)
\* All steps of a body, in the order of the text.
StepsIn(body) ==
  FoldLeft(LAMBDA found, s : found \o <<s>> \o StepsIn(s.body), <<>>, body)

RECURSIVE Nesting(_)
Nesting(body) ==
  LET deeper == {Nesting(s.body) : s \in {t \in Range(body) : t.body # <<>>}}
  IN 1 + (IF deeper = {} THEN 0 ELSE CHOOSE d \in deeper : \A e \in deeper : e <= d)

isReference(s) == s.kind = "REFERENCE"
workflowReferenceSteps(body) == SelectSeq(StepsIn(body), isReference)

RECURSIVE LastFirst(_)
\* The references of a body as a stack of steps gives them: the last step first.
LastFirst(pending) ==
  IF pending = <<>> THEN <<>>
  ELSE LET s == Last(pending)
       IN (IF isReference(s) THEN <<s>> ELSE <<>>) \o LastFirst(Front(pending) \o s.body)

\* Which fields a step of a kind may carry; children only where the kind has them.
StepFits(s, root) ==
  CASE s.kind = "ACTION"     -> s.count = 0 /\ s.wait = 0 /\ s.body = <<>> /\ s.to = NoId
    [] s.kind = "WAIT"       -> s.count = 0 /\ s.wait > 0 /\ s.body = <<>> /\ s.to = NoId
    [] s.kind = "REPEAT"     -> s.count >= 1 /\ s.body # <<>> /\ s.to = NoId /\ s.node = NoNode
    [] s.kind = "REFERENCE"  -> s.count = 0 /\ s.body = <<>> /\ s.node = NoNode
    [] s.kind = "VALIDATION" -> root /\ s.body = <<>> /\ s.node # NoNode /\ s.wait > 0
    [] s.kind = "GROUP"      ->
         /\ root /\ s.node = NoNode /\ s.body # <<>> /\ s.wait > 0
         /\ \A m \in Range(s.body) : m.kind = "VALIDATION" /\ m.node # NoNode /\ m.wait = 0
    [] OTHER -> FALSE

RECURSIVE StepsFit(_, _)
StepsFit(body, root) ==
  \A s \in Range(body) :
    StepFits(s, root) /\ (s.kind = "REPEAT" => StepsFit(s.body, FALSE))

WorkflowFits(body) ==
  /\ body # <<>>
  /\ Nesting(body) <= MaxNesting
  /\ StepsFit(body, TRUE)
  /\ LET all == StepsIn(body)
     IN \A i, j \in DOMAIN all : all[i].id = all[j].id => i = j

-----------------------------------------------------------------------------
(* The shape of the plan, before its references are followed.              *)

Workflows == DOMAIN plan.steps
Entries == DOMAIN plan.entries
Roots == [i \in Entries |-> plan.entries[i].version]

\* Every entry stands for one item of the task version, in place and version.
validateTestTaskVersionItemEntries ==
  /\ Len(plan.entries) = Len(plan.items)
  /\ \A i, j \in DOMAIN plan.items : plan.items[i].id = plan.items[j].id => i = j
  /\ \A i, j \in Entries : plan.entries[i].item = plan.entries[j].item => i = j
  /\ \A e \in Range(plan.entries) :
       \E k \in DOMAIN plan.items :
         /\ plan.items[k].id = e.item
         /\ e.seq = k /\ e.version = plan.items[k].version

EntriesFit ==
  /\ plan.entries # <<>>
  /\ {e.seq : e \in Range(plan.entries)} = Entries
  /\ \A i, j \in Entries : plan.entries[i].id = plan.entries[j].id => i = j
  /\ Range(Roots) \subseteq Workflows

\* A version of a node belongs to one node.
versionOwners ==
  \A m, n \in plan.nodes : m.version = n.version => m.target = n.target

Refuse(why) ==
  /\ phase' = "refused"
  /\ verdict' = why
  /\ UNCHANGED <<plan, entry, stack, states, edges, invocations, program>>

Proceed(next) ==
  /\ phase' = next
  /\ UNCHANGED <<plan, verdict, entry, stack, states, edges, invocations, program>>

validateShape ==
  /\ phase = "shape"
  /\ IF ~validateTestTaskVersionItemEntries THEN Refuse("items")
     ELSE IF ~EntriesFit \/ ~\A w \in Workflows : WorkflowFits(plan.steps[w]) THEN Refuse("shape")
     ELSE IF ~versionOwners THEN Refuse("nodes")
     ELSE Proceed("references")

-----------------------------------------------------------------------------
(* validateReachableWorkflowReferences: a walk with an explicit stack.     *)

Frame(w, depth, exit) == [version |-> w, depth |-> depth, exit |-> exit]

\* The walk of the next entry begins, unless its workflow is done already.
NextRoot ==
  /\ phase = "references" /\ stack = <<>> /\ entry <= Len(plan.entries)
  /\ IF states[Roots[entry]] = 2
       THEN entry' = entry + 1 /\ UNCHANGED stack
       ELSE stack' = <<Frame(Roots[entry], 1, FALSE)>> /\ UNCHANGED entry
  /\ UNCHANGED <<plan, phase, verdict, states, edges, invocations, program>>

Top == Last(stack)

Pop(rest) ==
  /\ stack' = rest
  /\ UNCHANGED <<plan, phase, verdict, entry, edges, invocations, program>>

Leave ==
  /\ phase = "references" /\ stack # <<>> /\ Top.exit
  /\ states' = [states EXCEPT ![Top.version] = 2]
  /\ Pop(Front(stack))

TooDeep(frame) == frame.depth > MaxDepth

OnPath(w) == states[w] = 1

\* A version the plan does not have is met by the walk, but has no steps.
StepsOf(w) == IF w \in Workflows THEN plan.steps[w] ELSE <<>>
StateOf(w) == IF w \in Workflows THEN states[w] ELSE 0

Refused ==
  /\ phase = "references" /\ stack # <<>> /\ ~Top.exit
  /\ \/ TooDeep(Top) /\ Refuse("depth")
     \/ ~TooDeep(Top) /\ Top.version \in Workflows /\ OnPath(Top.version) /\ Refuse("cycle")

Seen ==
  /\ phase = "references" /\ stack # <<>> /\ ~Top.exit /\ ~TooDeep(Top)
  /\ StateOf(Top.version) # 0 /\ ~OnPath(Top.version)
  /\ Pop(Front(stack))
  /\ UNCHANGED states

Visit(w, children) ==
  /\ states' = IF w \in Workflows THEN [states EXCEPT ![w] = 1] ELSE states
  /\ stack' = Front(stack)
       \o (IF w \in Workflows THEN <<Frame(w, Top.depth, TRUE)>> ELSE <<>>)
       \o children

Enter ==
  /\ phase = "references" /\ stack # <<>> /\ ~Top.exit /\ ~TooDeep(Top)
  /\ StateOf(Top.version) = 0
  /\ LET w == Top.version
         found == LastFirst(StepsOf(w))
         resolved == SelectSeq(found, LAMBDA s : <<w, s.id>> \in DOMAIN plan.refs)
         children == [i \in DOMAIN resolved |->
                        Frame(plan.refs[w, resolved[i].id], Top.depth + 1, FALSE)]
     IN IF Cardinality({x \in Workflows : states[x] # 0}) >= MaxReachable
          \/ edges + Len(found) > MaxEdges
        THEN Refuse("size")
        ELSE /\ Visit(w, children)
             /\ edges' = edges + Len(found)
             /\ UNCHANGED <<plan, phase, verdict, entry, invocations, program>>

References ==
  /\ phase = "references" /\ stack = <<>> /\ entry > Len(plan.entries)
  /\ Proceed("budget")

-----------------------------------------------------------------------------
(* validateExecutionBudget: what the plan would run, saturating.           *)

Missing == [executions |-> -1, wait |-> -1]
ZeroCost == [executions |-> 0, wait |-> 0]

cappedAdd(a, b, cap) == IF a >= cap \/ b >= cap - a THEN cap ELSE a + b

cappedMultiply(a, b, cap) ==
  IF a <= 0 \/ b <= 0 THEN 0
  ELSE IF a >= cap \/ b > cap \div a THEN cap
  ELSE a * b

addCost(a, b) ==
  IF Missing \in {a, b} THEN Missing
  ELSE [executions |-> cappedAdd(a.executions, b.executions, MaxExecutions + 1),
        wait |-> cappedAdd(a.wait, b.wait, MaxWait + 1)]

multiplyCost(cost, times) ==
  IF cost = Missing THEN Missing
  ELSE [executions |-> cappedMultiply(cost.executions, times, MaxExecutions + 1),
        wait |-> cappedMultiply(cost.wait, times, MaxWait + 1)]

overBudget(cost) == cost.executions > MaxExecutions \/ cost.wait > MaxWait

RECURSIVE stepsCost(_, _)
\* The cost of a body; the sum stops where it is over the budget.
stepsCost(w, body) ==
  LET stepCost(s) ==
        LET own == [executions |-> 1, wait |-> s.wait]
            child == <<w, s.id>>
        IN CASE s.kind = "GROUP"  -> addCost(own, stepsCost(w, s.body))
             [] s.kind = "REPEAT" -> addCost(own, multiplyCost(stepsCost(w, s.body), s.count))
             [] isReference(s)    ->
                  IF child \notin DOMAIN plan.refs \/ plan.refs[child] \notin Workflows
                    THEN Missing
                    ELSE addCost(own, stepsCost(plan.refs[child], plan.steps[plan.refs[child]]))
             [] OTHER -> own
  IN FoldLeft(LAMBDA sum, s : IF sum = Missing \/ overBudget(sum) THEN sum
                              ELSE addCost(sum, stepCost(s)), ZeroCost, body)

workflowCost(w) == stepsCost(w, plan.steps[w])

validateExecutionBudget ==
  /\ phase = "budget"
  /\ LET costs == [i \in Entries |-> workflowCost(Roots[i])]
         total == FoldLeft(addCost, ZeroCost, costs)
     IN IF Missing \in Range(costs) THEN Refuse("missing")
        ELSE IF overBudget(total) THEN Refuse("budget")
        ELSE Proceed("dependencies")

-----------------------------------------------------------------------------
(* validateDependencies: nodes, and resolutions one by one.                *)

StepKeys(w) == {<<w, s.id>> : s \in Range(workflowReferenceSteps(plan.steps[w]))}

DependenciesHold(w) ==
  \A s \in Range(StepsIn(plan.steps[w])) :
    /\ s.node # NoNode => s.node \in plan.nodes
    /\ isReference(s) =>
         /\ <<w, s.id>> \in DOMAIN plan.refs
         /\ plan.refs[w, s.id] = s.to
         /\ s.to \in Workflows

Leftover == DOMAIN plan.refs \ UNION {StepKeys(w) : w \in Workflows}

validateDependencies ==
  /\ phase = "dependencies"
  /\ IF ~\A w \in Workflows : DependenciesHold(w) THEN Refuse("dependency")
     ELSE IF Leftover # {} THEN Refuse("leftover")
     ELSE Proceed("invocations")

-----------------------------------------------------------------------------
(* validateSnapshot: the invocations against the plan.                     *)

NoPath == <<>>
ByPath(given, path) == CHOOSE v \in given : v.path = path

RootHolds(v) ==
  /\ v.from = NoId /\ v.step = NoId
  /\ \E i \in Entries : v.path = <<plan.entries[i].id>> /\ v.to = plan.entries[i].version

\* Mutant: the path of a call site need not be that of its parent and step.
AnyPath(given, v) ==
  /\ \E p \in given : p.path = v.parent
  /\ LET edge == <<v.from, v.step>> IN
     /\ edge \in DOMAIN plan.refs
     /\ ByPath(given, v.parent).to = v.from
     /\ plan.refs[edge] = v.to

ChildHolds(given, v) ==
  /\ \E p \in given : p.path = v.parent
  /\ v.path = Append(v.parent, v.step)
  /\ LET edge == <<v.from, v.step>> IN
     /\ edge \in DOMAIN plan.refs
     /\ ByPath(given, v.parent).to = v.from
     /\ plan.refs[edge] = v.to

OneChildPerEdge(given) ==
  \A p \in given : \A s \in Range(workflowReferenceSteps(plan.steps[p.to])) :
    Cardinality({v \in given : v.parent = p.path /\ v.step = s.id}) = 1

InvocationsHold(given) ==
  /\ \A u, v \in given : u.path = v.path => u = v
  /\ \A v \in given : IF v.parent = NoPath THEN RootHolds(v) ELSE ChildHolds(given, v)
  /\ Cardinality({v \in given : v.parent = NoPath}) = Len(plan.entries)
  /\ OneChildPerEdge(given)

validateSnapshot ==
  /\ phase = "invocations"
  /\ \E given \in Forgeries(plan) :
       IF InvocationsHold(given)
         THEN /\ invocations' = given
              /\ phase' = "sealed"
              /\ UNCHANGED <<plan, verdict, entry, stack, states, edges, program>>
         ELSE Refuse("invocation")

-----------------------------------------------------------------------------
(* CompilePlan: one program per entry, the count of steps shared.          *)

Empty(count) == [count |-> count, ids |-> <<>>, specs |-> {}, error |-> NoId]
Fails(out, why) == [out EXCEPT !.error = why]

\* The specification of a node is kept under its version.
spec(out, node) ==
  IF node = NoNode THEN out
  ELSE IF node \notin plan.nodes THEN Fails(out, "node")
  ELSE IF \E m \in out.specs : m.version = node.version /\ m.target # node.target
    THEN Fails(out, "sharedVersion")
  ELSE [out EXCEPT !.specs = @ \union {node}]

childPath(path, s, w) == path \o <<s.id, w>>

RECURSIVE compileWorkflow(_, _, _, _, _), compileSteps(_, _, _, _, _, _)

compileWorkflow(out, w, path, scope, depth) ==
  IF depth > MaxDepth THEN Fails(out, "depth")
  ELSE IF w \notin Workflows THEN Fails(out, "missing")
  ELSE compileSteps([out EXCEPT !.ids = Append(@, <<"workflow", path>>)],
                    plan.steps[w], w, path, scope, depth)

\* The call of a referenced workflow needs its one invocation.
compileWorkflowCall(out, s, w, path, scope, depth) ==
  LET concrete == {v \in invocations : v.parent = scope /\ v.step = s.id}
      target == plan.refs[w, s.id]
  IN IF <<w, s.id>> \notin DOMAIN plan.refs THEN Fails(out, "resolution")
     ELSE IF concrete = {} THEN Fails(out, "invocation")
     ELSE compileWorkflow(out, target, childPath(path, s, target),
                          (CHOOSE v \in concrete : TRUE).path, depth + 1)

compileSteps(out, body, w, path, scope, depth) ==
  LET compileStep(sofar, s) ==
        LET counted == [sofar EXCEPT !.count = @ + 1, !.ids = Append(@, <<"step", path, s.id>>)]
        IN IF sofar.error # NoId THEN sofar
           ELSE IF counted.count > MaxExecutions THEN Fails(sofar, "nodes")
           ELSE IF isReference(s) THEN compileWorkflowCall(counted, s, w, path, scope, depth)
           ELSE compileSteps(spec(counted, s.node), s.body, w, path, scope, depth)
  IN FoldLeft(compileStep, out, body)

compileEntry(i, count) ==
  LET e == plan.entries[i]
  IN compileWorkflow(Empty(count), e.version, <<e.id>>, <<e.id>>, 1)

CompilePlan ==
  /\ phase = "sealed"
  /\ IF Len(program) < Len(plan.entries)
       THEN LET sofar == IF program = <<>> THEN 0 ELSE Last(program).count
                next == compileEntry(Len(program) + 1, sofar)
            IN /\ program' = Append(program, next)
               /\ phase' = IF next.error = NoId THEN "sealed" ELSE "uncompiled"
       ELSE program' = program /\ phase' = "compiled"
  /\ UNCHANGED <<plan, verdict, entry, stack, states, edges, invocations>>

Next ==
  \/ validateShape
  \/ NextRoot \/ Leave \/ Refused \/ Seen \/ Enter \/ References
  \/ validateExecutionBudget
  \/ validateDependencies
  \/ validateSnapshot
  \/ CompilePlan

Spec == Init /\ [][Next]_vars

-----------------------------------------------------------------------------
(* What the plan means, without a walk, a memory or a limit.               *)

Phases == <<"shape", "references", "budget", "dependencies", "invocations", "sealed",
            "compiled">>
Past(p) ==
  \E i, j \in DOMAIN Phases :
    /\ i < j /\ Phases[i] = p
    /\ Phases[j] = IF phase = "uncompiled" THEN "compiled" ELSE phase

Calls(w) == {plan.refs[k] : k \in StepKeys(w) \intersect DOMAIN plan.refs} \intersect Workflows

RECURSIVE Reached(_)
Reached(from) ==
  LET more == from \union UNION {Calls(w) : w \in from}
  IN IF more = from THEN from ELSE Reached(more)

\* The versions of the chains of calls of a length that start at a root.
RECURSIVE AtDepth(_)
AtDepth(d) == IF d = 1 THEN Range(Roots) ELSE UNION {Calls(w) : w \in AtDepth(d - 1)}

RECURSIVE Runs(_, _, _)
\* Each run of a step, told apart by the calls and the rounds that lead to it.
Runs(w, body, path) ==
  UNION {{<<Append(path, <<s.id, 0>>), s.wait>>} \union
         (IF isReference(s)
            THEN LET to == plan.refs[w, s.id]
                 IN Runs(to, plan.steps[to], Append(path, <<s.id, 0>>))
            ELSE UNION {Runs(w, s.body, Append(path, <<s.id, round>>)) :
                          round \in 1..(IF s.kind = "REPEAT" THEN s.count ELSE 1)})
        : s \in Range(body)}

AllRuns ==
  UNION {Runs(e.version, plan.steps[e.version], <<<<e.id, 0>>>>) : e \in Range(plan.entries)}

RECURSIVE Expansion(_, _)
Expansion(w, path) ==
  UNION {LET to == plan.refs[w, s.id]
             here == Append(path, s.id)
         IN {[path |-> here, parent |-> path, from |-> w, step |-> s.id, to |-> to]}
              \union Expansion(to, here)
        : s \in Range(workflowReferenceSteps(plan.steps[w]))}

RootInvocation(e) ==
  [path |-> <<e.id>>, parent |-> NoPath, from |-> NoId, step |-> NoId, to |-> e.version]

ExactInvocations ==
  UNION {{RootInvocation(e)} \union Expansion(e.version, <<e.id>>) : e \in Range(plan.entries)}

-----------------------------------------------------------------------------
(* Properties.                                                             *)

TypeOK ==
  /\ phase \in Range(Phases) \union {"refused", "uncompiled"}
  /\ (verdict = NoId) = (phase # "refused")
  /\ states \in [Workflows -> 0..2]
  /\ \A i \in DOMAIN stack : stack[i].depth \in 1..(MaxDepth + 1)

\* What the walk lets through has no workflow that calls itself, over however many
\* others: the compiler and the cost would not end on it.
AcceptedIsAcyclic ==
  Past("references") =>
    \A w \in Reached(Range(Roots)) : w \notin Reached(Calls(w))

\* A plan is refused for a cycle only if there is one: a workflow that two others
\* call, or that one calls twice, is none.
CycleIsReal ==
  verdict = "cycle" => \E w \in Reached(Range(Roots)) : w \in Reached(Calls(w))

\* A plan is refused for its depth only if some chain of calls is longer than allowed.
DepthIsReal == verdict = "depth" => AtDepth(MaxDepth + 1) # {}

\* The saturating cost, which stops early, refuses exactly the plans that would run
\* more steps, or wait longer, than allowed.
BudgetIsExact ==
  phase = "dependencies" \/ verdict = "budget" =>
    LET runs == AllRuns
        waits == MapThenSumSet(LAMBDA r : r[2], runs)
    IN (verdict = "budget") <=> (Cardinality(runs) > MaxExecutions \/ waits > MaxWait)

\* The recorded resolutions are those of the reference steps: one for each, none for
\* anything else, and the version that the step itself pins.
ResolutionsAreExact ==
  Past("dependencies") =>
    /\ DOMAIN plan.refs = UNION {StepKeys(w) : w \in Workflows}
    /\ \A w \in Workflows : \A s \in Range(workflowReferenceSteps(plan.steps[w])) :
         plan.refs[w, s.id] = s.to

\* The checks look at one invocation, its parent and its edge at a time; what passes
\* them is the whole tree of call sites of every entry, and nothing else.
InvocationsAreTheExpansion ==
  Past("invocations") => invocations = ExactInvocations

\* A sealed plan compiles, but for one check that the compiler makes in another way.  (The
\* compiler also refuses an environment variable that collides with a parameter of the
\* root, compiler.go:188; neither is in these plans.)
CompileRefusesOnlyDepth ==
  phase = "uncompiled" => Last(program).error = "depth"

\* Within an entry no two steps or workflow calls share a runtime identity, under which
\* their facts and evidence are recorded.
IdentitiesAreDistinct ==
  \A i \in DOMAIN program : IsInjective(program[i].ids)

\* A plan that is judged and compiled is what its graph of calls means (validation.go,
\* budget.go, instance_snapshot.go, compiler.go).
PlanIsExact ==
  /\ TypeOK
  /\ AcceptedIsAcyclic /\ CycleIsReal /\ DepthIsReal /\ BudgetIsExact
  /\ ResolutionsAreExact /\ InvocationsAreTheExpansion
  /\ CompileRefusesOnlyDepth /\ IdentitiesAreDistinct
=============================================================================
