------------------------------- MODULE MCPlans --------------------------------
(* Small instances of how a task becomes a plan and how the plan is driven: the  *)
(* resolved flows (FlowClosure, FlowFreezing), the frozen plans, once for every   *)
(* graph and once spoilt in one respect (InstancePlan), and the answers that the  *)
(* scheduler scans (AdvanceScan). They are checked side by side and share         *)
(* nothing: `part` says which of them moves, the others rest in a first state.    *)
EXTENDS FlowFreezing, SequencesExt, TLC

(* Flows: every graph over two versions of one fragment and one of another, as an *)
(* honest resolver supplies it, and each spoilt in one respect.                   *)
CONSTANTS a, b, a1, a2, b1, n1, n2

FragmentOf(v) == IF v = b1 THEN b ELSE a
Step(id, node, to) == [id |-> id, node |-> node, to |-> to]
Fixed(v) == [fragment |-> FragmentOf(v), version |-> v, fits |-> TRUE]
Latest(f) == [fragment |-> f, version |-> None, fits |-> TRUE]
Use(id, node) == Step(id, node, NoReference)
Call(id, to) == Step(id, None, to)

Bodies(targets) ==
  {<<>>, <<Use("s1", n1)>>}
    \union {<<Call("s1", to)>> : to \in targets}
    \union {<<Call("s1", x), Call("s2", y)>> : x, y \in targets}

Listed(S) == FoldSet(LAMBDA x, list : Append(list, x), <<>>, S)

\* The latest version of fragment a is a2 here.
Resolved(to) == IF to.version = None THEN IF to.fragment = a THEN a2 ELSE b1 ELSE to.version
Honest(steps, items) ==
  LET keys == {<<v, s>> \in (DOMAIN steps) \X UNION {Elements(steps[v]) : v \in DOMAIN steps} :
                 s \in Elements(steps[v]) /\ s.to # NoReference}
  IN [number |-> 1, source |-> None, expected |-> 0,
      items |-> items,
      workflows |-> Listed({[fragment |-> FragmentOf(v), version |-> v, latest |-> v # a1] : v \in DOMAIN steps}),
      steps |-> steps,
      nodes |-> Listed(UNION {{s.node : s \in Elements(steps[v])} : v \in DOMAIN steps} \ {None}),
      references |-> Listed({[parent |-> k[1], step |-> k[2].id, fragment |-> k[2].to.fragment,
                                version |-> Resolved(k[2].to), latest |-> k[2].to.version = None] : k \in keys})]

Items == {<<Fixed(a1)>>, <<Latest(a)>>, <<Latest(b), Fixed(a1)>>, <<Latest(a), Fixed(a2)>>}
Graphs ==
  {[v \in {a1, a2, b1} |-> CASE v = a1 -> x [] v = a2 -> y [] v = b1 -> z] :
     x \in Bodies({Fixed(a1), Fixed(a2), Latest(a), Latest(b)}),
     y \in Bodies({Fixed(a1), Latest(b)}), z \in Bodies({Fixed(a2), Latest(a)})}
Part(steps, vs) == [v \in vs |-> steps[v]]
Whole ==
  {Honest(g, i) : g \in Graphs, i \in Items}
    \union {Honest(Part(g, {a2, b1}), <<Latest(a)>>) : g \in Graphs}

Base == Honest([v \in {a1, a2, b1} |->
                  CASE v = a1 -> <<Use("s1", n1), Call("s2", Latest(b))>>
                    [] v = a2 -> <<Call("s1", Fixed(a1)), Call("s2", Latest(b)), Use("s3", n2)>>
                    [] v = b1 -> <<Use("s1", n1)>>], <<Latest(a), Fixed(a1)>>)
Spoilt(f) ==
  {[f EXCEPT !.workflows = RemoveAt(@, k)] : k \in DOMAIN f.workflows}
    \union {[f EXCEPT !.references = RemoveAt(@, k)] : k \in DOMAIN f.references}
    \union {[f EXCEPT !.nodes = RemoveAt(@, k)] : k \in DOMAIN f.nodes}
    \union {[f EXCEPT !.workflows[k].latest = ~@] : k \in DOMAIN f.workflows}
    \union {[f EXCEPT !.workflows[k].fragment = b] : k \in DOMAIN f.workflows}
    \union {[f EXCEPT !.references[k].latest = ~@] : k \in DOMAIN f.references}
    \union {[f EXCEPT !.references[k].version = v] : k \in DOMAIN f.references, v \in {a1, a2, b1, None}}
    \union {[f EXCEPT !.references[k].fragment = b] : k \in DOMAIN f.references}
    \union {[f EXCEPT !.items[k].fits = FALSE] : k \in DOMAIN f.items}
    \union {[f EXCEPT !.items = RemoveAt(@, k)] : k \in DOMAIN f.items}
    \union {[f EXCEPT !.workflows = Append(@, f.workflows[k])] : k \in DOMAIN f.workflows}
    \union {[f EXCEPT !.workflows = Append(@, [f.workflows[k] EXCEPT !.fragment = "c"])] : k \in DOMAIN f.workflows}
    \union {[f EXCEPT !.references = Append(@, f.references[k])] : k \in DOMAIN f.references}
    \union {[f EXCEPT !.references = Append(@, [f.references[k] EXCEPT !.step = "s9"])] : k \in DOMAIN f.references}
    \union {[f EXCEPT !.nodes = Append(@, n)] : n \in {n1, n2, "n3"}}
    \union {[f EXCEPT !.steps[a1] = Append(@, Call("s2", Latest(b)))],
            [f EXCEPT !.steps[a1][2].to.fits = FALSE],
            [f EXCEPT !.expected = 1], [f EXCEPT !.number = 2],
            [f EXCEPT !.number = 2, !.expected = 1, !.source = "v1"]}

AllFlows == Whole \union {Base} \union Spoilt(Base) \union UNION {Spoilt(f) : f \in Spoilt(Base)}

--------------------------------------------------------------------------------
(* Plans.                                                                         *)
N1 == [target |-> "n1", version |-> "v1"]
N2 == [target |-> "n2", version |-> "v1"]

Node(id, kind) ==
  [id |-> id, kind |-> kind, count |-> 0, wait |-> 0, to |-> P!NoId, node |-> NoNode, body |-> <<>>]
Act(id) == [Node(id, "ACTION") EXCEPT !.node = N1]
Wait(id) == [Node(id, "WAIT") EXCEPT !.wait = 2]
Ref(id, w) == [Node(id, "REFERENCE") EXCEPT !.to = w]
Loop(id, n, body) == [Node(id, "REPEAT") EXCEPT !.count = n, !.body = body]
Check(id) == [Node(id, "VALIDATION") EXCEPT !.node = N1, !.wait = 1]
Group(id) == [Node(id, "GROUP") EXCEPT !.wait = 1,
                !.body = <<[Check("m1") EXCEPT !.wait = 0], [Check("m2") EXCEPT !.wait = 0]>>]

Three == {"w1", "w2", "w3"}
PlanBodies(callees) ==
  {<<Act("s1")>>}
    \union {<<Ref("s1", x)>> : x \in callees}
    \union {<<Loop("s1", 2, <<Ref("s2", x), Act("s3")>>)>> : x \in callees}
    \union {<<Ref("s1", x), Ref("s2", y)>> : x \in callees, y \in callees}

\* The resolutions that the references of the steps ask for.
ResolvedIn(steps) ==
  LET keys == UNION {{<<w, s.id>> : s \in Range(P!workflowReferenceSteps(steps[w]))} : w \in DOMAIN steps}
  IN [k \in keys |-> (CHOOSE s \in Range(P!StepsIn(steps[k[1]])) : s.id = k[2]).to]

EntryOf(k, w) == [id |-> IF k = 1 THEN "e1" ELSE "e2", item |-> IF k = 1 THEN "i1" ELSE "i2",
                  seq |-> k, version |-> w]
Plan(steps, roots) ==
  [entries |-> [k \in DOMAIN roots |-> EntryOf(k, roots[k])],
   items |-> [k \in DOMAIN roots |-> [id |-> EntryOf(k, roots[k]).item, version |-> roots[k]]],
   steps |-> steps, refs |-> ResolvedIn(steps), nodes |-> {N1}]

\* Every graph of three workflows over these bodies, from one or two entries.
GraphPlans ==
  {Plan([w1 |-> x, w2 |-> y, w3 |-> z], roots) :
     x \in PlanBodies(Three), y \in PlanBodies({"w1", "w3"}),
     z \in {<<Act("s1")>>, <<Wait("s1")>>, <<Check("s1"), Group("s2")>>, <<Ref("s1", "w1")>>},
     roots \in {<<"w1">>, <<"w2", "w1">>}}

ExactTree(p) ==
  LET RECURSIVE From(_, _)
      From(w, path) ==
        UNION {{[path |-> Append(path, s.id), parent |-> path, from |-> w, step |-> s.id,
                 to |-> p.refs[w, s.id]]} \union From(p.refs[w, s.id], Append(path, s.id))
              : s \in Range(P!workflowReferenceSteps(p.steps[w]))}
  IN UNION {{P!RootInvocation(e)} \union From(e.version, <<e.id>>) : e \in Range(p.entries)}
OnlyHonest(p) == {ExactTree(p)}

\* Two plans with calls, and every way to spoil their parts.
TwoCalls == Plan([w1 |-> <<Ref("s1", "w2"), Act("s3"), Ref("s2", "w2")>>,
              w2 |-> <<Loop("s1", 2, <<Act("s2")>>)>>], <<"w1", "w2">>)
Chain == Plan([w1 |-> <<Ref("s1", "w2")>>, w2 |-> <<Ref("s1", "w3")>>, w3 |-> <<Act("s1")>>],
              <<"w1">>)
Without(f, k) == [x \in DOMAIN f \ {k} |-> f[x]]
SpoiltPlan(p) ==
  {p} \union {[p EXCEPT !.refs = Without(p.refs, k)] : k \in DOMAIN p.refs}
      \union {[p EXCEPT !.refs = @ @@ (<<"w1", "s9">> :> "w2")],
              [p EXCEPT !.refs["w1", "s1"] = "w1"],
              [p EXCEPT !.refs["w1", "s1"] = "w9"],
              [p EXCEPT !.nodes = {}],
              [p EXCEPT !.nodes = {N1, N2}],
              [p EXCEPT !.nodes = {N1, N2}, !.steps.w1 = Append(@, [Act("s4") EXCEPT !.node = N2])],
              [p EXCEPT !.steps.w1 = Append(@, Act("s1"))],
              [p EXCEPT !.steps.w1 = Append(@, Loop("s4", 1, <<Check("s5")>>))],
              [p EXCEPT !.steps.w1 = Append(@, Loop("s4", 1, <<Loop("s5", 1, <<Act("s6")>>)>>))],
              [p EXCEPT !.steps.w1 = <<>>],
              [p EXCEPT !.items = <<>>],
              [p EXCEPT !.entries[1].version = "w2"],
              [p EXCEPT !.entries = Reverse(@)]}
SpoiltPlans == SpoiltPlan(TwoCalls) \union SpoiltPlan(Chain)

\* Invocation sets: the exact one, it without some, and it with one more or another.
Paths == {<<"e1">>, <<"e1", "s1">>, <<"e1", "s2">>, <<"e1", "s1", "s1">>, <<"e9">>}
Forged(q) ==
  LET honest == ExactTree(q)
      stray == [path : Paths, parent : Paths \union {P!NoPath}, from : {P!NoId, "w1", "w2"},
                step : {P!NoId, "s1", "s2"}, to : {"w1", "w2", "w3"} \intersect DOMAIN q.steps]
  IN SUBSET honest
       \union {honest \union {v} : v \in stray}
       \union {(honest \ {P!ByPath(honest, v.path)}) \union {v} :
                 v \in {u \in stray : \E h \in honest : h.path = u.path}}
       \union {(honest \ {h}) \union {[h EXCEPT !.path = p]} : h \in honest, p \in Paths}

VARIABLES plan, phase, planVerdict, entry, planStack, states, edges, invocations, program
planVars == <<plan, phase, planVerdict, entry, planStack, states, edges, invocations, program>>

\* Every graph of calls, with its own tree of invocations, under tight limits.
Graph == INSTANCE InstancePlan WITH
  Plans <- GraphPlans, Forgeries <- OnlyHonest, MaxNesting <- 2, MaxDepth <- 2, MaxReachable <- 3,
  MaxEdges <- 4, MaxExecutions <- 9, MaxWait <- 5, verdict <- planVerdict, stack <- planStack
\* Two plans spoilt in one respect, with forged invocations.
Tree == INSTANCE InstancePlan WITH
  Plans <- SpoiltPlans, Forgeries <- Forged, MaxNesting <- 2, MaxDepth <- 3, MaxReachable <- 3,
  MaxEdges <- 4, MaxExecutions <- 12, MaxWait <- 5, verdict <- planVerdict, stack <- planStack

--------------------------------------------------------------------------------
(* Answers of the entry store, scanned and driven on.                             *)
VARIABLES policy, loaded
scanVars == <<policy, loaded>>
Scan == INSTANCE AdvanceScan WITH N <- 3, Causes <- {"PRIOR_FAILURE", "PRIOR_ABORT"}

--------------------------------------------------------------------------------
VARIABLE part
allVars == <<part, vars, planVars, scanVars>>

\* A flow, a plan and an answer that wait for their part.
FlowAtRest ==
  /\ flow = Base /\ pc = "shape" /\ verdict = None
  /\ item = 1 /\ stack = <<>> /\ finished = <<>> /\ usedReferences = {} /\ usedNodes = {}
PlanAtRest ==
  /\ plan = Chain /\ phase = "shape" /\ planVerdict = P!NoId /\ entry = 1 /\ planStack = <<>>
  /\ states = [w \in DOMAIN plan.steps |-> 0] /\ edges = 0 /\ invocations = {} /\ program = <<>>
ScanAtRest == policy = (CHOOSE p \in Scan!Policies : TRUE) /\ loaded = <<>>

PartInit ==
  /\ part \in {"flow", "graph", "tree", "scan"}
  /\ IF part = "flow" THEN Init ELSE FlowAtRest
  /\ CASE part = "graph" -> Graph!Init [] part = "tree" -> Tree!Init [] OTHER -> PlanAtRest
  /\ IF part = "scan" THEN Scan!Init ELSE ScanAtRest
FlowStep == part = "flow" /\ Next /\ UNCHANGED <<part, planVars, scanVars>>
GraphStep == part = "graph" /\ Graph!Next /\ UNCHANGED <<part, vars, scanVars>>
TreeStep == part = "tree" /\ Tree!Next /\ UNCHANGED <<part, vars, scanVars>>
ScanStep == part = "scan" /\ Scan!Next /\ UNCHANGED <<part, vars, planVars>>
PartNext == FlowStep \/ GraphStep \/ TreeStep \/ ScanStep
PartSpec == PartInit /\ [][PartNext]_allVars /\ WF_allVars(ScanStep)

--------------------------------------------------------------------------------
\* What is accepted, frozen, sealed and compiled is exactly what the graph of calls
\* asks for (VerdictIsClosure, FrozenPlanHolds; InstancePlan: validation.go,
\* budget.go, compiler.go).
PlansAreExact ==
  /\ VerdictIsClosure /\ FrozenPlanHolds
  /\ part = "graph" => Graph!PlanIsExact
  /\ part = "tree" => Tree!PlanIsExact
\* The scan means the serial shape (AdvanceScan: scheduling/decision.go).
ScanMeansShape == Scan!ScanMeansShape
\* Every accepted answer is driven to its end (AdvanceScan: scheduling/decision.go).
AcceptedIsDrivenToTheEnd == Scan!AcceptedIsDrivenToTheEnd
================================================================================
