----------------------------- MODULE FlowFreezing ------------------------------
(* An accepted execution flow is frozen into a plan (application/scheduling     *)
(* plan_mapper.go, buildExecutionDraft) and the plan is judged anew by rules of *)
(* its own (domain/execution validation.go, here InstancePlan). This module     *)
(* maps the one to the other.                                                   *)
EXTENDS FlowClosure

NoNode == [target |-> "none", version |-> "none"]
NodeOf(node) == IF node = None THEN NoNode ELSE [target |-> node, version |-> node]

mapStep(v, s) ==
  [id |-> s.id, kind |-> IF s.to = NoReference THEN "ACTION" ELSE "REFERENCE",
   count |-> 0, wait |-> 0, body |-> <<>>, node |-> NodeOf(s.node),
   to |-> IF s.to = NoReference THEN "none" ELSE s.to.version]
mapSteps(v) == [k \in DOMAIN flow.steps[v] |-> mapStep(v, flow.steps[v][k])]
mapReferences == [k \in StepKeys |-> Resolution(k).version]

\* Every reference step names the version it was resolved to.
applyReferenceResolutions(v, steps) ==
  [k \in DOMAIN steps |->
     IF steps[k].kind = "REFERENCE" THEN [steps[k] EXCEPT !.to = mapReferences[v, steps[k].id]]
     ELSE steps[k]]

\* One entry per item, with the version its policy selects.
Entry(k) == [id |-> k, item |-> k, seq |-> k, version |-> Root(flow.items[k])]
Draft ==
  [entries |-> [k \in DOMAIN flow.items |-> Entry(k)],
   items |-> [k \in DOMAIN flow.items |-> [id |-> k, version |-> Root(flow.items[k])]],
   steps |-> [v \in Versions |-> applyReferenceResolutions(v, mapSteps(v))],
   refs |-> mapReferences,
   nodes |-> {NodeOf(n) : n \in Nodes}]

P == INSTANCE InstancePlan WITH
       Plans <- {}, Forgeries <- LAMBDA p : {}, MaxNesting <- 16, MaxDepth <- 16,
       MaxReachable <- 64, MaxEdges <- 64, MaxExecutions <- 64, MaxWait <- 64,
       plan <- Draft, phase <- pc, entry <- 1, states <- <<>>, edges <- 0,
       invocations <- {}, program <- <<>>

\* What the execution flow accepts, the plan accepts too, as far as it speaks of
\* dependencies: entries, nodes and references fit, and no resolution is left over
\* (validateDependencies and validateTestTaskVersionItemEntries after Validate).
FrozenPlanHolds ==
  verdict = "OK" =>
    /\ P!EntriesFit /\ P!validateTestTaskVersionItemEntries
    /\ \A v \in Versions : P!DependenciesHold(v)
    /\ P!Leftover = {}
================================================================================
