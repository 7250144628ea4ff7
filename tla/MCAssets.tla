------------------------------- MODULE MCAssets -------------------------------
(* Small instances of how assets are kept: the services of stored assets           *)
(* (AssetServices) and the publication of a recording against editors of the same *)
(* targets (SamplingPublication). They are checked side by side and share          *)
(* nothing: `part` says which of them moves.                                       *)
EXTENDS AssetServices, SamplingPublication

\* An environment, a fragment and a flow that is not there yet.
MCKindOf == ("env" :> "ENVIRONMENT") @@ ("frag" :> "FRAGMENT") @@ ("flow" :> "FLOW")
MCFirst == ("env" :> NewEnvironment("env", 1).value)
        @@ ("frag" :> NewElementTarget("frag", "v1", 1).value)
        @@ ("flow" :> Absent)

Request(asset, op, version, at) == [asset |-> asset, op |-> op, version |-> version, at |-> at]
Versioned(q) == q.op \in {"PUBLISH", "CREATE"} /\ KindOf[q.asset] # "ENVIRONMENT"
MCRequests ==
  {q \in {Request(x, op, v, at) : x \in Assets, op \in UNION {OpsOf(k) : k \in Kinds},
                                  v \in {None, "v1", "v2", "v3"}, at \in {1, 2}} :
     /\ q.op \in OpsOf(KindOf[q.asset])
     /\ Versioned(q) <=> q.version # None
     /\ q.op = "CREATE" => q.at = 1 /\ q.version \in {None, "v1"}}

--------------------------------------------------------------------------------
(* Publications: one creates a target and adds a version to another, one reuses   *)
(* that other; only the latter is stored at first.                                *)
Node(temp, mode, target, version) == [temp |-> temp, mode |-> mode, target |-> target, version |-> version]
Publication(flow, nodes) == [flow |-> flow, version |-> flow, nodes |-> nodes]
MCPlan == ("p1" :> Publication("f1", <<Node("x", "CREATE", "n2", "a"), Node("y", "MERGE", "n1", "b")>>))
       @@ ("p2" :> Publication("f2", <<Node("x", "REUSE", "n1", "v1")>>))
MCTargets == ("n1" :> NewElementTarget("n1", "v1", 1).value) @@ ("n2" :> NoTarget)

\* Which caller makes a call does not matter.
Alike == Permutations(Callers) \union Permutations(Publishers)

--------------------------------------------------------------------------------
VARIABLE part
allVars == <<part, vars, publicationVars>>

PartInit == part \in {"services", "publication"} /\ Init /\ PublicationInit
PartNext ==
  \/ part = "services" /\ Next /\ UNCHANGED <<part, publicationVars>>
  \/ part = "publication" /\ PublicationNext /\ UNCHANGED <<part, vars>>
PartSpec == PartInit /\ [][PartNext]_allVars
================================================================================
