------------------------------ MODULE MCEntryRun ------------------------------
(* Small instances of the two models of one entry's run: the executor around a *)
(* row of leaves (EntryRun), and the tree of nodes with its occurrence numbers *)
(* and selector overlay (NodeRun).  They are checked side by side and share    *)
(* nothing: `part` says which of the two moves, the other rests where it began.*)
EXTENDS EntryRun, NodeRun

(* The tree has every kind of node: a navigation, a repeat around an optional  *)
(* step and around a call that has no identity of its own, a validation.       *)
MCNodes == {"root", "go", "twice", "maybe", "call", "target", "fill", "check", "rest"}

MCKindOf ==
  [root |-> "workflow", go |-> "direct", twice |-> "repeat", maybe |-> "step",
   call |-> "call", target |-> "workflow", fill |-> "step",
   check |-> "validation", rest |-> "wait"]

MCIdOf == [n \in MCNodes |-> IF n = "call" THEN "target" ELSE n]

MCChildrenOf ==
  [root |-> <<"go", "twice", "check">>, twice |-> <<"maybe", "call">>,
   call |-> <<"target">>, target |-> <<"fill", "rest">>]

MCTimesOf == [n \in MCNodes |-> IF n = "twice" THEN 2 ELSE 1]

MCSpecOf == [maybe |-> "m", fill |-> "s", check |-> "s"]
MCCanonical == [m |-> <<"a">>, s |-> <<"a", "b", "b">>]

\* The tree is one that the compiler makes (NodeRun).
ASSUME TreeAssumption == Compiled

VARIABLE part

RunInit ==
  /\ Init /\ NodeInit
  /\ part \in {"entry", "nodes"}
  /\ part = "nodes" => setup = [recorder |-> FALSE, timeline |-> FALSE, observer |-> FALSE]

EntryStep == part = "entry" /\ Next /\ UNCHANGED <<part, nodeVars>>
NodeStep == part = "nodes" /\ NodeNext /\ UNCHANGED <<part, vars>>
EntryOver == part = "entry" /\ pc = "done" /\ UNCHANGED <<part, vars, nodeVars>>

RunNext == EntryStep \/ NodeStep \/ EntryOver
RunSpec == RunInit /\ [][RunNext]_<<part, vars, nodeVars>>
===============================================================================
