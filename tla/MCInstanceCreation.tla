-------------------------- MODULE MCInstanceCreation --------------------------
(* Two scenes of InstanceCreation: three callers with a store and a         *)
(* resolver that keep their promises, whose transaction may fail, and three *)
(* with one that breaks one of them.                                        *)
EXTENDS InstanceCreation

\* Three items: two follow the current version of one flow fragment, one is fixed.
ThreeItems == <<[id |-> "i1", flow |-> "f", policy |-> "LATEST", version |-> 0],
                [id |-> "i2", flow |-> "f", policy |-> "LATEST", version |-> 0],
                [id |-> "i3", flow |-> "f", policy |-> "FIXED", version |-> 1]>>

\* The second version of the flow fragment declares another parameter.
TwoDefaults == [f \in {"f"}, v \in 1..2 |->
                 IF v = 1 THEN [p |-> "default"] ELSE [p |-> "default", q |-> "default"]]
TwoLegal == [f \in {"f"}, v \in 1..2 |->
              IF v = 1 THEN [p |-> {"x", "default"}] ELSE [p |-> {"x", "default"}, q |-> {"default"}]]

Nothing == [n \in {} |-> None]
Given(value) == [p |-> value]
Create(command, instance, policy, value) ==
  [command |-> command, instance |-> instance, task |-> "t", environment |-> "e",
   policy |-> policy, size |-> "fits", shape |-> "wellformed",
   entries |-> [i1 |-> Given(value), i2 |-> Nothing, i3 |-> Nothing]]

\* Two spellings of one request, another request under the same identity, and the
\* same instance under another identity.
FiveCommands == ("a" :> Create("K1", "I1", "", "x"))
            @@ ("b" :> Create("K1", "I1", "STOP_ON_FAILURE", "x"))
            @@ ("c" :> Create("K1", "I1", "CONTINUE_ON_FAILURE", "x"))
            @@ ("d" :> Create("K2", "I1", "STOP_ON_FAILURE", "x"))
            @@ ("e" :> [Create("K3", "I2", "", "x") EXCEPT !.size = "over"])

\* The callers of a scene; its transaction fails only where it keeps its promises.
Cast == IF faithful THEN {"a", "b", "c"} ELSE {"a", "d", "e"}

MCNext ==
  \/ \E c \in Cast : CallStep(c) \/ Retry(c)
  \/ \E c \in Cast : faithful /\ (CallbackFails(c) \/ CommitFails(c))
  \/ \E f \in Flows : PublishVersion(f)

\* A call goes on once it has started: its context sees to that.
FairSpec ==
  Init /\ [][MCNext]_vars /\ \A c \in Calls : WF_vars(c \in Cast /\ CallStep(c))

\* A call ends, however often its transaction is rerun (create_instance_service.go).
CallsEnd == \A c \in Calls : call[c].pc = "callback" ~> call[c].pc = "done"
=============================================================================
