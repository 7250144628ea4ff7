------------------------- MODULE MCValidationGroup -------------------------
(* A branch of two members beside one of a single member.                  *)
EXTENDS ValidationGroup
MCBranches == <<"b1", "b2">>
MCReads == <<[branch |-> "b1", node |-> "m1"], [branch |-> "b1", node |-> "m2"],
             [branch |-> "b2", node |-> "m3"]>>
=============================================================================
