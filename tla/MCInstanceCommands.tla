------------------------- MODULE MCInstanceCommands -------------------------
(***************************************************************************)
(* Instances of InstanceCommands for TLC.                                  *)
(***************************************************************************)
EXTENDS InstanceCommands, TLC

Symmetry ==
  Permutations(Instances) \cup Permutations(Clients) \cup Permutations(CommandIDs)
=============================================================================
