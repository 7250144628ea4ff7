-------------------------- MODULE PublicationPromise --------------------------
(* What publishing under an idempotency id promises: under one id at most one   *)
(* publication is ever applied, and whoever is told a result under that id is   *)
(* told the result of this very publication, however many answers were lost     *)
(* before and whatever else was sent under the id.                              *)
CONSTANTS Pubs, Callers, Nothing, Untold

VARIABLES applied,   \* publication id -> the publication applied under it and its result
          told       \* caller -> the id, publication and result it was last told
vars == <<applied, told>>

Init == applied = [p \in Pubs |-> Nothing] /\ told = [c \in Callers |-> Untold]

Apply(p) ==
  /\ applied[p] = Nothing /\ applied'[p] # Nothing
  /\ applied' = [applied EXCEPT ![p] = applied'[p]]
  /\ UNCHANGED told
Tell(c, p) ==
  /\ applied[p] # Nothing
  /\ told' = [told EXCEPT ![c] = <<p, applied[p]>>]
  /\ UNCHANGED applied
Forget(c) == told' = [told EXCEPT ![c] = Untold] /\ UNCHANGED applied

Next == \/ \E p \in Pubs : Apply(p)
        \/ \E c \in Callers : Forget(c) \/ \E p \in Pubs : Tell(c, p)
Spec == Init /\ [][Next]_vars
===============================================================================
