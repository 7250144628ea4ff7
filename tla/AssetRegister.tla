----------------------------- MODULE AssetRegister -----------------------------
(* What the asset services promise together: the store changes by one operation *)
(* at a time, each applied to the asset as it then is.                          *)
CONSTANTS
  Requests,
  First,           \* what is stored at first
  Apply(_, _)      \* what the operation of a request makes of an asset
VARIABLE store

Init == store = First

\* Every operation changes its asset: it counts the revision up.
Perform(q) ==
  /\ store'[q.asset] # store[q.asset]
  /\ Apply(q, store[q.asset]).ok
  /\ store' = [store EXCEPT ![q.asset] = Apply(q, store[q.asset]).value]

Next == \E q \in Requests : Perform(q)

Spec == Init /\ [][Next]_store
================================================================================
