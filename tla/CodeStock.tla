------------------------------ MODULE CodeStock ------------------------------
(***************************************************************************)
(* What a stock of access codes promises: a code is generated once, and a  *)
(* sale takes one that is available and not in the trash, in one step and  *)
(* for good.  Vouchers is shown to implement it where nobody edits.        *)
(***************************************************************************)
EXTENDS Naturals

CONSTANT Id

VARIABLES
  state,    \* "none", then "available", then "sold"
  trashed   \* ids in the trash

vars == <<state, trashed>>

Init ==
  /\ state = [v \in Id |-> "none"]
  /\ trashed = {}

Generate(ids) ==
  /\ \A v \in ids : state[v] = "none"
  /\ state' = [v \in Id |-> IF v \in ids THEN "available" ELSE state[v]]
  /\ UNCHANGED trashed

Sell(v) ==
  /\ state[v] = "available" /\ v \notin trashed
  /\ state' = [state EXCEPT ![v] = "sold"]
  /\ UNCHANGED trashed

Trash(ids) ==
  /\ \A v \in ids : state[v] # "none"
  /\ trashed' = trashed \cup ids
  /\ UNCHANGED state

Restore(ids) ==
  /\ trashed' = trashed \ ids
  /\ UNCHANGED state

Next ==
  \/ \E ids \in SUBSET Id : Generate(ids) \/ Trash(ids) \/ Restore(ids)
  \/ \E v \in Id : Sell(v)

Spec == Init /\ [][Next]_vars
=============================================================================
