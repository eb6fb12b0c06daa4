---------------------------- MODULE VoucherStock ----------------------------
(* The vouchers table seen as the stock of codes it implements. *)
EXTENDS Vouchers

StateOf(v) ==
  IF ~Exists(v) THEN "none"
  ELSE IF row[v].status = "USED" THEN "sold" ELSE "available"

Stock == INSTANCE CodeStock WITH
  state <- [v \in Id |-> StateOf(v)],
  trashed <- {v \in Id : Exists(v) /\ row[v].deleted}

(* Where nobody edits, concurrent sales, deletions and restorations behave *)
(* as the one-step operations of a stock: a sale takes an available code   *)
(* out of it for good (vouchers/models.go 69-72), and none from the trash. *)
ImplementsStock == Stock!Spec
=============================================================================
