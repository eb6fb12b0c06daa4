----------------------------- MODULE MCVouchers -----------------------------
(* Instances of Vouchers for TLC. *)
EXTENDS VoucherStock, TLC

CONSTANTS s1, s2, alice, day, week, c1

TwoSlots == {s1, s2}
OneTenant == {alice}
OnePackage == {day}
TwoPackages == {day, week}
OneCode == {c1}
None == {}
SlotSymmetry == Permutations(TwoSlots)
=============================================================================
