--------------------------- MODULE MCProvisioning ---------------------------
(* Instances of Provisioning for TLC. *)
EXTENDS Provisioning, TLC

CONSTANTS s1, s2, alice, day, c1, r1

OneSlot == {s1}
TwoSlots == {s1, s2}
OneTenant == {alice}
OnePackage == {day}
OneCode == {c1}
OneRouter == {r1}
AlicesRouter == r1 :> alice
None == {}
=============================================================================
