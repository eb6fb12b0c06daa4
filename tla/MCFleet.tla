------------------------------ MODULE MCFleet ------------------------------
(* Instances of Fleet. *)
EXTENDS Fleet

CONSTANTS s1, s2, r1, r2

OneSlot == {s1}
TwoSlots == {s1, s2}
OneRouter == {r1}
TwoRouters == {r1, r2}
TwoAddresses == 1..2
OneEarly == <<r1>>
JustSecond == {r2}
OneAddress == 1..1
None == {}
==============================================================================
