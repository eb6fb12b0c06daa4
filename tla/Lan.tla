--------------------------------- MODULE Lan ---------------------------------
(***************************************************************************)
(* The hotspot network of a router.  The first script of a VPN row gives   *)
(* the row a /24 worked out from its id alone, without a table or a lock;  *)
(* the script then works out gateway and pool from it.  Addresses are      *)
(* 32-bit numbers; a network stands for its first address.                 *)
(***************************************************************************)
EXTENDS Integers

CONSTANT VPNId      \* ids of VPN rows

ASSUME LanAssumption == VPNId \subseteq Nat \ {0}

VARIABLE lanOf      \* the network of each row that took a script, 0 for none

lanVars == lanOf

Size == 256                          \* of a /24
Address(a, b, c, d) == ((a * 256 + b) * 256 + c) * 256 + d
MaxAllocatable24s == 65535
ReservedForStatic == 9
VPNSubnet == Address(10, 10, 0, 0)
Infra == Address(10, 0, 0, 0)

(* Seeded fault: the slots end with a whole octet. *)
AllocateOctet(id) == LET slot == (id % 255) + 1 IN Address(10, slot \div 256, slot % 256, 0)

(* Seeded fault: slot 0 is not kept free. *)
AllocateFromZero(id) ==
  LET slot == id % MaxAllocatable24s IN Address(10, (slot \div 256) % 256, slot % 256, 0)

AllocateLANCidr(id) ==
  LET slot == (id % MaxAllocatable24s) + 1
  IN  Address(10, (slot \div 256) % 256, slot % 256, 0)

(* For a /24 of 10.0.0.0/8, as every stored one is: nothing wraps. *)
IncIP(ip, delta) == ip + delta
LastIP(network) == network + Size - 1
ResolveLAN(network) ==
  [network |-> network, gateway |-> IncIP(network, 1),
   poolStart |-> IncIP(network, 1 + ReservedForStatic),
   poolEnd |-> IncIP(LastIP(network), -1)]

LanInit == lanOf = [id \in VPNId |-> 0]
Backfill(id) == lanOf[id] = 0 /\ lanOf' = [lanOf EXCEPT ![id] = AllocateLANCidr(id)]
LanNext == \E id \in VPNId : Backfill(id)
LanSpec == LanInit /\ [][LanNext]_lanVars

------------------------------------------------------------------------------
(* "No two VPN rows ever receive the same /24": rows whose ids are less    *)
(* than 65535 apart have networks, with all their addresses, apart.        *)
LansApart ==
  \A i, j \in VPNId :
    (i < j /\ j < i + MaxAllocatable24s /\ lanOf[i] # 0 /\ lanOf[j] # 0)
      => LastIP(lanOf[i]) < lanOf[j] \/ LastIP(lanOf[j]) < lanOf[i]

(* A network is inside 10.0.0.0/8, never the reserved one, holds a gateway *)
(* and a pool in that order, and is the VPN's own for one id in 65535.     *)
LanInOrder ==
  \A i \in VPNId : lanOf[i] # 0 =>
    LET lan == ResolveLAN(lanOf[i]) IN
    /\ Infra < lan.network /\ lan.network < lan.gateway
    /\ lan.gateway < lan.poolStart /\ lan.poolStart < lan.poolEnd
    /\ lan.poolEnd < LastIP(lan.network) /\ LastIP(lan.network) < Address(11, 0, 0, 0)
    /\ lan.network = VPNSubnet <=> i % MaxAllocatable24s = 2559
==============================================================================
