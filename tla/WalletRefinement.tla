-------------------------- MODULE WalletRefinement --------------------------
(* The money of the serial tenants, seen through a refinement mapping as   *)
(* the Account it implements: only COMMIT changes what Account sees.       *)
EXTENDS Wallet

Totals == {10 * a + ChargeFor(dest, a) : dest \in DestinationType, a \in PayoutAmount}

A == INSTANCE Account WITH
  Tenant <- Serial,
  PayoutTotal <- Totals,
  credited <- [t \in Serial |-> {e.ref : e \in Topups(t)}],
  book <- [t \in Serial |-> LastBalance(Committed(t))],
  funds <- [t \in Serial |-> wallet[t]]

(* For tenants whose clients send one request at a time verification and   *)
(* disbursement behave as the atomic operations of Account, whatever other *)
(* tenants do at the same time and wherever requests fail in between.      *)
ImplementsAccount == A!Spec

All == INSTANCE Account WITH
  PayoutTotal <- Totals,
  credited <- [t \in Tenant |-> {e.ref : e \in Topups(t)}],
  book <- [t \in Tenant |-> LastBalance(Committed(t))],
  funds <- [t \in Tenant |-> wallet[t]]

(* The same of every tenant: repeated verify calls credit a payment once   *)
(* (payments/services.go 327-330), the wallet covers a disbursement        *)
(* (disbursement/services.go 134-135) and mirrors the ledger (176), and    *)
(* each balance continues the one before it (transactions/services.go      *)
(* 40-45).                                                                 *)
EveryWalletIsAnAccount == All!Spec
=============================================================================
