------------------------------- MODULE Account -------------------------------
(***************************************************************************)
(* What the wallet of a tenant promises: a payment is credited once, a     *)
(* disbursement takes money that is there, and each of the two moves the   *)
(* ledger's running balance and the company wallet in one indivisible      *)
(* step.  Wallet is shown to implement it for serial tenants.              *)
(***************************************************************************)
EXTENDS Integers

CONSTANTS
  Tenant, Ref,
  Price,        \* [Ref -> Nat], in tenths
  PayoutTotal,  \* totals (amount and charge) a disbursement may take, in tenths
  NoCompany

VARIABLES
  credited,  \* payments each tenant has been credited with
  book,      \* running balance of the ledger, in tenths
  funds      \* company wallet in whole units, or NoCompany

vars == <<credited, book, funds>>

Init ==
  /\ credited = [t \in Tenant |-> {}]
  /\ book = [t \in Tenant |-> 0]
  /\ funds \in [Tenant -> {0, NoCompany}]

(* The wallet counts whole units, half a unit counts as one. *)
Credit(t, r) ==
  /\ r \notin credited[t]
  /\ credited' = [credited EXCEPT ![t] = @ \cup {r}]
  /\ book' = [book EXCEPT ![t] = @ + Price[r]]
  /\ funds' = IF funds[t] = NoCompany THEN funds
              ELSE [funds EXCEPT ![t] = @ + ((Price[r] + 5) \div 10)]

PayOut(t, total) ==
  /\ funds[t] # NoCompany /\ total <= 10 * funds[t]
  /\ book' = [book EXCEPT ![t] = @ - total]
  /\ funds' = [funds EXCEPT ![t] = @ - (total \div 10)]
  /\ UNCHANGED credited

Next ==
  \E t \in Tenant :
    \/ \E r \in Ref : Credit(t, r)
    \/ \E total \in PayoutTotal : PayOut(t, total)

Spec == Init /\ [][Next]_vars
=============================================================================
