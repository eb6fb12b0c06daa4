------------------------------ MODULE MCWallet ------------------------------
(* Instances of Wallet for TLC.                                            *)
EXTENDS WalletRefinement, TLC

CONSTANTS s1, s2, alice, bob, p1, env, own

TwoSlots == {s1, s2}
OneTenant == {alice}
TwoTenants == {alice, bob}
OneRef == {p1}
TwoKeys == {env, own}
OneKey == {env}
\* alice has no key of her own, bob sets his at some time.
EnvKey == [t \in OneTenant |-> {env}]
SharedKey == [t \in TwoTenants |-> {env}]
OwnKeyLater == [t \in TwoTenants |-> IF t = bob THEN {env, own} ELSE {env}]

\* 2600.0 covers a payout of 2500 and its charge of 100 exactly.
OneTightPrice == p1 :> 26000
\* 3100.9 is rounded up in the wallet.
FractionPrice == p1 :> 31009

OnlyBob == {bob}
None == {}
SlotSymmetry == Permutations(TwoSlots)
=============================================================================
