---------------------------- MODULE WalletSafety ----------------------------
(* Proofs of the safety of the wallet of serial tenants, for any number of *)
(* connections, tenants and payments, whatever other tenants' requests do  *)
(* at the same time and wherever requests fail.                            *)
EXTENDS WalletProofs

(* What the handler on s knows of the committed state of a serial tenant.  *)
(* Base is the balance its tenant's ledger ends with, Now the balance the  *)
(* ledger would end with if its transaction committed.                     *)
Base(s) == LastBalance(Committed(call[s].tenant))
Now(s) == LastBalance(Visible(s))

(* No committed entry credits the payment the handler on s is about. *)
NotCredited(s) ==
  \A e \in ledger :
    (e.tenant = call[s].tenant /\ e.op = "topup") => e.ref # call[s].ref

(* A verification past its lookup: the payment is not in the ledger, and   *)
(* the one row drafted, if any, credits it on top of the committed ones.   *)
VerifyKnows(s) ==
  LET c == call[s] IN
  (c.note = "collection" /\ c.pc \notin {"idle", "lookup"}) =>
    /\ c.pc \in {"read", "insert", "company", "save", "commit"}
    /\ c.ref \in Ref /\ c.amount = Price[c.ref]
    /\ NotCredited(s)
    /\ c.pc = "read" => draft[s] = {}
    /\ c.pc = "insert" => draft[s] = {} /\ c.last = Base(s)
    /\ c.pc \in {"company", "save", "commit"} =>
         /\ Now(s) = Base(s) + c.amount
         /\ \E e \in draft[s] : draft[s] = {e} /\ e.op = "topup" /\ e.ref = c.ref
    /\ c.pc \in {"save", "commit"} => c.seen = wallet[c.tenant]
    /\ c.pc = "save" => c.seen # NoCompany

(* A disbursement past its check: the wallet still holds what was read and *)
(* covers amount and charge; the rows drafted deduct one, then the other.  *)
PayoutKnows(s) ==
  LET c == call[s] IN
  (c.note # "collection" /\ c.pc # "funds") =>
    /\ c.pc \in {"payout", "read", "insert", "save", "commit"}
    /\ c.seen = wallet[c.tenant] /\ c.seen # NoCompany
    /\ 10 * c.seen >= c.amount + c.charge
    /\ \A e \in draft[s] : e.op = "deduct"
    /\ c.note = "disbursement" =>
         /\ draft[s] = {} /\ c.pc \in {"payout", "read", "insert"}
         /\ c.pc = "insert" => c.last = Base(s)
    /\ c.note = "txn charges" =>
         /\ c.pc \in {"read", "insert"} => Now(s) = Base(s) - c.amount
         /\ c.pc = "insert" => c.last = Now(s)
         /\ c.pc \in {"save", "commit"} => Now(s) = Base(s) - c.amount - c.charge
         /\ c.pc # "payout"

(* The total is one a disbursement of a whole amount can have. *)
TotalKnown(s) ==
  LET c == call[s] IN
  c.note # "collection" =>
    \E a \in PayoutAmount, dest \in DestinationType :
       c.amount = 10 * a /\ c.charge = ChargeFor(dest, a)

(* A lookup is for a payment, with the amount the gateway reported. *)
LookupKnown(s) ==
  LET c == call[s] IN
  c.pc = "lookup" => c.note = "collection" /\ c.ref \in Ref /\ c.amount = Price[c.ref]

(* The first statements of a disbursement are before its first posting. *)
FundsKnown(s) == call[s].pc \in {"funds", "payout"} => call[s].note = "disbursement"

Knows(s) == VerifyKnows(s) /\ PayoutKnows(s)

Alone ==
  \A t \in Serial : \A o, s \in Slot :
    (Busy(o) /\ Busy(s) /\ call[o].tenant = t /\ call[s].tenant = t) => o = s

SerialInv ==
  /\ Alone
  /\ \A s \in Slot : TotalKnown(s) /\ LookupKnown(s) /\ FundsKnown(s)
  /\ \A s \in Slot : call[s].tenant \in Serial => Knows(s)
  /\ SerialCreditedOnce
  /\ SerialNotOverdrawn

Inv == TypeInv /\ SerialInv

-----------------------------------------------------------------------------
(* An idle connection knows nothing. *)
LEMMA IdleKnows ==
  ASSUME NEW s \in Slot, call[s] = IdleCall
  PROVE  Knows(s) /\ TotalKnown(s) /\ LookupKnown(s) /\ FundsKnown(s) /\ ~Busy(s)
  BY DEF IdleCall, Knows, VerifyKnows, PayoutKnows, TotalKnown, LookupKnown, FundsKnown, Busy

LEMMA SerialInit == Init => SerialInv
<1> SUFFICES ASSUME Init PROVE SerialInv
  OBVIOUS
<1>1. \A s \in Slot : call[s] = IdleCall
  BY DEF Init
<1>2. Alone /\ \A s \in Slot : TotalKnown(s) /\ LookupKnown(s) /\ FundsKnown(s) /\ Knows(s)
  BY <1>1, IdleKnows DEF Alone
<1>3. SerialCreditedOnce
  BY DEF Init, SerialCreditedOnce, CreditedOnce, Committed
<1>4. SerialNotOverdrawn
  BY TenantAssumption DEF Init, SerialNotOverdrawn, NotOverdrawn
<1>5. QED
  BY <1>2, <1>3, <1>4 DEF SerialInv

(* Nothing a request knows changes while the committed rows and the wallet *)
(* of its tenant, its own rows and its own record stay.                    *)
LEMMA KnowsFrame ==
  ASSUME NEW s \in Slot, Knows(s),
         call'[s] = call[s], draft'[s] = draft[s],
         Committed(call[s].tenant)' = Committed(call[s].tenant),
         wallet'[call[s].tenant] = wallet[call[s].tenant]
  PROVE  Knows(s)'
<1>1. Visible(s)' = Visible(s)
  <2>1. Visible(s) = Committed(call[s].tenant) \cup {e \in draft[s] : e.tenant = call[s].tenant}
    BY DEF Visible, Committed
  <2>2. Visible(s)' = Committed(call[s].tenant)' \cup {e \in draft'[s] : e.tenant = call'[s].tenant}
    BY DEF Visible, Committed
  <2>3. QED
    BY <2>1, <2>2
<1>2. Base(s)' = Base(s)
  BY DEF Base, LastBalance, Latest
<1>3. Now(s)' = Now(s)
  BY <1>1 DEF Now, LastBalance, Latest
<1>4. NotCredited(s) => NotCredited(s)'
  BY DEF NotCredited, Committed
<1>5. QED
  BY <1>1, <1>2, <1>3, <1>4 DEF Knows, VerifyKnows, PayoutKnows

(* Between two requests there is nothing to know. *)
LEMMA QuietKnows ==
  ASSUME NEW s \in Slot, Knows(s), ~Busy(s), call'[s] = call[s]
  PROVE  Knows(s)'
  BY DEF Knows, VerifyKnows, PayoutKnows, Busy

(* A step of s that commits nothing. *)
LEMMA UncommittedStep ==
  ASSUME Inv, NEW s \in Slot,
         UNCHANGED <<ledger, wallet>>,
         \A o \in Slot \ {s} : call'[o] = call[o] /\ draft'[o] = draft[o],
         \/ call'[s].pc = "idle"
         \/ Busy(s) /\ call'[s].tenant = call[s].tenant
         \/ MayCall(call'[s].tenant),
         TotalKnown(s)', LookupKnown(s)', FundsKnown(s)', call'[s].tenant \in Serial => Knows(s)'
  PROVE  SerialInv'
<1>1. \A t : Committed(t)' = Committed(t)
  BY DEF Committed
<1>2. Alone'
  BY DEF Alone, Inv, SerialInv, Busy, MayCall
<1>3. ASSUME NEW o \in Slot PROVE TotalKnown(o)' /\ LookupKnown(o)' /\ FundsKnown(o)'
  BY DEF TotalKnown, LookupKnown, FundsKnown, Inv, SerialInv
<1>4. ASSUME NEW o \in Slot, call'[o].tenant \in Serial PROVE Knows(o)'
  <2>1. CASE o = s
    BY <1>4, <2>1
  <2>2. CASE o # s
    <3>1. call'[o] = call[o] /\ draft'[o] = draft[o] /\ Knows(o)
      BY <1>4, <2>2 DEF Inv, SerialInv
    <3>2. QED
      BY <1>1, <3>1, KnowsFrame
  <2>3. QED
    BY <2>1, <2>2
<1>5. SerialCreditedOnce'
  BY <1>1 DEF SerialCreditedOnce, CreditedOnce, Inv, SerialInv
<1>6. SerialNotOverdrawn'
  BY DEF SerialNotOverdrawn, NotOverdrawn, Inv, SerialInv
<1>7. QED
  BY <1>2, <1>3, <1>4, <1>5, <1>6 DEF SerialInv

(* A new row on top decides the balance. *)
LEMMA BalanceOnTop ==
  ASSUME NEW X \in SUBSET Entry, NEW e \in Entry, \A f \in X : f.id < e.id
  PROVE  LastBalance(X \cup {e}) = e.balance
<1>1. \A f \in X \cup {e} : f.id <= e.id
  BY DEF Entry
<1>2. \A g \in X \cup {e} : (\A f \in X \cup {e} : f.id <= g.id) => g = e
  BY DEF Entry
<1>3. Latest(X \cup {e}) = e
  BY <1>1, <1>2 DEF Latest
<1>4. QED
  BY <1>3 DEF LastBalance

(* Before its first row a transaction sees what is committed. *)
LEMMA NowIsBase ==
  ASSUME NEW s \in Slot, draft[s] = {}
  PROVE  Now(s) = Base(s)
<1>1. Visible(s) = Committed(call[s].tenant)
  BY DEF Visible, Committed
<1>2. QED
  BY <1>1 DEF Now, Base

(* Appending a row makes its balance the one the ledger would end with. *)
LEMMA AppendedBalance ==
  ASSUME Inv, NEW s \in Slot, InsertEntry(s),
         call'[s].tenant = call[s].tenant
  PROVE  /\ Now(s)' = NewEntry(call[s]).balance
         /\ Base(s)' = Base(s)
         /\ draft'[s] = draft[s] \cup {NewEntry(call[s])}
<1> DEFINE e == NewEntry(call[s])
<1>1. e \in Entry /\ e.id = nextEntry /\ e.tenant = call[s].tenant
  BY NewEntryType DEF NewEntry, Inv
<1>2. draft'[s] = draft[s] \cup {e} /\ ledger' = ledger
  BY DEF InsertEntry, Inv, TypeInv, Types
<1>3. Visible(s)' = Visible(s) \cup {e}
  BY <1>1, <1>2 DEF Visible
<1>4. Visible(s) \in SUBSET Entry
  BY VisibleLatest DEF Inv
<1>5. \A f \in Visible(s) : f.id < e.id
  BY <1>1 DEF Visible, Inv, TypeInv, RowsOrdered
<1> HIDE DEF e
<1>6. LastBalance(Visible(s) \cup {e}) = e.balance
  BY <1>1, <1>4, <1>5, BalanceOnTop
<1>7. LastBalance(Visible(s))' = LastBalance(Visible(s) \cup {e})
  BY <1>3 DEF LastBalance, Latest
<1>8. Base(s)' = Base(s)
  BY <1>2 DEF Base, LastBalance, Latest, Committed
<1>9. QED
  BY <1>2, <1>6, <1>7, <1>8 DEF Now, e

LEMMA VerifyStep ==
  ASSUME Inv, NEW s \in Slot, NEW t \in Tenant, NEW r \in Ref, Verify(s, t, r)
  PROVE  SerialInv'
<1>1. /\ call'[s].pc = "lookup" /\ call'[s].tenant = t
      /\ call'[s].note = "collection" /\ call'[s].ref = r
      /\ call'[s].amount = Price[r] /\ MayCall(call'[s].tenant)
      /\ \A o \in Slot \ {s} : call'[o] = call[o] /\ draft'[o] = draft[o]
      /\ UNCHANGED <<ledger, wallet>>
  BY DEF Verify, Inv, TypeInv, Types
<1>2. TotalKnown(s)' /\ LookupKnown(s)' /\ FundsKnown(s)' /\ Knows(s)'
  BY <1>1 DEF TotalKnown, LookupKnown, FundsKnown, Knows, VerifyKnows, PayoutKnows
<1>3. QED
  BY <1>1, <1>2, UncommittedStep

LEMMA DisburseStep ==
  ASSUME Inv, NEW s \in Slot, NEW t \in Tenant, NEW dest \in DestinationType,
         NEW a \in PayoutAmount, CreateDisbursement(s, t, dest, a)
  PROVE  SerialInv'
<1>1. /\ call'[s].pc = "funds" /\ call'[s].tenant = t
      /\ call'[s].note = "disbursement" /\ MayCall(call'[s].tenant)
      /\ call'[s].amount = 10 * a /\ call'[s].charge = ChargeFor(dest, a)
      /\ \A o \in Slot \ {s} : call'[o] = call[o] /\ draft'[o] = draft[o]
      /\ UNCHANGED <<ledger, wallet>>
  BY DEF CreateDisbursement, Inv, TypeInv, Types
<1>2. TotalKnown(s)' /\ LookupKnown(s)' /\ FundsKnown(s)' /\ Knows(s)'
  BY <1>1 DEF TotalKnown, LookupKnown, FundsKnown, Knows, VerifyKnows, PayoutKnows
<1>3. QED
  BY <1>1, <1>2, UncommittedStep

(* A request that ends without committing leaves nothing behind. *)
LEMMA GiveUpStep ==
  ASSUME Inv, NEW s \in Slot, Done(s), UNCHANGED <<ledger, wallet>>,
         \A o \in Slot \ {s} : draft'[o] = draft[o]
  PROVE  SerialInv'
<1>1. /\ call'[s] = IdleCall
      /\ \A o \in Slot \ {s} : call'[o] = call[o] /\ draft'[o] = draft[o]
  BY DEF Done, Inv, TypeInv, Types
<1>2. TotalKnown(s)' /\ LookupKnown(s)' /\ FundsKnown(s)' /\ Knows(s)' /\ call'[s].pc = "idle"
  BY <1>1 DEF IdleCall, TotalKnown, LookupKnown, FundsKnown, Knows, VerifyKnows, PayoutKnows
<1>3. QED
  BY <1>1, <1>2, UncommittedStep

LEMMA LookupStep ==
  ASSUME Inv, NEW s \in Slot, Lookup(s)
  PROVE  SerialInv'
<1>1. CASE Done(s)
  BY <1>1, GiveUpStep DEF Lookup
<1>2. CASE /\ Go(s, "read")
           /\ \A e \in Committed(call[s].tenant) : e.ref # call[s].ref
  <2>1. /\ call'[s] = [call[s] EXCEPT !.pc = "read"] /\ draft'[s] = draft[s]
        /\ \A o \in Slot \ {s} : call'[o] = call[o] /\ draft'[o] = draft[o]
        /\ UNCHANGED <<ledger, wallet>>
    BY <1>2 DEF Lookup, Go, Inv, TypeInv, Types
  <2>2. /\ call'[s].pc = "read" /\ call'[s].tenant = call[s].tenant
        /\ call'[s].note = call[s].note /\ call'[s].ref = call[s].ref
        /\ call'[s].amount = call[s].amount /\ call'[s].charge = call[s].charge
    BY <2>1 DEF Inv, TypeInv, Types, Call
  <2>3. draft[s] = {} /\ Busy(s)
    BY DEF Lookup, Inv, TypeInv, RowsOrdered, Busy
  <2>4. call[s].note = "collection" /\ call[s].ref \in Ref /\ call[s].amount = Price[call[s].ref]
    BY DEF Inv, SerialInv, Lookup, LookupKnown
  <2>5. TotalKnown(s)' /\ LookupKnown(s)' /\ FundsKnown(s)' /\ Knows(s)'
    <3>1. NotCredited(s)'
      BY <1>2, <2>1, <2>2 DEF Committed, NotCredited
    <3>2. VerifyKnows(s)'
      BY <2>1, <2>2, <2>3, <2>4, <3>1 DEF VerifyKnows
    <3>3. QED
      BY <2>2, <2>4, <3>2 DEF TotalKnown, LookupKnown, FundsKnown, Knows, PayoutKnows
  <2>6. QED
    BY <2>1, <2>2, <2>3, <2>5, UncommittedStep
<1>3. QED
  BY <1>1, <1>2 DEF Lookup

LEMMA CheckFundsStep ==
  ASSUME Inv, NEW s \in Slot, CheckFunds(s)
  PROVE  SerialInv'
<1> DEFINE value == wallet[call[s].tenant]
<1>1. CASE Done(s)
  BY <1>1, GiveUpStep DEF CheckFunds
<1>2. CASE /\ Covers(value, call[s].amount + call[s].charge)
           /\ call' = [call EXCEPT ![s].pc = "payout", ![s].seen = value]
  <2>1. /\ call'[s].pc = "payout" /\ call'[s].tenant = call[s].tenant
        /\ call'[s].note = call[s].note /\ call'[s].seen = value
        /\ call'[s].amount = call[s].amount /\ call'[s].charge = call[s].charge
        /\ \A o \in Slot \ {s} : call'[o] = call[o]
    BY <1>2 DEF Inv, TypeInv, Types, Call
  <2>2. UNCHANGED <<ledger, wallet, draft>> /\ draft[s] = {} /\ call[s].pc = "funds"
    BY DEF CheckFunds, Inv, TypeInv, RowsOrdered
  <2>3. call[s].note = "disbursement"
    BY <2>2 DEF Inv, SerialInv, FundsKnown
  <2>4. TotalKnown(s)' /\ LookupKnown(s)' /\ FundsKnown(s)'
    BY <2>1, <2>2 DEF Inv, SerialInv, TotalKnown, LookupKnown, FundsKnown
  <2>5. PayoutKnows(s)'
    BY <1>2, <2>1, <2>2, <2>3 DEF PayoutKnows, Covers
  <2>6. Knows(s)'
    BY <2>1, <2>3, <2>5 DEF Knows, VerifyKnows
  <2>7. Busy(s)
    BY <2>2 DEF Busy
  <2>8. QED
    BY <2>1, <2>2, <2>4, <2>6, <2>7, UncommittedStep
<1>3. QED
  BY <1>1, <1>2 DEF CheckFunds

LEMMA InsertPayoutStep ==
  ASSUME Inv, NEW s \in Slot, InsertPayout(s)
  PROVE  SerialInv'
<1>1. /\ call'[s].pc = "read" /\ call'[s].tenant = call[s].tenant
      /\ call'[s].note = call[s].note /\ call'[s].seen = call[s].seen
      /\ call'[s].amount = call[s].amount /\ call'[s].charge = call[s].charge
      /\ \A o \in Slot \ {s} : call'[o] = call[o]
  BY DEF InsertPayout, Inv, TypeInv, Types, Call
<1>2. UNCHANGED <<ledger, wallet, draft>> /\ draft[s] = {} /\ call[s].pc = "payout"
  BY DEF InsertPayout, Inv, TypeInv, RowsOrdered
<1>3. call[s].note = "disbursement"
  BY <1>2 DEF Inv, SerialInv, FundsKnown
<1>4. TotalKnown(s)' /\ LookupKnown(s)' /\ FundsKnown(s)'
  BY <1>1, <1>2, <1>3 DEF Inv, SerialInv, TotalKnown, LookupKnown, FundsKnown
<1>5. ASSUME call'[s].tenant \in Serial PROVE Knows(s)'
  <2>1. Knows(s)
    BY <1>1, <1>5 DEF Inv, SerialInv
  <2>2. QED
    BY <1>1, <1>2, <1>3, <2>1 DEF Knows, VerifyKnows, PayoutKnows
<1>6. Busy(s)
  BY <1>2 DEF Busy
<1>7. QED
  BY <1>1, <1>2, <1>4, <1>5, <1>6, UncommittedStep

(* A request that only moves along, with its rows and the committed ones   *)
(* unchanged, keeps the balances it reasons about.                         *)
LEMMA SameBalances ==
  ASSUME NEW s \in Slot, UNCHANGED ledger, draft'[s] = draft[s],
         call'[s].tenant = call[s].tenant, call'[s].ref = call[s].ref
  PROVE  /\ Base(s)' = Base(s)
         /\ Now(s)' = Now(s)
         /\ NotCredited(s)' = NotCredited(s)
<1>1. Visible(s)' = Visible(s)
  BY DEF Visible
<1>2. Now(s)' = Now(s)
  BY <1>1 DEF Now, LastBalance, Latest
<1>3. Base(s)' = Base(s)
  BY DEF Base, LastBalance, Latest, Committed
<1>4. QED
  BY <1>2, <1>3 DEF NotCredited

LEMMA ReadLastStep ==
  ASSUME Inv, NEW s \in Slot, ReadLast(s)
  PROVE  SerialInv'
<1>1. /\ call'[s].pc = "insert" /\ call'[s].tenant = call[s].tenant
      /\ call'[s].note = call[s].note /\ call'[s].seen = call[s].seen
      /\ call'[s].amount = call[s].amount /\ call'[s].charge = call[s].charge
      /\ call'[s].ref = call[s].ref /\ call'[s].last = Now(s)
      /\ \A o \in Slot \ {s} : call'[o] = call[o]
  BY DEF ReadLast, Inv, TypeInv, Types, Call, Now
<1>2. UNCHANGED <<ledger, wallet, draft>> /\ call[s].pc = "read"
  BY DEF ReadLast
<1>3. TotalKnown(s)' /\ LookupKnown(s)' /\ FundsKnown(s)'
  BY <1>1, <1>2 DEF Inv, SerialInv, TotalKnown, LookupKnown, FundsKnown
<1>4. ASSUME call'[s].tenant \in Serial PROVE Knows(s)'
  <2>1. VerifyKnows(s) /\ PayoutKnows(s)
    BY <1>1, <1>4 DEF Inv, SerialInv, Knows
  <2>2. /\ Base(s)' = Base(s) /\ Now(s)' = Now(s)
        /\ NotCredited(s)' = NotCredited(s)
    BY <1>1, <1>2, SameBalances
  <2>3. draft[s] = {} => Now(s) = Base(s)
    BY NowIsBase
  <2>4. VerifyKnows(s)'
    BY <1>1, <1>2, <2>1, <2>2, <2>3 DEF VerifyKnows
  <2>5. PayoutKnows(s)'
    BY <1>1, <1>2, <2>1, <2>2, <2>3 DEF PayoutKnows
  <2>6. QED
    BY <2>4, <2>5 DEF Knows
<1>5. Busy(s)
  BY <1>2 DEF Busy
<1>6. QED
  BY <1>1, <1>2, <1>3, <1>4, <1>5, UncommittedStep

LEMMA InsertEntryStep ==
  ASSUME Inv, NEW s \in Slot, InsertEntry(s)
  PROVE  SerialInv'
<1> DEFINE e == NewEntry(call[s])
<1> DEFINE Same(c) ==
      /\ c.tenant = call[s].tenant /\ c.ref = call[s].ref /\ c.seen = call[s].seen
      /\ c.amount = call[s].amount /\ c.charge = call[s].charge
    Moved(c) ==
      \/ call[s].note = "collection" /\ c.note = "collection" /\ c.pc = "company"
      \/ call[s].note = "disbursement" /\ c.note = "txn charges" /\ c.pc = "read"
      \/ call[s].note = "txn charges" /\ c.note = "txn charges" /\ c.pc = "save"
<1>a. call \in [Slot -> Call] /\ draft \in [Slot -> SUBSET Entry] /\ call[s] \in Call
  BY DEF Inv, TypeInv, Types
<1>b. \A o \in Slot \ {s} : call'[o] = call[o] /\ draft'[o] = draft[o]
  BY <1>a DEF InsertEntry, Go
<1>c. Same(call'[s]) /\ Moved(call'[s])
  <2>1. CASE call[s].note = "collection" /\ Go(s, "company")
    <3>1. call'[s] = [call[s] EXCEPT !.pc = "company"]
      BY <1>a, <2>1 DEF Go
    <3>2. QED
      BY <1>a, <2>1, <3>1 DEF Call
  <2>2. CASE /\ call[s].note = "disbursement"
             /\ call' = [call EXCEPT ![s].pc = "read", ![s].note = "txn charges"]
    <3>1. call'[s] = [call[s] EXCEPT !.pc = "read", !.note = "txn charges"]
      BY <1>a, <2>2
    <3>2. QED
      BY <1>a, <2>2, <3>1 DEF Call
  <2>3. CASE call[s].note = "txn charges" /\ Go(s, "save")
    <3>1. call'[s] = [call[s] EXCEPT !.pc = "save"]
      BY <1>a, <2>3 DEF Go
    <3>2. QED
      BY <1>a, <2>3, <3>1 DEF Call
  <2>4. QED
    BY <2>1, <2>2, <2>3 DEF InsertEntry
<1>0. Moved(call'[s])
  BY <1>c
<1>1. Same(call'[s]) /\ \A o \in Slot \ {s} : call'[o] = call[o] /\ draft'[o] = draft[o]
  BY <1>b, <1>c
<1>2. UNCHANGED <<ledger, wallet>> /\ call[s].pc = "insert"
  BY DEF InsertEntry
<1>3. TotalKnown(s)' /\ LookupKnown(s)' /\ FundsKnown(s)'
  BY <1>0, <1>1, <1>2 DEF Inv, SerialInv, TotalKnown, LookupKnown, FundsKnown
<1>4. ASSUME call'[s].tenant \in Serial PROVE Knows(s)'
  <2>1. VerifyKnows(s) /\ PayoutKnows(s)
    BY <1>1, <1>4 DEF Inv, SerialInv, Knows
  <2>2. /\ Now(s)' = e.balance /\ Base(s)' = Base(s)
        /\ draft'[s] = draft[s] \cup {e}
    BY <1>1, AppendedBalance
  <2>3. /\ e \in Entry /\ e.op = OpOf(call[s].note) /\ e.ref = call[s].ref
        /\ e.balance = Running(call[s].last, OpOf(call[s].note), AmountOf(call[s]))
    BY NewEntryType DEF NewEntry, Inv
  <2>4. call[s].amount \in Nat /\ call[s].charge \in Nat /\ call[s].last \in Int
    BY DEF Inv, TypeInv, Types, Call
  <2> HIDE DEF e
  <2>5. CASE call[s].note = "collection"
    <3>1. e.op = "topup" /\ e.balance = Base(s) + call[s].amount
      BY <1>2, <2>1, <2>3, <2>5 DEF VerifyKnows, OpOf, AmountOf, Running
    <3>2. draft'[s] = {e}
      BY <1>2, <2>1, <2>2, <2>5 DEF VerifyKnows
    <3>3. NotCredited(s)' = NotCredited(s)
      BY <1>0, <1>1, <1>2 DEF NotCredited
    <3>4. VerifyKnows(s)'
      BY <1>0, <1>1, <1>2, <2>1, <2>2, <2>3, <2>5, <3>1, <3>2, <3>3 DEF VerifyKnows
    <3>5. QED
      BY <1>0, <1>1, <2>5, <3>4 DEF Knows, PayoutKnows
  <2>6. CASE call[s].note = "disbursement"
    <3>1. e.op = "deduct" /\ e.balance = Base(s) - call[s].amount
      BY <1>2, <2>1, <2>3, <2>6 DEF PayoutKnows, OpOf, AmountOf, Running
    <3>2. PayoutKnows(s)'
      BY <1>0, <1>1, <1>2, <2>1, <2>2, <2>6, <3>1 DEF PayoutKnows
    <3>3. QED
      BY <1>0, <1>1, <2>6, <3>2 DEF Knows, VerifyKnows
  <2>7. CASE call[s].note = "txn charges"
    <3>1. e.op = "deduct" /\ e.balance = Base(s) - call[s].amount - call[s].charge
      BY <1>2, <2>1, <2>3, <2>7 DEF PayoutKnows, OpOf, AmountOf, Running
    <3>2. PayoutKnows(s)'
      BY <1>0, <1>1, <1>2, <2>1, <2>2, <2>7, <3>1 DEF PayoutKnows
    <3>3. QED
      BY <1>0, <1>1, <2>7, <3>2 DEF Knows, VerifyKnows
  <2>8. QED
    BY <1>0, <1>1, <2>5, <2>6, <2>7
<1>5. Busy(s)
  BY <1>2 DEF Busy
<1>6. QED
  BY <1>0, <1>1, <1>2, <1>3, <1>4, <1>5, UncommittedStep

LEMMA ReadCompanyStep ==
  ASSUME Inv, NEW s \in Slot, ReadCompany(s)
  PROVE  SerialInv'
<1> DEFINE value == wallet[call[s].tenant]
<1>1. /\ call'[s].tenant = call[s].tenant /\ call'[s].note = call[s].note
      /\ call'[s].seen = value /\ call'[s].ref = call[s].ref
      /\ call'[s].amount = call[s].amount /\ call'[s].charge = call[s].charge
      /\ call'[s].pc = IF value = NoCompany THEN "commit" ELSE "save"
      /\ \A o \in Slot \ {s} : call'[o] = call[o]
  BY DEF ReadCompany, Inv, TypeInv, Types, Call
<1>2. UNCHANGED <<ledger, wallet, draft>> /\ call[s].pc = "company"
  BY DEF ReadCompany
<1>3. TotalKnown(s)' /\ LookupKnown(s)' /\ FundsKnown(s)'
  BY <1>1, <1>2 DEF Inv, SerialInv, TotalKnown, LookupKnown, FundsKnown
<1>4. ASSUME call'[s].tenant \in Serial PROVE Knows(s)'
  <2>1. VerifyKnows(s) /\ PayoutKnows(s)
    BY <1>1, <1>4 DEF Inv, SerialInv, Knows
  <2>2. call[s].note = "collection"
    BY <1>2, <2>1 DEF PayoutKnows
  <2>3. /\ Base(s)' = Base(s) /\ Now(s)' = Now(s)
        /\ NotCredited(s)' = NotCredited(s)
    BY <1>1, <1>2, SameBalances
  <2>4. VerifyKnows(s)'
    BY <1>1, <1>2, <2>1, <2>2, <2>3 DEF VerifyKnows
  <2>5. QED
    BY <1>1, <2>2, <2>4 DEF Knows, PayoutKnows
<1>5. Busy(s)
  BY <1>2 DEF Busy
<1>6. QED
  BY <1>1, <1>2, <1>3, <1>4, <1>5, UncommittedStep

LEMMA SaveCompanyStep ==
  ASSUME Inv, NEW s \in Slot, SaveCompany(s)
  PROVE  SerialInv'
<1>1. /\ call'[s].tenant = call[s].tenant /\ call'[s].note = call[s].note
      /\ call'[s].seen = call[s].seen /\ call'[s].ref = call[s].ref
      /\ call'[s].amount = call[s].amount /\ call'[s].charge = call[s].charge
      /\ call'[s].pc = "commit"
      /\ \A o \in Slot \ {s} : call'[o] = call[o]
  BY DEF SaveCompany, Go, Inv, TypeInv, Types, Call
<1>2. UNCHANGED <<ledger, wallet, draft>> /\ call[s].pc = "save"
  BY DEF SaveCompany
<1>3. TotalKnown(s)' /\ LookupKnown(s)' /\ FundsKnown(s)'
  BY <1>1, <1>2 DEF Inv, SerialInv, TotalKnown, LookupKnown, FundsKnown
<1>4. ASSUME call'[s].tenant \in Serial PROVE Knows(s)'
  <2>1. VerifyKnows(s) /\ PayoutKnows(s)
    BY <1>1, <1>4 DEF Inv, SerialInv, Knows
  <2>2. /\ Base(s)' = Base(s) /\ Now(s)' = Now(s)
        /\ NotCredited(s)' = NotCredited(s)
    BY <1>1, <1>2, SameBalances
  <2>3. VerifyKnows(s)'
    BY <1>1, <1>2, <2>1, <2>2 DEF VerifyKnows
  <2>4. PayoutKnows(s)'
    BY <1>1, <1>2, <2>1, <2>2 DEF PayoutKnows
  <2>5. QED
    BY <2>3, <2>4 DEF Knows
<1>5. Busy(s)
  BY <1>2 DEF Busy
<1>6. QED
  BY <1>1, <1>2, <1>3, <1>4, <1>5, UncommittedStep

(* The charge of a whole amount is whole, so the wallet loses exactly the  *)
(* total it was compared with.                                             *)
LEMMA TotalIsWhole ==
  ASSUME TypeInv, NEW s \in Slot, TotalKnown(s), call[s].note # "collection",
         call[s].seen \in Int, 10 * call[s].seen >= call[s].amount + call[s].charge
  PROVE  NewBalance(call[s]) >= 0
<1>1. PICK a \in PayoutAmount, dest \in DestinationType :
        call[s].amount = 10 * a /\ call[s].charge = ChargeFor(dest, a)
  BY DEF TotalKnown
<1>2. a \in Nat
  BY PayoutAssumption
<1>3. \E k \in Nat : call[s].amount + call[s].charge = 10 * k
  <2>1. \E k \in {100, 500, 900, 2000, 5000} : ChargeFor(dest, a) = 10 * k
    BY DEF ChargeFor
  <2>2. PICK k \in {100, 500, 900, 2000, 5000} : ChargeFor(dest, a) = 10 * k
    BY <2>1
  <2>3. a + k \in Nat /\ 10 * a + 10 * k = 10 * (a + k)
    BY <1>2, <2>2
  <2>4. QED
    BY <1>1, <2>2, <2>3
<1>4. PICK k \in Nat : call[s].amount + call[s].charge = 10 * k
  BY <1>3
<1>5. (10 * k) \div 10 = k
  OBVIOUS
<1>6. call[s].seen >= k
  BY <1>4
<1>7. NewBalance(call[s]) = call[s].seen - k
  BY <1>4, <1>5 DEF NewBalance, DeductBalance
<1>8. QED
  BY <1>6, <1>7

LEMMA CommitStep ==
  ASSUME Inv, NEW s \in Slot, Commit(s)
  PROVE  SerialInv'
<1> DEFINE c == call[s]
           t == call[s].tenant
<1>1. /\ c \in Call /\ c.pc = "commit" /\ t \in Tenant /\ Busy(s)
      /\ ledger' = ledger \cup draft[s]
      /\ \A e \in draft[s] : e.tenant = t
  BY DEF Commit, Inv, TypeInv, Types, RowsOrdered, Call, Busy
<1>2. /\ call'[s] = IdleCall
      /\ \A o \in Slot \ {s} : call'[o] = call[o] /\ draft'[o] = draft[o]
  <2>1. call \in [Slot -> Call] /\ draft \in [Slot -> SUBSET Entry]
    BY DEF Inv, TypeInv, Types
  <2>2. call' = [call EXCEPT ![s] = IdleCall] /\ draft' = [draft EXCEPT ![s] = {}]
    BY DEF Commit, Done
  <2>3. QED
    BY <2>1, <2>2
<1>3. /\ wallet'[t] = IF c.seen = NoCompany THEN wallet[t] ELSE NewBalance(c)
      /\ \A u \in Tenant : u # t => wallet'[u] = wallet[u]
  BY <1>1 DEF Commit, Inv, TypeInv, Types
<1>4. \A u : u # t => Committed(u)' = Committed(u)
  BY <1>1 DEF Committed
<1>5. \A u : u = t => Committed(u)' = Committed(u) \cup draft[s]
  BY <1>1 DEF Committed
<1>6. ~Busy(s)' /\ (Knows(s) /\ TotalKnown(s) /\ LookupKnown(s) /\ FundsKnown(s))'
  BY <1>2 DEF IdleCall, Busy, Knows, VerifyKnows, PayoutKnows, TotalKnown,
              LookupKnown, FundsKnown
<1>7. Alone'
  BY <1>2, <1>6 DEF Alone, Busy, Inv, SerialInv
<1>8. ASSUME NEW o \in Slot PROVE TotalKnown(o)' /\ LookupKnown(o)' /\ FundsKnown(o)'
  BY <1>2, <1>6 DEF TotalKnown, LookupKnown, FundsKnown, Inv, SerialInv
<1>9. ASSUME NEW o \in Slot, call'[o].tenant \in Serial PROVE Knows(o)'
  <2>1. CASE o = s
    BY <1>6, <2>1
  <2>2. CASE o # s
    <3>1. call'[o] = call[o] /\ draft'[o] = draft[o] /\ Knows(o)
      BY <1>2, <1>9, <2>2 DEF Inv, SerialInv
    <3>2. CASE Busy(o)
      <4>1. call[o].tenant # t /\ call[o].tenant \in Tenant
        BY <1>1, <1>9, <2>2, <3>1, <3>2 DEF Inv, SerialInv, Alone, TypeInv, Types, Call
      <4>2. /\ Committed(call[o].tenant)' = Committed(call[o].tenant)
            /\ wallet'[call[o].tenant] = wallet[call[o].tenant]
        BY <1>3, <1>4, <3>1, <4>1 DEF Committed
      <4>3. QED
        BY <3>1, <4>2, KnowsFrame
    <3>3. CASE ~Busy(o)
      BY <3>1, <3>3, QuietKnows
    <3>4. QED
      BY <3>2, <3>3
  <2>3. QED
    BY <2>1, <2>2
<1>10. t \in Serial => VerifyKnows(s) /\ PayoutKnows(s)
  BY DEF Inv, SerialInv, Knows
<1>11. ASSUME NEW u \in Serial PROVE CreditedOnce(u)'
  <2>1. CASE u # t
    <3>1. Committed(u)' = Committed(u)
      BY <1>4, <2>1
    <3>2. CreditedOnce(u)
      BY DEF Inv, SerialInv, SerialCreditedOnce
    <3>3. QED
      BY <3>1, <3>2 DEF CreditedOnce
  <2>2. CASE u = t
    <3>1. CreditedOnce(t) /\ VerifyKnows(s) /\ PayoutKnows(s)
      BY <1>10, <2>2 DEF Inv, SerialInv, SerialCreditedOnce
    <3>2. CASE c.note = "collection"
      <4>1. PICK e \in draft[s] : draft[s] = {e} /\ e.op = "topup" /\ e.ref = c.ref
        BY <1>1, <3>1, <3>2 DEF VerifyKnows
      <4>2. \A f \in Committed(t) : f.op = "topup" => f.ref # e.ref
        <5>1. NotCredited(s)
          BY <1>1, <3>1, <3>2 DEF VerifyKnows
        <5>2. QED
          BY <4>1, <5>1 DEF NotCredited, Committed
      <4>3. Committed(u)' = Committed(u) \cup {e}
        BY <1>5, <2>2, <4>1
      <4>4. QED
        BY <2>2, <3>1, <4>1, <4>2, <4>3 DEF CreditedOnce
    <3>3. CASE c.note # "collection"
      <4>1. \A e \in draft[s] : e.op # "topup"
        BY <1>1, <3>1, <3>3 DEF PayoutKnows
      <4>2. QED
        BY <1>5, <2>2, <3>1, <4>1 DEF CreditedOnce
    <3>4. QED
      BY <3>2, <3>3
  <2>3. QED
    BY <2>1, <2>2
<1>12. ASSUME NEW u \in Serial PROVE NotOverdrawn(u)'
  <2>1. u \in Tenant /\ NotOverdrawn(u)
    BY TenantAssumption DEF Inv, SerialInv, SerialNotOverdrawn
  <2>2. CASE u # t \/ c.seen = NoCompany
    BY <1>3, <2>1, <2>2 DEF NotOverdrawn
  <2>3. CASE u = t /\ c.seen # NoCompany
    <3>1. /\ VerifyKnows(s) /\ PayoutKnows(s)
          /\ c.seen \in Int /\ c.amount \in Nat /\ c.charge \in Nat
      BY <1>1, <1>10, <2>3 DEF Call
    <3>2. CASE c.note = "collection"
      <4>1. c.seen = wallet[t]
        BY <1>1, <3>1, <3>2 DEF VerifyKnows
      <4>2. c.seen >= 0
        BY <2>1, <2>3, <4>1 DEF NotOverdrawn
      <4>3. Round(c.amount) >= 0
        BY <3>1 DEF Round
      <4>4. NewBalance(c) >= 0
        BY <3>1, <3>2, <4>2, <4>3 DEF NewBalance, ApplyTopupBalance, Round
      <4>5. QED
        BY <1>3, <2>3, <4>4 DEF NotOverdrawn
    <3>3. CASE c.note # "collection"
      <4>1. 10 * c.seen >= c.amount + c.charge
        BY <1>1, <3>1, <3>3 DEF PayoutKnows
      <4>2. NewBalance(c) >= 0
        BY <3>1, <3>3, <4>1, TotalIsWhole DEF Inv, SerialInv
      <4>3. QED
        BY <1>3, <2>3, <4>2 DEF NotOverdrawn
    <3>4. QED
      BY <3>2, <3>3
  <2>4. QED
    BY <2>2, <2>3
<1>13. QED
  BY <1>7, <1>8, <1>9, <1>11, <1>12 DEF SerialInv, SerialCreditedOnce, SerialNotOverdrawn

(* Steps that move neither money nor a request. *)
LEMMA QuietStep ==
  ASSUME Inv, UNCHANGED <<ledger, wallet, draft, call>>
  PROVE  SerialInv'
<1>1. \A t : Committed(t)' = Committed(t)
  BY DEF Committed
<1>2. ASSUME NEW s \in Slot, call'[s].tenant \in Serial PROVE Knows(s)'
  <2>1. Knows(s)
    BY <1>2 DEF Inv, SerialInv
  <2>2. QED
    BY <1>1, <2>1, KnowsFrame
<1>3. \A s \in Slot : (TotalKnown(s) /\ LookupKnown(s) /\ FundsKnown(s))'
  BY DEF Inv, SerialInv, TotalKnown, LookupKnown, FundsKnown
<1>4. Alone'
  BY DEF Alone, Busy, Inv, SerialInv
<1>5. SerialCreditedOnce' /\ SerialNotOverdrawn'
  BY <1>1 DEF SerialCreditedOnce, CreditedOnce, SerialNotOverdrawn, NotOverdrawn,
              Inv, SerialInv
<1>6. QED
  BY <1>2, <1>3, <1>4, <1>5 DEF SerialInv

LEMMA SerialStep == Inv /\ [Next]_vars => SerialInv'
<1> SUFFICES ASSUME Inv, [Next]_vars PROVE SerialInv'
  OBVIOUS
<1>1. CASE \/ \E t \in Tenant, r \in Ref : Charge(t, r)
         \/ \E key \in Key, r \in Ref : Settle(key, r)
  BY <1>1, QuietStep DEF Charge, Settle
<1>2. ASSUME NEW s \in Slot, NEW t \in Tenant, NEW r \in Ref, Verify(s, t, r) PROVE SerialInv'
  BY <1>2, VerifyStep
<1>3. ASSUME NEW s \in Slot, NEW t \in Tenant, NEW dest \in DestinationType,
             NEW a \in PayoutAmount, CreateDisbursement(s, t, dest, a)
      PROVE  SerialInv'
  BY <1>3, DisburseStep
<1>4. ASSUME NEW s \in Slot, Statement(s) PROVE SerialInv'
  BY <1>4, LookupStep, CheckFundsStep, InsertPayoutStep, ReadLastStep, InsertEntryStep,
     ReadCompanyStep, SaveCompanyStep, CommitStep DEF Statement
<1>5. ASSUME NEW s \in Slot, Rollback(s) PROVE SerialInv'
  <2>1. \A o \in Slot \ {s} : draft'[o] = draft[o]
    BY <1>5 DEF Rollback, Inv, TypeInv, Types
  <2>2. QED
    BY <1>5, <2>1, GiveUpStep DEF Rollback
<1>6. CASE UNCHANGED vars
  BY <1>6, QuietStep DEF vars
<1>7. QED
  BY <1>1, <1>2, <1>3, <1>4, <1>5, <1>6 DEF Next

LEMMA InvAlways == Spec => []Inv
<1>1. Init => Inv
  BY TypeInit, SerialInit DEF Inv
<1>2. Inv /\ [Next]_vars => Inv'
  BY TypeStep, SerialStep DEF Inv
<1>3. QED
  BY <1>1, <1>2, PTL DEF Spec

(* payments/services.go 327-330: for a tenant whose client sends one       *)
(* request at a time, no payment is ever credited twice, however often     *)
(* Verify is called and wherever its earlier calls died.                   *)
THEOREM PaymentsCreditedOnce == Spec => []SerialCreditedOnce
<1>1. Inv => SerialCreditedOnce
  BY DEF Inv, SerialInv
<1>2. QED
  BY <1>1, InvAlways, PTL

(* disbursement/services.go 134-135: for such a tenant the wallet never    *)
(* goes below zero, whatever amounts are asked for.                        *)
THEOREM WalletNeverOverdrawn == Spec => []SerialNotOverdrawn
<1>1. Inv => SerialNotOverdrawn
  BY DEF Inv, SerialInv
<1>2. QED
  BY <1>1, InvAlways, PTL
=============================================================================
