------------------------------- MODULE Wallet -------------------------------
(***************************************************************************)
(* The money of a tenant: the append-only transaction ledger, the company  *)
(* wallet that mirrors it, the payment verification that credits both and  *)
(* the disbursement that debits both, as HTTP requests running over        *)
(* PostgreSQL at its default isolation level (READ COMMITTED).             *)
(*                                                                         *)
(* A slot is a client connection with at most one request in flight.  Each *)
(* step of a request is one SQL statement: it sees the committed rows and  *)
(* the rows its own transaction has written, an UPDATE of a company row    *)
(* waits for the transaction that wrote it before, and a COMMIT publishes  *)
(* everything at once.  A failed statement, a lost connection or a killed  *)
(* server rolls the open transaction back.                                 *)
(*                                                                         *)
(* Ledger amounts are float64 in the code and are counted in tenths of the *)
(* currency unit here; the wallet is an int of whole units.  The currency  *)
(* label of the wallet is left out.                                        *)
(***************************************************************************)
EXTENDS Integers, FiniteSetsExt

CONSTANTS
  Slot,          \* client connections
  Tenant,        \* users that own a company
  Ref,           \* payment references (tx_ref) handed to the gateway
  Key,           \* secret keys of gateway accounts
  Keys,          \* [Tenant -> SUBSET Key]: the keys a request of a tenant may carry
  Price,         \* [Ref -> Nat]: what a payment is for, in tenths
  PayoutAmount,  \* whole amounts a disbursement may ask for
  Serial,        \* tenants whose clients wait for one answer before the next request
  Orphan,        \* tenants whose signup died before their company was created
  NoCompany,     \* "record not found" for the company row
  MaxPayouts,    \* bound: disbursement rows ever inserted
  MaxFaults      \* bound: transactions rolled back by a failure

DestinationType == {"Mobile Money", "Bank Transfer"}
Operation == {"topup", "deduct"}
TransactionNote == {"collection", "disbursement", "txn charges"}

ASSUME RefAssumption == Ref \cap Nat = {}
ASSUME KeysAssumption == Keys \in [Tenant -> SUBSET Key]
ASSUME PriceAssumption == Price \in [Ref -> Nat \ {0}]
ASSUME PayoutAssumption == PayoutAmount \subseteq Nat \ {0}
ASSUME TenantAssumption ==
  Tenant # {} /\ Serial \subseteq Tenant /\ Orphan \subseteq Tenant
ASSUME NoCompanyAssumption == NoCompany \notin Int
ASSUME BoundAssumption == MaxPayouts \in Nat /\ MaxFaults \in Nat

VARIABLES
  gateway,     \* status of each payment in each account at the gateway
  ledger,      \* committed transaction rows
  wallet,      \* committed company balance, or NoCompany
  payouts,     \* committed disbursement rows
  draft,       \* transaction rows each open database transaction has inserted
  call,        \* the request in flight on each slot
  nextEntry,   \* id sequence of the transactions table
  nextPayout,  \* id sequence of the disbursements table
  faults       \* failures so far

vars == <<gateway, ledger, wallet, payouts, draft, call,
          nextEntry, nextPayout, faults>>

PC == {"idle", "lookup", "funds", "payout", "read", "insert", "company",
       "save", "commit"}

(* Columns of a transaction row that any property can tell apart. *)
Entry == [id : Nat, tenant : Tenant, ref : Ref \cup Nat, op : Operation,
          note : TransactionNote, amount : Nat, balance : Int]

Payout == [id : Nat, tenant : Tenant, amount : Nat, charge : Nat]

(* Local variables of a handler; note is the posting it is at. *)
Call == [pc : PC, tenant : Tenant, ref : Ref \cup Nat,
         note : TransactionNote, amount : Nat, charge : Nat,
         last : Int, seen : Int \cup {NoCompany}]

Busy(s) == call[s].pc # "idle"
IsTopup(s) == call[s].note = "collection"

-----------------------------------------------------------------------------
(* chargeFor, in tenths. *)
ChargeFor(dest, amount) ==
  IF dest = "Bank Transfer" THEN 50000
  ELSE IF amount <= 2500 THEN 1000
  ELSE IF amount <= 50000 THEN 5000
  ELSE IF amount <= 500000 THEN 9000
  ELSE 20000

(* Seeded fault: int(amount), without the rounding. *)
RoundTruncated(amount) == amount \div 10

(* int(math.Round(amount)) for a non-negative amount in tenths. *)
Round(amount) == (amount + 5) \div 10

(* The balance ApplyTopupBalance or CreateDisbursement writes back. *)
ApplyTopupBalance(seen, amount) == seen + Round(amount)
DeductBalance(seen, total) == seen - (total \div 10)

(* Seeded fault: the wallet loses the amount and forgets the charge. *)
NewBalanceNoCharge(c) ==
  IF c.note = "collection"
  THEN ApplyTopupBalance(c.seen, c.amount)
  ELSE DeductBalance(c.seen, c.amount)

NewBalance(c) ==
  IF c.note = "collection"
  THEN ApplyTopupBalance(c.seen, c.amount)
  ELSE DeductBalance(c.seen, c.amount + c.charge)

(* Seeded faults: the user_id condition is dropped; the query runs on      *)
(* another connection and misses the transaction's own rows.               *)
VisibleUnscoped(s) == ledger \cup draft[s]
VisibleOutside(s) == {e \in ledger : e.tenant = call[s].tenant}

(* SELECT ... WHERE user_id = ? inside the transaction of s. *)
Visible(s) == {e \in ledger \cup draft[s] : e.tenant = call[s].tenant}

Committed(t) == {e \in ledger : e.tenant = t}

(* ORDER BY id DESC LIMIT 1; no row means a balance of 0. *)
Latest(rows) == CHOOSE e \in rows : \A f \in rows : f.id <= e.id
LastBalance(rows) == IF rows = {} THEN 0 ELSE Latest(rows).balance

(* The running balance CreateTransaction computes. *)
Running(last, op, amount) ==
  IF op = "topup" THEN last + amount ELSE last - amount

OpOf(note) == IF note = "collection" THEN "topup" ELSE "deduct"
(* Seeded fault: a charge is posted as a negative amount. *)
AmountOfSigned(c) == IF c.note = "txn charges" THEN -c.charge ELSE c.amount

AmountOf(c) == IF c.note = "txn charges" THEN c.charge ELSE c.amount

(* The slot holds the row lock its UPDATE of the company row took. *)
HoldsRow(s, t) ==
  call[s].pc = "commit" /\ call[s].tenant = t /\ call[s].seen # NoCompany

(* A serial tenant's client has no other request in flight. *)
MayCall(t) == t \in Serial => \A s \in Slot : Busy(s) => call[s].tenant # t

(* A connection between two requests remembers nothing. *)
IdleCall ==
  [pc |-> "idle", tenant |-> CHOOSE t \in Tenant : TRUE, ref |-> 0,
   note |-> "collection", amount |-> 0, charge |-> 0, last |-> 0,
   seen |-> NoCompany]

Go(s, pc) == call' = [call EXCEPT ![s].pc = pc]
Done(s) == call' = [call EXCEPT ![s] = IdleCall]

-----------------------------------------------------------------------------
Init ==
  /\ gateway = [key \in Key |-> [r \in Ref |-> "none"]]
  /\ ledger = {}
  /\ wallet = [t \in Tenant |-> IF t \in Orphan THEN NoCompany ELSE 0]
  /\ payouts = {}
  /\ draft = [s \in Slot |-> {}]
  /\ call = [s \in Slot |-> IdleCall]
  /\ nextEntry = 1
  /\ nextPayout = 1
  /\ faults = 0

(* POST /payments/charge: the payment exists at the gateway from now on,   *)
(* in the account of the key secretKey finds: the tenant's own setting or, *)
(* while it has none, the key of the environment that all tenants share.   *)
(* A setting may be edited between two requests, so a tenant may have used *)
(* several keys.                                                           *)
Charge(t, r) ==
  /\ \E key \in Keys[t] :
        /\ gateway[key][r] = "none"
        /\ gateway' = [gateway EXCEPT ![key][r] = "pending"]
  /\ UNCHANGED <<ledger, wallet, payouts, draft, call, nextEntry, nextPayout,
                 faults>>

(* The customer answers the prompt of the mobile money operator. *)
Settle(key, r) ==
  /\ gateway[key][r] = "pending"
  /\ \E status \in {"successful", "failed"} :
        gateway' = [gateway EXCEPT ![key][r] = status]
  /\ UNCHANGED <<ledger, wallet, payouts, draft, call, nextEntry, nextPayout,
                 faults>>

(* The gateway answers a request of t about r with this status. *)
Answers(t, r, status) == \E key \in Keys[t] : gateway[key][r] = status

(* Seeded fault: a payment the customer has not yet approved counts. *)
VerifyPending(s, t, r) ==
  /\ ~Busy(s) /\ MayCall(t)
  /\ Answers(t, r, "pending") \/ Answers(t, r, "successful")
  /\ call' = [call EXCEPT ![s] =
       [pc |-> "lookup", tenant |-> t, ref |-> r, note |-> "collection",
        amount |-> Price[r], charge |-> 0, last |-> 0, seen |-> NoCompany]]
  /\ UNCHANGED <<gateway, ledger, wallet, payouts, draft, nextEntry,
                 nextPayout, faults>>

(* Verify up to the gateway's answer.  Any reference may be asked about,   *)
(* whoever charged it.  An answer other than "successful" ends the request *)
(* without touching any state, so only this one counts.                    *)
Verify(s, t, r) ==
  /\ ~Busy(s) /\ MayCall(t)
  /\ Answers(t, r, "successful")
  /\ call' = [call EXCEPT ![s] =
       [pc |-> "lookup", tenant |-> t, ref |-> r, note |-> "collection",
        amount |-> Price[r], charge |-> 0, last |-> 0, seen |-> NoCompany]]
  /\ UNCHANGED <<gateway, ledger, wallet, payouts, draft, nextEntry,
                 nextPayout, faults>>

(* Seeded fault: the idempotency check is gone. *)
LookupSkipped(s) ==
  /\ call[s].pc = "lookup" /\ Go(s, "read")
  /\ UNCHANGED <<gateway, ledger, wallet, payouts, draft, nextEntry,
                 nextPayout, faults>>

(* Seeded fault: the user_id condition of the check is dropped. *)
LookupUnscoped(s) ==
  /\ call[s].pc = "lookup"
  /\ IF \E e \in ledger : e.ref = call[s].ref THEN Done(s) ELSE Go(s, "read")
  /\ UNCHANGED <<gateway, ledger, wallet, payouts, draft, nextEntry,
                 nextPayout, faults>>

(* Verify asks, outside any transaction, for an entry with this tx_ref. *)
Lookup(s) ==
  /\ call[s].pc = "lookup"
  /\ IF \E e \in Committed(call[s].tenant) : e.ref = call[s].ref
     THEN Done(s)
     ELSE Go(s, "read")
  /\ UNCHANGED <<gateway, ledger, wallet, payouts, draft, nextEntry,
                 nextPayout, faults>>

(* POST /disbursements after validation; the charge is fixed here. *)
CreateDisbursement(s, t, dest, amount) ==
  /\ ~Busy(s) /\ MayCall(t)
  /\ nextPayout <= MaxPayouts
  /\ call' = [call EXCEPT ![s] =
       [pc |-> "funds", tenant |-> t, ref |-> 0, note |-> "disbursement",
        amount |-> 10 * amount, charge |-> ChargeFor(dest, amount),
        last |-> 0, seen |-> NoCompany]]
  /\ UNCHANGED <<gateway, ledger, wallet, payouts, draft, nextEntry,
                 nextPayout, faults>>

(* Seeded fault: only a missing company is refused. *)
CoversAlways(value, total) == value # NoCompany

Covers(value, total) == value # NoCompany /\ 10 * value >= total

(* First statement of the transaction: read the company, compare, give up  *)
(* with "company wallet not found" or "insufficient wallet balance".       *)
CheckFunds(s) ==
  /\ call[s].pc = "funds"
  /\ LET value == wallet[call[s].tenant] IN
     IF Covers(value, call[s].amount + call[s].charge)
     THEN call' = [call EXCEPT ![s].pc = "payout", ![s].seen = value]
     ELSE Done(s)
  /\ UNCHANGED <<gateway, ledger, wallet, payouts, draft, nextEntry,
                 nextPayout, faults>>

(* INSERT of the disbursement row.  Its id stands for the generated        *)
(* transaction id that the two ledger entries carry.                       *)
InsertPayout(s) ==
  /\ call[s].pc = "payout"
  /\ call' = [call EXCEPT ![s].pc = "read", ![s].ref = nextPayout]
  /\ nextPayout' = nextPayout + 1
  /\ UNCHANGED <<gateway, ledger, wallet, payouts, draft, nextEntry, faults>>

(* CreateTransaction: read the tenant's latest entry ... *)
ReadLast(s) ==
  /\ call[s].pc = "read"
  /\ call' = [call EXCEPT ![s].pc = "insert",
                          ![s].last = LastBalance(Visible(s))]
  /\ UNCHANGED <<gateway, ledger, wallet, payouts, draft, nextEntry,
                 nextPayout, faults>>

NewEntry(c) ==
  [id |-> nextEntry, tenant |-> c.tenant, ref |-> c.ref, op |-> OpOf(c.note),
   note |-> c.note, amount |-> AmountOf(c),
   balance |-> Running(c.last, OpOf(c.note), AmountOf(c))]

(* Seeded fault: the row is inserted through s.DB instead of dbtx. *)
InsertEntryOutside(s) ==
  /\ call[s].pc = "insert"
  /\ ledger' = ledger \cup {NewEntry(call[s])}
  /\ nextEntry' = nextEntry + 1
  /\ \/ call[s].note = "collection" /\ Go(s, "company")
     \/ /\ call[s].note = "disbursement"
        /\ call' = [call EXCEPT ![s].pc = "read", ![s].note = "txn charges"]
     \/ call[s].note = "txn charges" /\ Go(s, "save")
  /\ UNCHANGED <<gateway, draft, wallet, payouts, nextPayout, faults>>

(* ... and append one computed from it.  A disbursement posts its amount,  *)
(* then its charge; the id comes from the table's sequence, which a        *)
(* rollback does not give back.                                            *)
InsertEntry(s) ==
  /\ call[s].pc = "insert"
  /\ draft' = [draft EXCEPT ![s] = @ \cup {NewEntry(call[s])}]
  /\ nextEntry' = nextEntry + 1
  /\ \/ call[s].note = "collection" /\ Go(s, "company")
     \/ /\ call[s].note = "disbursement"
        /\ call' = [call EXCEPT ![s].pc = "read", ![s].note = "txn charges"]
     \/ call[s].note = "txn charges" /\ Go(s, "save")
  /\ UNCHANGED <<gateway, ledger, wallet, payouts, nextPayout, faults>>

(* Verify reads the company; without one only the ledger is written. *)
ReadCompany(s) ==
  /\ call[s].pc = "company"
  /\ LET value == wallet[call[s].tenant] IN
     call' = [call EXCEPT ![s].seen = value,
                          ![s].pc = IF value = NoCompany THEN "commit" ELSE "save"]
  /\ UNCHANGED <<gateway, ledger, wallet, payouts, draft, nextEntry,
                 nextPayout, faults>>

(* Seeded fault: the company is saved through s.DB instead of dbtx. *)
SaveCompanyOutside(s) ==
  /\ call[s].pc = "save"
  /\ wallet' = [wallet EXCEPT ![call[s].tenant] = NewBalance(call[s])]
  /\ Go(s, "commit")
  /\ UNCHANGED <<gateway, ledger, payouts, draft, nextEntry, nextPayout,
                 faults>>

(* Save(&company): the UPDATE waits while another transaction has written  *)
(* the row, then writes the balance computed from what was read earlier.   *)
SaveCompany(s) ==
  /\ call[s].pc = "save"
  /\ \A o \in Slot : ~HoldsRow(o, call[s].tenant)
  /\ Go(s, "commit")
  /\ UNCHANGED <<gateway, ledger, wallet, payouts, draft, nextEntry,
                 nextPayout, faults>>

(* Seeded fault: the error of Save(&company) is swallowed. *)
CommitLedgerOnly(s) ==
  LET c == call[s] IN
  /\ c.pc = "commit"
  /\ ledger' = ledger \cup draft[s]
  /\ payouts' = IF IsTopup(s) THEN payouts
                ELSE payouts \cup {[id |-> c.ref, tenant |-> c.tenant,
                                    amount |-> c.amount, charge |-> c.charge]}
  /\ draft' = [draft EXCEPT ![s] = {}]
  /\ Done(s)
  /\ UNCHANGED <<gateway, wallet, nextEntry, nextPayout, faults>>

(* COMMIT publishes the rows and the balance together. *)
Commit(s) ==
  LET c == call[s] IN
  /\ c.pc = "commit"
  /\ ledger' = ledger \cup draft[s]
  /\ wallet' = IF c.seen = NoCompany THEN wallet
               ELSE [wallet EXCEPT ![c.tenant] = NewBalance(c)]
  /\ payouts' = IF IsTopup(s) THEN payouts
                ELSE payouts \cup {[id |-> c.ref, tenant |-> c.tenant,
                                    amount |-> c.amount, charge |-> c.charge]}
  /\ draft' = [draft EXCEPT ![s] = {}]
  /\ Done(s)
  /\ UNCHANGED <<gateway, nextEntry, nextPayout, faults>>

(* A statement fails, the connection is lost or the server dies: nothing   *)
(* of the open transaction survives.                                       *)
Rollback(s) ==
  /\ Busy(s)
  /\ faults < MaxFaults
  /\ faults' = faults + 1
  /\ draft' = [draft EXCEPT ![s] = {}]
  /\ Done(s)
  /\ UNCHANGED <<gateway, ledger, wallet, payouts, nextEntry, nextPayout>>

(* The next statement of the request on s. *)
Statement(s) ==
  \/ Lookup(s) \/ CheckFunds(s) \/ InsertPayout(s) \/ ReadLast(s)
  \/ InsertEntry(s) \/ ReadCompany(s) \/ SaveCompany(s) \/ Commit(s)

Next ==
  \/ \E t \in Tenant, r \in Ref : Charge(t, r)
  \/ \E key \in Key, r \in Ref : Settle(key, r)
  \/ \E s \in Slot, t \in Tenant, r \in Ref : Verify(s, t, r)
  \/ \E s \in Slot, t \in Tenant, dest \in DestinationType, a \in PayoutAmount :
        CreateDisbursement(s, t, dest, a)
  \/ \E s \in Slot : Statement(s) \/ Rollback(s)

Spec == Init /\ [][Next]_vars

(* A started request is carried on to its end by the server. *)
Progress == \A s \in Slot : WF_vars(Statement(s))

FairSpec == Spec /\ Progress

-----------------------------------------------------------------------------
Types ==
  /\ gateway \in [Key -> [Ref -> {"none", "pending", "successful", "failed"}]]
  /\ ledger \subseteq Entry
  /\ wallet \in [Tenant -> Int \cup {NoCompany}]
  /\ payouts \subseteq Payout
  /\ draft \in [Slot -> SUBSET Entry]
  /\ call \in [Slot -> Call]
  /\ nextEntry \in Nat \ {0} /\ nextPayout \in Nat \ {0} /\ faults \in Nat

(* Every variable has its type; every posted or drafted entry has an id    *)
(* below the table's sequence (transactions/models.go 44-58).              *)
TypeOK ==
  /\ Types
  /\ \A e \in ledger \cup UNION {draft[s] : s \in Slot} : e.id < nextEntry

Booked(p, note, amount) ==
  \E e \in ledger : /\ e.tenant = p.tenant /\ e.ref = p.id
                    /\ e.note = note /\ e.amount = amount /\ e.op = "deduct"

(* All or nothing (disbursement/services.go 92-95): every disbursement row *)
(* has its amount and its charge in the ledger, and every deduction in the *)
(* ledger belongs to a disbursement row of the same tenant, whatever       *)
(* fails between the five statements and whatever runs beside them.        *)
PayoutsAreBooked ==
  /\ \A p \in payouts : /\ Booked(p, "disbursement", p.amount)
                        /\ Booked(p, "txn charges", p.charge)
  /\ \A e \in ledger : e.op = "deduct" =>
        \E p \in payouts : p.id = e.ref /\ p.tenant = e.tenant

(* The balance an entry was computed from. *)
Before(e) == IF e.op = "topup" THEN e.balance - e.amount ELSE e.balance + e.amount

(* No entry is computed from a row that was rolled back, from another      *)
(* tenant's row or from a later one: what it started from is 0 or the      *)
(* balance of an earlier committed entry of its own tenant.                *)
BalancesAreGrounded ==
  \A e \in ledger :
    \/ Before(e) = 0
    \/ \E f \in ledger : /\ f.tenant = e.tenant /\ f.id < e.id
                         /\ f.balance = Before(e)

(* Reading a tenant's entries in id order, each continues from the one     *)
(* before it.                                                              *)
Earlier(e) == {f \in Committed(e.tenant) : f.id < e.id}
ChainOf(t) == \A e \in Committed(t) : Before(e) = LastBalance(Earlier(e))

CreditedOnce(t) ==
  \A e, f \in Committed(t) : (e.op = "topup" /\ f.op = "topup" /\ e.ref = f.ref)
                             => e = f

Topups(t) == {e \in Committed(t) : e.op = "topup"}
Unrounded(t) == \A e \in Topups(t) : e.amount % 10 = 0

(* Wallet and ledger agree, as long as no payment carried a fraction. *)
Mirrors(t) ==
  (t \notin Orphan /\ Unrounded(t)) => 10 * wallet[t] = LastBalance(Committed(t))

NotOverdrawn(t) == wallet[t] # NoCompany => wallet[t] >= 0

(* For a tenant whose client sends one request at a time the ledger is an  *)
(* unbroken chain (transactions/services.go 40-45), even while requests of *)
(* other tenants interleave and requests die half-way and are repeated.    *)
SerialChain == \A t \in Serial : ChainOf(t)

(* ... a payment is credited once however often Verify is called           *)
(* (payments/services.go 327-330), ...                                     *)
SerialCreditedOnce == \A t \in Serial : CreditedOnce(t)

(* ... the company wallet mirrors the ledger (disbursement/services.go     *)
(* 176), ...                                                               *)
SerialMirror == \A t \in Serial : Mirrors(t)

(* ... and drifts from it by at most half a unit per payment, since        *)
(* ApplyTopupBalance rounds each payment by itself (payments/services.go), *)
(* ...                                                                     *)
SerialDriftBounded ==
  \A t \in Serial \ Orphan :
    LET drift == 10 * wallet[t] - LastBalance(Committed(t))
        limit == 5 * Cardinality(Topups(t))
    IN -limit <= drift /\ drift <= limit

(* ... and a disbursement never takes more than the wallet holds           *)
(* (disbursement/services.go 134-135).                                     *)
SerialNotOverdrawn == \A t \in Serial : NotOverdrawn(t)

Credited(rows) == MapThenSumSet(LAMBDA e : Round(e.amount), rows)

(* However requests overlap, a wallet holds at most the rounded sum of the *)
(* payments in its tenant's ledger (payments/services.go 363-378): a save  *)
(* of a balance read long ago may bring back money that was paid out, but  *)
(* never more than came in.                                                *)
WalletIsBacked == \A t \in Tenant \ Orphan : wallet[t] <= Credited(Topups(t))

(* The payments collected in the accounts a tenant's requests can see. *)
Collected(t) ==
  {[ref |-> r, amount |-> Price[r]] : r \in {q \in Ref : Answers(t, q, "successful")}}

(* A tenant whose client sends one request at a time is credited no more   *)
(* than the gateway has collected (payments/services.go 327-337): repeated *)
(* verify calls, calls that died half-way and payments still pending or    *)
(* failed add nothing.                                                     *)
SerialCreditsCollected ==
  \A t \in Serial : Credited(Topups(t)) <= Credited(Collected(t))

(* payments/services.go 327-330: the first time a payment is seen to be    *)
(* successful it is credited, and after that no more, whoever asks.        *)
PaymentCreditedOnce ==
  \A e, f \in ledger : (e.op = "topup" /\ f.op = "topup" /\ e.ref = f.ref) => e = f

(* What a step posts for t and what it does to the wallet differ by the    *)
(* rounding of one payment.                                                *)
MovesTogether(t) ==
  LET posted == LastBalance(Committed(t))' - LastBalance(Committed(t))
      moved == 10 * (wallet'[t] - wallet[t])
  IN -5 <= moved - posted /\ moved - posted <= 5

(* A posted row is never changed or withdrawn (transactions/models.go 44); *)
(* a wallet never changes without a new row of its tenant; and the commit  *)
(* of a tenant whose client sends one request at a time moves wallet and   *)
(* ledger by the same money.                                               *)
PostedTogether ==
  [][/\ ledger \subseteq ledger'
     /\ \A t \in Tenant : wallet'[t] # wallet[t] =>
          \E e \in ledger' \ ledger : e.tenant = t
     /\ \A t \in Serial \ Orphan : MovesTogether(t)]_vars

(* A settled payment that is asked about again and again is credited in    *)
(* the end, although requests fail, die half-way and wait for each other   *)
(* (payments/services.go 327-357).  That somebody keeps asking is a        *)
(* hypothesis: nothing in the repository does.                             *)
SettledIsCredited ==
  \A t \in Tenant, r \in Ref :
    []<><<\E s \in Slot : Verify(s, t, r)>>_vars
      => <>(\E e \in ledger : e.tenant = t /\ e.ref = r)
=============================================================================
