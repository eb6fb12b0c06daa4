-------------------------- MODULE WalletImplements --------------------------
(* Proofs that for a serial tenant a COMMIT is an atomic credit or payout: *)
(* its ledger is one unbroken chain, its wallet mirrors it up to rounding, *)
(* and both behave as Account promises, whatever other tenants do.         *)
EXTENDS WalletSafety, WalletRefinement, FiniteSetTheorems

(* Every row continues from the row before it. *)
Chained(rows) ==
  \A e \in rows : Before(e) = LastBalance({f \in rows : f.id < e.id})

(* The ledger and the wallet of a tenant agree, up to rounding; signup     *)
(* alone decides whether there is a wallet, and credits can be counted.    *)
Exact(t) ==
  /\ wallet[t] = NoCompany <=> t \in Orphan
  /\ Chained(Committed(t)) /\ IsFiniteSet(Topups(t))
  /\ Mirrors(t)
  /\ t \notin Orphan =>
       LET drift == 10 * wallet[t] - LastBalance(Committed(t))
           limit == 5 * Cardinality(Topups(t))
       IN -limit <= drift /\ drift <= limit

(* What an open transaction would leave behind is a chain, too. *)
ExactInv ==
  /\ \A t \in Serial : Exact(t)
  /\ \A s \in Slot : call[s].tenant \in Serial => Chained(Visible(s))

Safe == Inv /\ BookedInv

LEMMA ChainIsChained ==
  ASSUME NEW t \in Tenant
  PROVE  ChainOf(t) <=> Chained(Committed(t))
<1>1. \A e \in Committed(t) : Earlier(e) = {f \in Committed(t) : f.id < e.id}
  BY DEF Earlier, Committed
<1>2. QED
  BY <1>1 DEF ChainOf, Chained

LEMMA ChainedOnTop ==
  ASSUME NEW X \in SUBSET Entry, NEW e \in Entry, Chained(X),
         \A f \in X : f.id < e.id, Before(e) = LastBalance(X)
  PROVE  Chained(X \cup {e})
<1>1. {f \in X \cup {e} : f.id < e.id} = X
  BY DEF Entry
<1>2. \A g \in X : {f \in X \cup {e} : f.id < g.id} = {f \in X : f.id < g.id}
  BY DEF Entry
<1>3. QED
  BY <1>1, <1>2 DEF Chained

LEMMA ExactInit == Init => ExactInv
<1> SUFFICES ASSUME Init PROVE ExactInv
  OBVIOUS
<1>1. /\ \A t : Committed(t) = {} /\ Topups(t) = {}
      /\ \A s \in Slot : Visible(s) = {}
  BY DEF Init, Committed, Topups, Visible
<1>2. Chained({}) /\ IsFiniteSet({}) /\ Cardinality({}) = 0
  BY FS_EmptySet DEF Chained
<1>3. \A t \in Tenant : wallet[t] = IF t \in Orphan THEN NoCompany ELSE 0
  BY DEF Init
<1>4. LastBalance({}) = 0
  BY DEF LastBalance
<1>5. ASSUME NEW t \in Serial PROVE Exact(t)
  <2>1. /\ wallet[t] = IF t \in Orphan THEN NoCompany ELSE 0
        /\ LastBalance(Committed(t)) = 0 /\ Cardinality(Topups(t)) = 0
    BY <1>1, <1>2, <1>3, <1>4, TenantAssumption
  <2>2. wallet[t] = NoCompany <=> t \in Orphan
    BY <2>1, NoCompanyAssumption
  <2>3. Chained(Committed(t)) /\ IsFiniteSet(Topups(t))
    BY <1>1, <1>2
  <2>4. QED
    BY <2>1, <2>2, <2>3 DEF Exact, Mirrors
<1>6. QED
  BY <1>1, <1>2, <1>5 DEF ExactInv

-----------------------------------------------------------------------------
(* The balances involved are integers. *)
LEMMA BalanceType ==
  ASSUME TypeInv, NEW t \in Tenant
  PROVE  LastBalance(Committed(t)) \in Int /\ wallet[t] \in Int \cup {NoCompany}
<1>1. Committed(t) \in SUBSET Entry /\ HasLatest(Committed(t))
  BY DEF TypeInv, Types, RowsOrdered, Committed
<1>2. QED
  BY <1>1, LastBalanceType DEF TypeInv, Types

(* A commit publishes what its transaction saw, and touches no one else. *)
LEMMA CommitFrame ==
  ASSUME TypeInv, NEW s \in Slot, NEW t \in Tenant, call[s].tenant = t, Commit(s)
  PROVE  /\ Committed(t)' = Visible(s)
         /\ \A u \in Tenant : u # t => Committed(u)' = Committed(u) /\ wallet'[u] = wallet[u]
<1>1. ledger' = ledger \cup draft[s] /\ \A e \in draft[s] : e.tenant = t
  BY DEF Commit, TypeInv, RowsOrdered
<1>2. \A u \in Tenant : u # t => wallet'[u] = wallet[u]
  BY DEF Commit, TypeInv, Types
<1>3. \A u \in Tenant : u # t => Committed(u)' = Committed(u)
  BY <1>1 DEF Committed
<1>4. Committed(t)' = Visible(s)
  BY <1>1 DEF Committed, Visible
<1>5. QED
  BY <1>2, <1>3, <1>4

(* The verification of a serial tenant commits one credit. *)
LEMMA CommitCredits ==
  ASSUME Safe, NEW s \in Slot, NEW t \in Serial, call[s].tenant = t, Commit(s), IsTopup(s)
  PROVE  \E e \in Entry :
           /\ e.op = "topup" /\ e.tenant = t /\ e.ref \in Ref /\ e.amount = Price[e.ref]
           /\ Committed(t)' = Committed(t) \cup {e}
           /\ \A f \in Topups(t) : f.ref # e.ref
           /\ LastBalance(Committed(t))' = LastBalance(Committed(t)) + e.amount
           /\ wallet'[t] = IF wallet[t] = NoCompany THEN NoCompany
                           ELSE wallet[t] + Round(e.amount)
<1> DEFINE c == call[s]
<1>1. t \in Tenant /\ TypeInv /\ c.pc = "commit" /\ c.note = "collection"
  BY TenantAssumption DEF Safe, Inv, Commit, IsTopup
<1>2. VerifyKnows(s)
  BY DEF Safe, Inv, SerialInv, Knows
<1>3. /\ c.ref \in Ref /\ c.amount = Price[c.ref] /\ NotCredited(s)
      /\ Now(s) = Base(s) + c.amount /\ c.seen = wallet[t]
  BY <1>1, <1>2 DEF VerifyKnows
<1>4. PICK e \in draft[s] : draft[s] = {e} /\ e.op = "topup" /\ e.ref = c.ref
  BY <1>1, <1>2 DEF VerifyKnows
<1>5. e \in Entry /\ e.tenant = t /\ e.amount = Price[e.ref]
  <2>1. e \in Entry
    BY <1>4 DEF Safe, Inv, TypeInv, Types
  <2>2. QED
    BY <1>1, <1>4, <2>1, CommitKnows DEF Safe, IsTopup
<1>6. Visible(s) = Committed(t) \cup {e}
  BY <1>4, <1>5 DEF Visible, Committed
<1>7. Committed(t)' = Visible(s)
  BY <1>1, CommitFrame
<1>8. LastBalance(Committed(t))' = LastBalance(Visible(s))
  BY <1>7 DEF LastBalance, Latest
<1>9. \A f \in Topups(t) : f.ref # e.ref
  BY <1>3, <1>4 DEF NotCredited, Topups, Committed
<1>10. wallet'[t] = IF wallet[t] = NoCompany THEN NoCompany
                    ELSE wallet[t] + Round(e.amount)
  <2>1. wallet'[t] = IF c.seen = NoCompany THEN wallet[t] ELSE NewBalance(c)
    BY <1>1 DEF Commit, TypeInv, Types
  <2>2. NewBalance(c) = c.seen + Round(c.amount)
    BY <1>1 DEF NewBalance, ApplyTopupBalance
  <2>3. QED
    BY <1>3, <1>4, <1>5, <2>1, <2>2
<1>11. QED
  BY <1>3, <1>4, <1>5, <1>6, <1>7, <1>8, <1>9, <1>10 DEF Now, Base

(* The disbursement of a serial tenant commits one payout of a total that  *)
(* the wallet holds.                                                       *)
LEMMA CommitPaysOut ==
  ASSUME Safe, NEW s \in Slot, NEW t \in Serial, call[s].tenant = t, Commit(s), ~IsTopup(s)
  PROVE  \E k \in Nat :
           /\ 10 * k \in Totals
           /\ wallet[t] \in Int /\ wallet[t] >= k
           /\ Topups(t)' = Topups(t)
           /\ LastBalance(Committed(t))' = LastBalance(Committed(t)) - 10 * k
           /\ wallet'[t] = wallet[t] - k
<1> DEFINE c == call[s]
<1>1. t \in Tenant /\ TypeInv /\ c.pc = "commit" /\ c.note # "collection" /\ c \in Call
  BY TenantAssumption DEF Safe, Inv, Commit, IsTopup, TypeInv, Types
<1>2. PayoutKnows(s) /\ TotalKnown(s)
  BY DEF Safe, Inv, SerialInv, Knows
<1>3. c.note = "txn charges"
  BY <1>1, <1>2 DEF PayoutKnows, Call, TransactionNote
<1>4. /\ c.seen = wallet[t] /\ c.seen # NoCompany /\ 10 * c.seen >= c.amount + c.charge
      /\ \A e \in draft[s] : e.op = "deduct"
      /\ Now(s) = Base(s) - c.amount - c.charge
  BY <1>1, <1>2, <1>3 DEF PayoutKnows
<1>5. c.seen \in Int /\ c.amount \in Nat /\ c.charge \in Nat
  BY <1>1, <1>4 DEF Call
<1>6. PICK a \in PayoutAmount, dest \in DestinationType :
        c.amount = 10 * a /\ c.charge = ChargeFor(dest, a)
  BY <1>1, <1>2 DEF TotalKnown
<1>7. \E k \in Nat : c.amount + c.charge = 10 * k
  <2>1. PICK k \in {100, 500, 900, 2000, 5000} : ChargeFor(dest, a) = 10 * k
    BY DEF ChargeFor
  <2>2. a \in Nat
    BY PayoutAssumption
  <2>3. a + k \in Nat /\ 10 * a + 10 * k = 10 * (a + k)
    BY <2>1, <2>2
  <2>4. QED
    BY <1>6, <2>1, <2>3
<1>8. PICK k \in Nat : c.amount + c.charge = 10 * k
  BY <1>7
<1>9. 10 * k \in Totals
  BY <1>6, <1>8 DEF Totals
<1>10. c.seen >= k
  BY <1>4, <1>5, <1>8
<1>11. wallet'[t] = wallet[t] - k
  <2>1. wallet'[t] = NewBalance(c)
    BY <1>1, <1>4 DEF Commit, TypeInv, Types
  <2>2. (10 * k) \div 10 = k
    OBVIOUS
  <2>3. NewBalance(c) = c.seen - k
    BY <1>1, <1>8, <2>2 DEF NewBalance, DeductBalance
  <2>4. QED
    BY <1>4, <2>1, <2>3
<1>12. Committed(t)' = Visible(s) /\ Visible(s) = Committed(t) \cup draft[s]
  <2>1. \A e \in draft[s] : e.tenant = t
    BY <1>1 DEF TypeInv, RowsOrdered
  <2>2. QED
    BY <1>1, <2>1, CommitFrame DEF Visible, Committed
<1>13. Topups(t)' = Topups(t)
  BY <1>4, <1>12 DEF Topups
<1>14. LastBalance(Committed(t))' = LastBalance(Committed(t)) - 10 * k
  <2>1. LastBalance(Committed(t))' = Now(s)
    BY <1>12 DEF LastBalance, Latest, Now
  <2>2. Base(s) = LastBalance(Committed(t)) /\ Base(s) \in Int
    BY <1>1, BalanceType DEF Base
  <2>3. QED
    BY <1>4, <1>5, <1>8, <2>1, <2>2
<1>15. QED
  BY <1>4, <1>5, <1>9, <1>10, <1>11, <1>13, <1>14

-----------------------------------------------------------------------------
(* A step that commits nothing: each transaction sees what it saw, or has  *)
(* no rows of its own, or extends a chain.                                 *)
LEMMA ExactFrame ==
  ASSUME ExactInv, UNCHANGED <<ledger, wallet>>,
         \A o \in Slot : \/ draft'[o] = {}
                         \/ draft'[o] = draft[o] /\ call'[o].tenant = call[o].tenant
                         \/ call'[o].tenant \in Serial => Chained(Visible(o))'
  PROVE  ExactInv'
<1>1. \A t : Committed(t)' = Committed(t) /\ Topups(t)' = Topups(t)
  BY DEF Committed, Topups
<1>2. ASSUME NEW o \in Slot, call'[o].tenant \in Serial PROVE Chained(Visible(o))'
  <2>1. CASE draft'[o] = {}
    <3>1. PICK u \in Serial : call'[o].tenant = u
      BY <1>2
    <3>2. Visible(o)' = Committed(u)
      BY <2>1, <3>1 DEF Visible, Committed
    <3>3. Chained(Committed(u))
      BY DEF ExactInv, Exact
    <3>4. QED
      BY <3>2, <3>3 DEF Chained, LastBalance, Latest
  <2>2. CASE draft'[o] = draft[o] /\ call'[o].tenant = call[o].tenant
    <3>1. Visible(o)' = Visible(o)
      BY <2>2 DEF Visible
    <3>2. QED
      BY <1>2, <2>2, <3>1 DEF ExactInv, Chained, LastBalance, Latest
  <2>3. QED
    BY <1>2, <2>1, <2>2
<1>3. ASSUME NEW t \in Serial PROVE Exact(t)'
  <2>1. Exact(t)
    BY DEF ExactInv
  <2>2. /\ Committed(t)' = Committed(t) /\ Topups(t)' = Topups(t)
        /\ LastBalance(Committed(t))' = LastBalance(Committed(t))
    <3>1. Committed(t)' = Committed(t) /\ Topups(t)' = Topups(t)
      BY <1>1
    <3>2. QED
      BY <3>1 DEF LastBalance, Latest
  <2>3. QED
    BY <2>1, <2>2 DEF Exact, Mirrors, Unrounded, Chained, LastBalance, Latest
<1>4. QED
  BY <1>2, <1>3 DEF ExactInv

LEMMA ExactInsertEntry ==
  ASSUME Safe, ExactInv, NEW s \in Slot, InsertEntry(s)
  PROVE  ExactInv'
<1> DEFINE c == call[s]
           e == NewEntry(c)
<1>1. /\ UNCHANGED <<ledger, wallet>> /\ c.pc = "insert"
      /\ draft'[s] = draft[s] \cup {e}
      /\ \A o \in Slot \ {s} : draft'[o] = draft[o]
  BY DEF InsertEntry, Safe, Inv, TypeInv, Types
<1>2. call'[s].tenant = c.tenant /\ \A o \in Slot \ {s} : call'[o] = call[o]
  <2>1. call \in [Slot -> Call]
    BY DEF Safe, Inv, TypeInv, Types
  <2>2. CASE Go(s, "company") \/ Go(s, "save")
    BY <2>1, <2>2 DEF Go, Call
  <2>3. CASE call' = [call EXCEPT ![s].pc = "read", ![s].note = "txn charges"]
    BY <2>1, <2>3 DEF Call
  <2>4. QED
    BY <2>2, <2>3 DEF InsertEntry
<1>3. ASSUME c.tenant \in Serial PROVE Chained(Visible(s))'
  <2>1. e \in Entry /\ e.id = nextEntry /\ e.tenant = c.tenant
    BY NewEntryType DEF NewEntry, Safe, Inv
  <2>2. Before(e) = c.last
    BY NewEntryStarts DEF Safe, Inv
  <2>3. c.last = Now(s)
    <3>1. VerifyKnows(s) /\ PayoutKnows(s)
      BY <1>3 DEF Safe, Inv, SerialInv, Knows
    <3>2. CASE draft[s] = {} /\ c.last = Base(s)
      BY <3>2, NowIsBase
    <3>3. CASE ~(draft[s] = {} /\ c.last = Base(s))
      BY <1>1, <3>1, <3>3 DEF VerifyKnows, PayoutKnows, Safe, Inv, TypeInv, Types,
                              Call, TransactionNote
    <3>4. QED
      BY <3>2, <3>3
  <2>4. Visible(s)' = Visible(s) \cup {e}
    BY <1>1, <1>2, <2>1 DEF Visible
  <2>5. Visible(s) \in SUBSET Entry
    BY VisibleLatest DEF Safe, Inv
  <2>6. \A f \in Visible(s) : f.id < e.id
    BY <2>1 DEF Visible, Safe, Inv, TypeInv, RowsOrdered
  <2>7. Chained(Visible(s))
    BY <1>3 DEF ExactInv
  <2> HIDE DEF e
  <2>8. Chained(Visible(s) \cup {e})
    BY <2>1, <2>2, <2>3, <2>5, <2>6, <2>7, ChainedOnTop DEF Now
  <2>9. QED
    BY <2>4, <2>8 DEF Chained, LastBalance, Latest
<1>4. QED
  BY <1>1, <1>2, <1>3, ExactFrame

(* A payment counts in the wallet as what it is to within half a unit, and *)
(* exactly when it has no fraction.                                        *)
LEMMA RoundIsClose ==
  ASSUME NEW a \in Nat
  PROVE  /\ Round(a) \in Nat
         /\ -5 <= 10 * Round(a) - a /\ 10 * Round(a) - a <= 5
         /\ a % 10 = 0 => 10 * Round(a) = a
  BY DEF Round

(* A credit and a payout leave a tenant exact. *)
LEMMA ExactCredit ==
  ASSUME Safe, ExactInv, NEW s \in Slot, NEW t \in Serial, call[s].tenant = t,
         Commit(s), IsTopup(s), Chained(Committed(t))'
  PROVE  Exact(t)'
<1> DEFINE last == LastBalance(Committed(t))
           size == Cardinality(Topups(t))
<1>1. PICK e \in Entry :
        /\ e.op = "topup" /\ e.tenant = t /\ e.ref \in Ref /\ e.amount = Price[e.ref]
        /\ Committed(t)' = Committed(t) \cup {e}
        /\ \A f \in Topups(t) : f.ref # e.ref
        /\ last' = last + e.amount
        /\ wallet'[t] = IF wallet[t] = NoCompany THEN NoCompany
                        ELSE wallet[t] + Round(e.amount)
  BY CommitCredits
<1>2. t \in Tenant /\ e.amount \in Nat /\ Exact(t)
  BY TenantAssumption DEF Entry, ExactInv
<1>3. last \in Int /\ wallet[t] \in Int \cup {NoCompany}
  BY <1>2, BalanceType DEF Safe, Inv
<1>4. Topups(t)' = Topups(t) \cup {e} /\ e \notin Topups(t)
  BY <1>1 DEF Topups
<1>5. /\ IsFiniteSet(Topups(t))' /\ size' = size + 1 /\ size \in Nat
  <2>1. IsFiniteSet(Topups(t))
    BY <1>2 DEF Exact
  <2>2. QED
    BY <1>4, <2>1, FS_AddElement, FS_CardinalityType
<1>6. /\ Round(e.amount) \in Nat
      /\ -5 <= 10 * Round(e.amount) - e.amount /\ 10 * Round(e.amount) - e.amount <= 5
      /\ e.amount % 10 = 0 => 10 * Round(e.amount) = e.amount
  BY <1>2, RoundIsClose
<1>7. wallet'[t] = NoCompany <=> t \in Orphan
  BY <1>1, <1>2, <1>3, <1>6, NoCompanyAssumption DEF Exact
<1>8. ASSUME t \notin Orphan
      PROVE  wallet[t] \in Int /\ wallet'[t] = wallet[t] + Round(e.amount)
  BY <1>1, <1>2, <1>3, <1>8 DEF Exact
<1>9. Mirrors(t)'
  <2>1. Unrounded(t)' => Unrounded(t) /\ e.amount % 10 = 0
    BY <1>4 DEF Unrounded
  <2>2. ASSUME t \notin Orphan, Unrounded(t)' PROVE 10 * wallet'[t] = last'
    <3>1. 10 * wallet[t] = last /\ 10 * Round(e.amount) = e.amount
      BY <1>2, <1>6, <2>1, <2>2 DEF Exact, Mirrors
    <3> HIDE DEF last
    <3>2. QED
      BY <1>1, <1>2, <1>3, <1>6, <1>8, <2>2, <3>1
  <2>3. QED
    BY <2>2 DEF Mirrors
<1>10. ASSUME t \notin Orphan
       PROVE  -(5 * size') <= 10 * wallet'[t] - last' /\ 10 * wallet'[t] - last' <= 5 * size'
  <2>1. -(5 * size) <= 10 * wallet[t] - last /\ 10 * wallet[t] - last <= 5 * size
    BY <1>2, <1>10 DEF Exact
  <2> DEFINE r == Round(e.amount)
             w == wallet[t]
  <2> HIDE DEF last, size, r, w
  <2>2. 10 * (w + r) - (last + e.amount) = (10 * w - last) + (10 * r - e.amount)
    BY <1>2, <1>3, <1>6, <1>8, <1>10 DEF r, w
  <2>3. QED
    BY <1>1, <1>2, <1>3, <1>5, <1>6, <1>8, <1>10, <2>1, <2>2 DEF r, w
<1>11. QED
  BY <1>5, <1>7, <1>9, <1>10 DEF Exact

LEMMA ExactPayOut ==
  ASSUME Safe, ExactInv, NEW s \in Slot, NEW t \in Serial, call[s].tenant = t,
         Commit(s), ~IsTopup(s), Chained(Committed(t))'
  PROVE  Exact(t)'
<1> DEFINE last == LastBalance(Committed(t))
           size == Cardinality(Topups(t))
<1>1. PICK k \in Nat :
        /\ wallet[t] \in Int /\ Topups(t)' = Topups(t)
        /\ last' = last - 10 * k /\ wallet'[t] = wallet[t] - k
  BY CommitPaysOut
<1>2. t \in Tenant /\ Exact(t)
  BY TenantAssumption DEF ExactInv
<1>3. last \in Int
  BY <1>2, BalanceType DEF Safe, Inv
<1>4. IsFiniteSet(Topups(t))' /\ size' = size
  BY <1>1, <1>2 DEF Exact
<1>5. wallet'[t] = NoCompany <=> t \in Orphan
  BY <1>1, <1>2, NoCompanyAssumption DEF Exact
<1>6. 10 * wallet'[t] - last' = 10 * wallet[t] - last
  <2> HIDE DEF last
  <2>1. QED
    BY <1>1, <1>3
<1>7. Mirrors(t)'
  <2>1. Unrounded(t)' => Unrounded(t)
    BY <1>1 DEF Unrounded
  <2>2. ASSUME t \notin Orphan, Unrounded(t)' PROVE 10 * wallet'[t] = last'
    <3>1. 10 * wallet[t] = last
      BY <1>2, <2>1, <2>2 DEF Exact, Mirrors
    <3>2. 10 * wallet'[t] \in Int /\ last' \in Int
      BY <1>1, <1>3
    <3> HIDE DEF last
    <3>3. QED
      BY <1>1, <1>3, <1>6, <3>1, <3>2
  <2>3. QED
    BY <2>2 DEF Mirrors
<1>8. QED
  BY <1>2, <1>4, <1>5, <1>6, <1>7 DEF Exact

LEMMA ExactCommit ==
  ASSUME Safe, ExactInv, NEW s \in Slot, Commit(s)
  PROVE  ExactInv'
<1> PICK t \in Tenant : call[s].tenant = t
  BY DEF Safe, Inv, TypeInv, Types, Call
<1> TypeInv
  BY DEF Safe, Inv
<1>1. /\ Committed(t)' = Visible(s)
      /\ \A u \in Tenant : u # t => Committed(u)' = Committed(u) /\ wallet'[u] = wallet[u]
  BY CommitFrame
<1>2. ASSUME NEW u \in Serial, u # t PROVE Exact(u)'
  <2>1. u \in Tenant /\ Exact(u)
    BY TenantAssumption DEF ExactInv
  <2>2. Committed(u)' = Committed(u) /\ wallet'[u] = wallet[u]
    BY <1>1, <1>2, <2>1
  <2>3. Topups(u)' = Topups(u) /\ LastBalance(Committed(u))' = LastBalance(Committed(u))
    BY <2>2 DEF Topups, LastBalance, Latest
  <2>4. QED
    BY <2>1, <2>2, <2>3 DEF Exact, Mirrors, Unrounded, Chained, LastBalance, Latest
<1>3. ASSUME t \in Serial PROVE Exact(t)'
  <2>1. Chained(Visible(s))
    BY <1>3 DEF ExactInv
  <2>2. Chained(Committed(t))'
    BY <1>1, <2>1 DEF Chained, LastBalance, Latest
  <2>3. QED
    BY <1>3, <2>2, ExactCredit, ExactPayOut
<1>4. ASSUME NEW o \in Slot, NEW u \in Serial, call'[o].tenant = u
      PROVE  Chained(Visible(o))'
  <2>1. CASE draft'[o] = {}
    <3>1. Visible(o)' = Committed(u)'
      BY <1>4, <2>1 DEF Visible, Committed
    <3>2. Exact(u)'
      BY <1>2, <1>3
    <3>3. QED
      BY <3>1, <3>2 DEF Exact, Chained, LastBalance, Latest
  <2>2. CASE draft'[o] # {}
    <3>1. o # s /\ draft'[o] = draft[o] /\ call'[o] = call[o]
      BY <2>2 DEF Commit, Done, TypeInv, Types
    <3>2. Busy(o) /\ Busy(s)
      BY <2>2, <3>1 DEF Busy, Commit, TypeInv, RowsOrdered
    <3>3. u # t
      BY <1>4, <3>1, <3>2 DEF Safe, Inv, SerialInv, Alone
    <3>4. Visible(o)' = Visible(o)
      <4>1. ledger' = ledger \cup draft[s] /\ \A e \in draft[s] : e.tenant = t
        BY DEF Commit, TypeInv, RowsOrdered
      <4>2. QED
        BY <1>4, <3>1, <3>3, <4>1 DEF Visible
    <3>5. QED
      BY <1>4, <3>1, <3>4 DEF ExactInv, Chained, LastBalance, Latest
  <2>3. QED
    BY <2>1, <2>2
<1>5. QED
  BY <1>2, <1>3, <1>4 DEF ExactInv

LEMMA ExactStep == Safe /\ ExactInv /\ [Next]_vars => ExactInv'
<1> SUFFICES ASSUME Safe, ExactInv, [Next]_vars PROVE ExactInv'
  OBVIOUS
<1> USE DEF Safe, Inv
<1> call \in [Slot -> Call] /\ draft \in [Slot -> SUBSET Entry]
  BY DEF TypeInv, Types
<1>1. CASE UNCHANGED <<ledger, wallet, draft, call>>
  BY <1>1, ExactFrame
<1>2. ASSUME NEW s \in Slot, NEW t \in Tenant, NEW r \in Ref, Verify(s, t, r)
      PROVE  ExactInv'
  <2>1. draft[s] = {}
    BY <1>2 DEF Verify, Busy, TypeInv, RowsOrdered
  <2>2. QED
    BY <1>2, <2>1, ExactFrame DEF Verify
<1>3. ASSUME NEW s \in Slot, NEW t \in Tenant, NEW dest \in DestinationType,
             NEW a \in PayoutAmount, CreateDisbursement(s, t, dest, a)
      PROVE  ExactInv'
  <2>1. draft[s] = {}
    BY <1>3 DEF CreateDisbursement, Busy, TypeInv, RowsOrdered
  <2>2. QED
    BY <1>3, <2>1, ExactFrame DEF CreateDisbursement
<1>4. ASSUME NEW s \in Slot, Lookup(s) \/ CheckFunds(s) \/ InsertPayout(s)
      PROVE  ExactInv'
  <2>1. draft[s] = {} /\ UNCHANGED <<ledger, wallet, draft>>
    BY <1>4 DEF Lookup, CheckFunds, InsertPayout, TypeInv, RowsOrdered
  <2>2. \A o \in Slot \ {s} : call'[o] = call[o]
    BY <1>4 DEF Lookup, CheckFunds, InsertPayout, Go, Done
  <2>3. QED
    BY <2>1, <2>2, ExactFrame
<1>5. ASSUME NEW s \in Slot, ReadLast(s) \/ ReadCompany(s) \/ SaveCompany(s)
      PROVE  ExactInv'
  <2>1. UNCHANGED <<ledger, wallet, draft>>
    BY <1>5 DEF ReadLast, ReadCompany, SaveCompany
  <2>2. \A o \in Slot : call'[o].tenant = call[o].tenant
    BY <1>5 DEF ReadLast, ReadCompany, SaveCompany, Go, Call
  <2>3. QED
    BY <2>1, <2>2, ExactFrame
<1>6. ASSUME NEW s \in Slot, Rollback(s) PROVE ExactInv'
  <2>1. draft'[s] = {} /\ \A o \in Slot \ {s} : draft'[o] = draft[o] /\ call'[o] = call[o]
    BY <1>6 DEF Rollback, Done
  <2>2. QED
    BY <1>6, <2>1, ExactFrame DEF Rollback
<1>7. QED
  BY <1>1, <1>2, <1>3, <1>4, <1>5, <1>6, ExactInsertEntry, ExactCommit
     DEF Next, Statement, vars, Charge, Settle

LEMMA SafeAlways == Spec => [](Safe /\ ExactInv)
<1>1. Spec => []Safe
  BY InvAlways, BookedInvAlways, PTL DEF Safe
<1>2. Init => ExactInv
  BY ExactInit
<1>3. Safe /\ ExactInv /\ [Next]_vars => ExactInv'
  BY ExactStep
<1>4. QED
  BY <1>1, <1>2, <1>3, PTL DEF Spec

(* transactions/services.go 40-45: a serial tenant's ledger is one chain,  *)
(* in the order of its ids, from 0 to its last balance.                    *)
THEOREM SerialLedgerIsChain == Spec => []SerialChain
<1>1. ExactInv => SerialChain
  BY ChainIsChained, TenantAssumption DEF ExactInv, Exact, SerialChain
<1>2. QED
  BY <1>1, SafeAlways, PTL

(* disbursement/services.go 176: its company wallet mirrors the ledger as  *)
(* long as no payment carries a fraction ...                               *)
THEOREM SerialWalletMirrors == Spec => []SerialMirror
<1>1. ExactInv => SerialMirror
  BY DEF ExactInv, Exact, SerialMirror
<1>2. QED
  BY <1>1, SafeAlways, PTL

(* ... and drifts by at most half a unit per payment when some do.         *)
THEOREM SerialDriftIsBounded == Spec => []SerialDriftBounded
<1>1. ExactInv => SerialDriftBounded
  BY DEF ExactInv, Exact, SerialDriftBounded
<1>2. QED
  BY <1>1, SafeAlways, PTL

-----------------------------------------------------------------------------
(* What is credited against what was collected.  A receipt says for which  *)
(* payment a topup was; with every payment credited once there are as many *)
(* receipts as topups, and they add up to the same.                        *)
Receipts(t) == {[ref |-> e.ref, amount |-> e.amount] : e \in Topups(t)}

(* Every payment anybody charged, so that sums over payments exist. *)
Charged ==
  {[ref |-> r, amount |-> Price[r]] :
     r \in {q \in Ref : \E key \in Key : gateway[key][q] # "none"}}

Matched(t) == IsFiniteSet(Receipts(t)) /\ Credited(Topups(t)) = Credited(Receipts(t))

CollectInv ==
  /\ IsFiniteSet(Charged)
  /\ \A t \in Serial : Matched(t)

LEMMA CollectInit == Init => CollectInv
<1> SUFFICES ASSUME Init PROVE CollectInv
  OBVIOUS
<1>1. Charged = {}
  BY DEF Init, Charged
<1>2. \A t \in Serial : Topups(t) = {} /\ Receipts(t) = {}
  BY DEF Init, Topups, Committed, Receipts
<1>3. QED
  BY <1>1, <1>2, FS_EmptySet DEF CollectInv, Matched

(* At the gateway one payment at a time appears. *)
LEMMA ChargedStep ==
  ASSUME TypeInv, CollectInv, [Next]_vars
  PROVE  IsFiniteSet(Charged)'
<1> DEFINE Seen(q) == \E key \in Key : gateway[key][q] # "none"
           Seen2(q) == \E key \in Key : gateway'[key][q] # "none"
<1>1. CASE gateway' = gateway
  BY <1>1 DEF Charged, CollectInv
<1>2. ASSUME NEW key \in Key, NEW r \in Ref, NEW status,
             gateway' = [gateway EXCEPT ![key][r] = status]
      PROVE  IsFiniteSet(Charged)'
  <2>1. \A q \in Ref : q # r => (Seen2(q) <=> Seen(q))
    BY <1>2 DEF TypeInv, Types
  <2>2. Charged' \subseteq Charged \cup {[ref |-> r, amount |-> Price[r]]}
    BY <2>1 DEF Charged
  <2>3. IsFiniteSet(Charged \cup {[ref |-> r, amount |-> Price[r]]})
    BY FS_AddElement DEF CollectInv
  <2>4. QED
    BY <2>2, <2>3, FS_Subset
<1>3. CASE \E t \in Tenant, r \in Ref : Charge(t, r)
  BY <1>2, <1>3, KeysAssumption DEF Charge
<1>4. CASE \E key \in Key, r \in Ref : Settle(key, r)
  BY <1>2, <1>4 DEF Settle
<1>5. QED
  BY <1>1, <1>3, <1>4 DEF Next, vars, Statement, Verify, CreateDisbursement, Lookup,
                          CheckFunds, InsertPayout, ReadLast, InsertEntry, ReadCompany,
                          SaveCompany, Commit, Rollback

LEMMA ReceiptsStep ==
  ASSUME Safe, ExactInv, ExactInv', CollectInv, [Next]_vars, NEW t \in Serial
  PROVE  Matched(t)'
<1> USE DEF Safe, Inv
<1>1. CASE Topups(t)' = Topups(t)
  <2>1. Receipts(t)' = Receipts(t)
    BY <1>1 DEF Receipts
  <2>2. QED
    BY <1>1, <2>1 DEF CollectInv, Matched
<1>2. ASSUME NEW s \in Slot, call[s].tenant = t, Commit(s), IsTopup(s)
      PROVE  Matched(t)'
  <2>1. PICK e \in Entry :
          /\ e.op = "topup"
          /\ Committed(t)' = Committed(t) \cup {e}
          /\ \A f \in Topups(t) : f.ref # e.ref
    BY <1>2, CommitCredits
  <2> DEFINE receipt == [ref |-> e.ref, amount |-> e.amount]
  <2>2. Topups(t)' = Topups(t) \cup {e} /\ e \notin Topups(t)
    BY <2>1 DEF Topups
  <2>3. Receipts(t)' = Receipts(t) \cup {receipt} /\ receipt \notin Receipts(t)
    BY <2>1, <2>2 DEF Receipts
  <2>4. Payments(Topups(t) \cup {e}) /\ Payments(Receipts(t) \cup {receipt})
    <3>1. IsFiniteSet(Topups(t)) /\ \A f \in Topups(t) : f.amount \in Nat
      BY DEF ExactInv, Exact, TypeInv, Types, Topups, Committed, Entry
    <3>2. IsFiniteSet(Receipts(t))
      BY DEF CollectInv, Matched
    <3>3. \A x \in Receipts(t) : x.amount \in Nat
      BY <3>1 DEF Receipts
    <3>4. e.amount \in Nat /\ receipt.amount = e.amount
      BY DEF Entry
    <3>5. IsFiniteSet(Topups(t) \cup {e}) /\ IsFiniteSet(Receipts(t) \cup {receipt})
      BY <3>1, <3>2, FS_AddElement
    <3>6. QED
      BY <3>1, <3>3, <3>4, <3>5 DEF Payments
  <2>5. Credited(Topups(t) \cup {e}) = Credited(Topups(t)) + Round(e.amount)
    BY <2>2, <2>4, CreditedMore
  <2>6. Credited(Receipts(t) \cup {receipt}) = Credited(Receipts(t)) + Round(receipt.amount)
    <3> HIDE DEF receipt
    <3> QED
      BY <2>3, <2>4, CreditedMore
  <2>7. Credited(Topups(t)) = Credited(Receipts(t)) /\ receipt.amount = e.amount
    BY DEF CollectInv, Matched
  <2>8. IsFiniteSet(Receipts(t) \cup {receipt})
    BY <2>4 DEF Payments
  <2>9. QED
    BY <2>2, <2>3, <2>5, <2>6, <2>7, <2>8 DEF Matched
<1>3. ASSUME NEW s \in Slot, Commit(s), call[s].tenant # t \/ ~IsTopup(s)
      PROVE  Topups(t)' = Topups(t)
  <2>1. t \in Tenant /\ call[s].tenant \in Tenant
    BY TenantAssumption DEF TypeInv, Types, Call
  <2>2. CASE call[s].tenant # t
    BY <1>3, <2>1, <2>2, CommitFrame DEF Topups
  <2>3. CASE call[s].tenant = t /\ ~IsTopup(s)
    BY <1>3, <2>3, CommitPaysOut
  <2>4. QED
    BY <1>3, <2>2, <2>3
<1>4. CASE ledger' = ledger
  BY <1>1, <1>4 DEF Topups, Committed
<1>5. CASE \E s \in Slot : Commit(s)
  BY <1>1, <1>2, <1>3, <1>5
<1>6. QED
  BY <1>4, <1>5 DEF Next, vars, Statement, Charge, Settle, Verify, CreateDisbursement,
                    Lookup, CheckFunds, InsertPayout, ReadLast, InsertEntry, ReadCompany,
                    SaveCompany, Rollback

(* Every receipt is of a payment the tenant's own requests see collected. *)
LEMMA ReceiptsCollected ==
  ASSUME Safe, CollectInv, NEW t \in Serial
  PROVE  Receipts(t) \subseteq Collected(t) /\ Payments(Collected(t))
<1>1. t \in Tenant /\ Keys[t] \subseteq Key
  BY TenantAssumption, KeysAssumption
<1>2. \A e \in Topups(t) : /\ e.ref \in Ref /\ Answers(t, e.ref, "successful")
                           /\ e.amount = Price[e.ref]
  BY DEF Safe, BookedInv, LedgerInv, SettledTopups, Topups, Committed
<1>3. Receipts(t) \subseteq Collected(t)
  BY <1>2 DEF Receipts, Collected
<1>4. Collected(t) \subseteq Charged
  BY <1>1 DEF Collected, Charged, Answers
<1>5. IsFiniteSet(Collected(t))
  BY <1>4, FS_Subset DEF CollectInv
<1>6. \A x \in Collected(t) : x.amount \in Nat
  BY PriceAssumption DEF Collected
<1>7. QED
  BY <1>3, <1>5, <1>6 DEF Payments

(* payments/services.go 327-337: whatever is repeated, dies half-way or    *)
(* overlaps with other tenants' requests, under one key or several, such a *)
(* tenant is credited no more than the gateway has collected.              *)
THEOREM CreditsAreCollected == Spec => []SerialCreditsCollected
<1>1. Init => CollectInv
  BY CollectInit
<1>2. Safe /\ ExactInv /\ (Safe /\ ExactInv)' /\ CollectInv /\ [Next]_vars => CollectInv'
  <2> SUFFICES ASSUME Safe, ExactInv, ExactInv', CollectInv, [Next]_vars PROVE CollectInv'
    OBVIOUS
  <2>1. IsFiniteSet(Charged)'
    BY ChargedStep DEF Safe, Inv
  <2>2. \A t \in Serial : Matched(t)'
    BY ReceiptsStep
  <2>3. QED
    BY <2>1, <2>2 DEF CollectInv
<1>3. Safe /\ CollectInv => SerialCreditsCollected
  BY ReceiptsCollected, CreditedGrows DEF CollectInv, Matched, SerialCreditsCollected
<1>4. QED
  BY <1>1, <1>2, <1>3, SafeAlways, PTL DEF Spec

-----------------------------------------------------------------------------
(* A commit moves the wallet of a serial tenant by what it posts. *)
LEMMA MovesStep ==
  ASSUME Safe, ExactInv, [Next]_vars, NEW t \in Serial \ Orphan
  PROVE  MovesTogether(t)
<1> DEFINE last == LastBalance(Committed(t))
<1> USE DEF Safe, Inv
<1>1. t \in Tenant /\ last \in Int /\ wallet[t] \in Int
  BY TenantAssumption, BalanceType DEF ExactInv, Exact
<1>2. CASE Committed(t)' = Committed(t) /\ wallet'[t] = wallet[t]
  <2>1. last' = last
    BY <1>2 DEF LastBalance, Latest
  <2> HIDE DEF last
  <2>2. 10 * (wallet'[t] - wallet[t]) - (last' - last) = 0
    BY <1>1, <1>2, <2>1
  <2>3. QED
    BY <2>2 DEF MovesTogether, last
<1>3. ASSUME NEW s \in Slot, call[s].tenant = t, Commit(s), IsTopup(s)
      PROVE  MovesTogether(t)
  <2>1. PICK e \in Entry :
          /\ last' = last + e.amount
          /\ wallet'[t] = IF wallet[t] = NoCompany THEN NoCompany
                          ELSE wallet[t] + Round(e.amount)
    BY <1>3, CommitCredits
  <2>2. e.amount \in Nat
    BY DEF Entry
  <2>3. /\ Round(e.amount) \in Nat /\ -5 <= 10 * Round(e.amount) - e.amount
        /\ 10 * Round(e.amount) - e.amount <= 5
    BY <2>2, RoundIsClose
  <2>4. wallet'[t] = wallet[t] + Round(e.amount)
    BY <1>1, <2>1, NoCompanyAssumption
  <2> DEFINE r == Round(e.amount)
             w == wallet[t]
             v == wallet'[t]
  <2> HIDE DEF last, r, w, v
  <2>5. 10 * (v - w) - (last' - last) = 10 * r - e.amount
    BY <1>1, <2>1, <2>2, <2>3, <2>4 DEF r, w, v
  <2>6. QED
    BY <2>3, <2>5 DEF MovesTogether, last, r, w, v
<1>4. ASSUME NEW s \in Slot, call[s].tenant = t, Commit(s), ~IsTopup(s)
      PROVE  MovesTogether(t)
  <2>1. PICK k \in Nat : last' = last - 10 * k /\ wallet'[t] = wallet[t] - k
    BY <1>4, CommitPaysOut
  <2> DEFINE w == wallet[t]
             v == wallet'[t]
  <2> HIDE DEF last, w, v
  <2>2. 10 * (v - w) - (last' - last) = 0
    BY <1>1, <2>1 DEF w, v
  <2>3. QED
    BY <2>2 DEF MovesTogether, last, w, v
<1>5. ASSUME NEW s \in Slot, Commit(s), call[s].tenant # t
      PROVE  MovesTogether(t)
  <2>1. call[s].tenant \in Tenant
    BY DEF TypeInv, Types, Call
  <2>2. QED
    BY <1>1, <1>2, <1>5, <2>1, CommitFrame
<1>6. CASE UNCHANGED <<ledger, wallet>>
  BY <1>2, <1>6 DEF Committed
<1>7. QED
  BY <1>3, <1>4, <1>5, <1>6 DEF Next, vars, Statement, Charge, Settle, Verify,
       CreateDisbursement, Lookup, CheckFunds, InsertPayout, ReadLast, InsertEntry,
       ReadCompany, SaveCompany, Rollback

(* transactions/models.go 44: rows are only ever added; a wallet never     *)
(* changes without a new row of its tenant in the same commit; and that of *)
(* a serial tenant moves by what the commit posts, up to rounding.         *)
THEOREM WalletMovesWithLedger == Spec => PostedTogether
<1>1. Safe /\ ExactInv /\ [Next]_vars =>
        [/\ ledger \subseteq ledger'
         /\ \A t \in Tenant : wallet'[t] # wallet[t] =>
              \E e \in ledger' \ ledger : e.tenant = t
         /\ \A t \in Serial \ Orphan : MovesTogether(t)]_vars
  BY PostingStep, MovesStep DEF Safe
<1>2. QED
  BY <1>1, SafeAlways, PTL DEF Spec, PostedTogether

-----------------------------------------------------------------------------
LEMMA AccountInit == Init => A!Init
<1> SUFFICES ASSUME Init PROVE A!Init
  OBVIOUS
<1>1. \A t \in Serial : Topups(t) = {} /\ Committed(t) = {}
  BY DEF Init, Committed, Topups
<1>2. \A t \in Serial : {e.ref : e \in Topups(t)} = {} /\ LastBalance(Committed(t)) = 0
  BY <1>1 DEF LastBalance
<1>3. [t \in Serial |-> {e.ref : e \in Topups(t)}] = [t \in Serial |-> {}]
  BY <1>2
<1>4. [t \in Serial |-> LastBalance(Committed(t))] = [t \in Serial |-> 0]
  BY <1>2
<1>5. [t \in Serial |-> wallet[t]] \in [Serial -> {0, NoCompany}]
  BY TenantAssumption DEF Init
<1>6. QED
  BY <1>3, <1>4, <1>5 DEF A!Init

(* Account sees nothing of a step that publishes nothing of its tenants. *)
LEMMA AccountStutter ==
  ASSUME \A t \in Serial : Committed(t)' = Committed(t) /\ wallet'[t] = wallet[t]
  PROVE  UNCHANGED A!vars
<1>1. \A t \in Serial : Topups(t)' = Topups(t)
  BY DEF Topups
<1>2. ASSUME NEW t \in Serial PROVE LastBalance(Committed(t))' = LastBalance(Committed(t))
  <2>1. Committed(t)' = Committed(t)
    OBVIOUS
  <2>2. QED
    BY <2>1 DEF LastBalance, Latest
<1>3. \A t \in Serial : {e.ref : e \in Topups(t)}' = {e.ref : e \in Topups(t)}
  BY <1>1
<1>4. [t \in Serial |-> {e.ref : e \in Topups(t)}]' = [t \in Serial |-> {e.ref : e \in Topups(t)}]
  BY <1>3
<1>5. [t \in Serial |-> LastBalance(Committed(t))]' = [t \in Serial |-> LastBalance(Committed(t))]
  BY <1>2
<1>6. [t \in Serial |-> wallet[t]]' = [t \in Serial |-> wallet[t]]
  OBVIOUS
<1>7. QED
  BY <1>4, <1>5, <1>6 DEF A!vars
LEMMA AccountCredit ==
  ASSUME Safe, NEW s \in Slot, NEW t \in Serial, call[s].tenant = t, Commit(s), IsTopup(s)
  PROVE  A!Next
<1> DEFINE credited == [u \in Serial |-> {e.ref : e \in Topups(u)}]
           book == [u \in Serial |-> LastBalance(Committed(u))]
           funds == [u \in Serial |-> wallet[u]]
<1>1. PICK e \in Entry :
        /\ e.op = "topup" /\ e.tenant = t /\ e.ref \in Ref /\ e.amount = Price[e.ref]
        /\ Committed(t)' = Committed(t) \cup {e}
        /\ \A f \in Topups(t) : f.ref # e.ref
        /\ LastBalance(Committed(t))' = LastBalance(Committed(t)) + e.amount
        /\ wallet'[t] = IF wallet[t] = NoCompany THEN NoCompany
                        ELSE wallet[t] + Round(e.amount)
  BY CommitCredits
<1>2. t \in Tenant /\ TypeInv
  BY TenantAssumption DEF Safe, Inv
<1>3. \A u \in Serial : u # t => Committed(u)' = Committed(u) /\ wallet'[u] = wallet[u]
  BY <1>2, CommitFrame, TenantAssumption
<1>4. e.ref \notin credited[t]
  BY <1>1
<1>5. credited' = [credited EXCEPT ![t] = @ \cup {e.ref}]
  <2>1. {f.ref : f \in Topups(t)}' = {f.ref : f \in Topups(t)} \cup {e.ref}
    BY <1>1 DEF Topups
  <2>2. ASSUME NEW u \in Serial, u # t
        PROVE  {f.ref : f \in Topups(u)}' = {f.ref : f \in Topups(u)}
    BY <1>3, <2>2 DEF Topups
  <2>3. QED
    BY <2>1, <2>2
<1>6. book' = [book EXCEPT ![t] = @ + Price[e.ref]]
  <2>1. ASSUME NEW u \in Serial, u # t
        PROVE  LastBalance(Committed(u))' = LastBalance(Committed(u))
    <3>1. Committed(u)' = Committed(u)
      BY <1>3, <2>1
    <3>2. QED
      BY <3>1 DEF LastBalance, Latest
  <2>2. QED
    BY <1>1, <2>1
<1>7. funds' = IF funds[t] = NoCompany THEN funds
               ELSE [funds EXCEPT ![t] = @ + ((Price[e.ref] + 5) \div 10)]
  BY <1>1, <1>3 DEF Round
<1>8. A!Credit(t, e.ref)
  BY <1>4, <1>5, <1>6, <1>7 DEF A!Credit
<1>9. QED
  BY <1>1, <1>8 DEF A!Next

LEMMA AccountPayOut ==
  ASSUME Safe, NEW s \in Slot, NEW t \in Serial, call[s].tenant = t, Commit(s), ~IsTopup(s)
  PROVE  A!Next
<1> DEFINE credited == [u \in Serial |-> {e.ref : e \in Topups(u)}]
           book == [u \in Serial |-> LastBalance(Committed(u))]
           funds == [u \in Serial |-> wallet[u]]
<1>1. PICK k \in Nat :
        /\ 10 * k \in Totals
        /\ wallet[t] \in Int /\ wallet[t] >= k
        /\ Topups(t)' = Topups(t)
        /\ LastBalance(Committed(t))' = LastBalance(Committed(t)) - 10 * k
        /\ wallet'[t] = wallet[t] - k
  BY CommitPaysOut
<1>2. t \in Tenant /\ TypeInv
  BY TenantAssumption DEF Safe, Inv
<1>3. \A u \in Serial : u # t => Committed(u)' = Committed(u) /\ wallet'[u] = wallet[u]
  BY <1>2, CommitFrame, TenantAssumption
<1>4. credited' = credited
  <2>1. ASSUME NEW u \in Serial PROVE Topups(u)' = Topups(u)
    BY <1>1, <1>3 DEF Topups
  <2>2. QED
    BY <2>1
<1>5. book' = [book EXCEPT ![t] = @ - 10 * k]
  <2>1. ASSUME NEW u \in Serial, u # t
        PROVE  LastBalance(Committed(u))' = LastBalance(Committed(u))
    <3>1. Committed(u)' = Committed(u)
      BY <1>3, <2>1
    <3>2. QED
      BY <3>1 DEF LastBalance, Latest
  <2>2. QED
    BY <1>1, <2>1
<1>6. (10 * k) \div 10 = k
  OBVIOUS
<1>7. funds' = [funds EXCEPT ![t] = @ - ((10 * k) \div 10)]
  BY <1>1, <1>3, <1>6
<1>8. funds[t] # NoCompany /\ 10 * k <= 10 * funds[t]
  BY <1>1, NoCompanyAssumption
<1>9. A!PayOut(t, 10 * k)
  BY <1>4, <1>5, <1>7, <1>8 DEF A!PayOut
<1>10. QED
  BY <1>1, <1>9 DEF A!Next

LEMMA AccountStep == Safe /\ [Next]_vars => [A!Next]_A!vars
<1> SUFFICES ASSUME Safe, [Next]_vars PROVE A!Next \/ UNCHANGED A!vars
  OBVIOUS
<1>1. CASE UNCHANGED <<ledger, wallet>>
  <2>1. \A t \in Serial : Committed(t)' = Committed(t) /\ wallet'[t] = wallet[t]
    BY <1>1 DEF Committed
  <2>2. QED
    BY <2>1, AccountStutter
<1>2. ASSUME NEW s \in Slot, Commit(s) PROVE A!Next \/ UNCHANGED A!vars
  <2>1. PICK t \in Tenant : call[s].tenant = t
    BY DEF Safe, Inv, TypeInv, Types, Call
  <2>2. CASE t \in Serial
    BY <1>2, <2>1, <2>2, AccountCredit, AccountPayOut
  <2>3. CASE t \notin Serial
    <3>1. \A u \in Serial : Committed(u)' = Committed(u) /\ wallet'[u] = wallet[u]
      BY <1>2, <2>1, <2>3, CommitFrame, TenantAssumption DEF Safe, Inv
    <3>2. QED
      BY <3>1, AccountStutter
  <2>4. QED
    BY <2>2, <2>3
<1>3. QED
  BY <1>1, <1>2 DEF Next, vars, Statement, Charge, Settle, Verify, CreateDisbursement,
                   Lookup, CheckFunds, InsertPayout, ReadLast, InsertEntry, ReadCompany,
                   SaveCompany, Rollback

(* For serial tenants the seven statements of a verification and the eight *)
(* of a disbursement are, together, one credit and one payout of Account,  *)
(* beside any number of other requests and with failures anywhere.         *)
THEOREM WalletImplementsAccount == Spec => ImplementsAccount
<1>1. Spec => []Safe
  BY SafeAlways, PTL
<1>2. Safe /\ [Next]_vars => [A!Next]_A!vars
  BY AccountStep
<1>3. QED
  BY <1>1, <1>2, AccountInit, PTL DEF Spec, ImplementsAccount, A!Spec
=============================================================================
