---------------------------- MODULE WalletProofs ----------------------------
(* Machine-checked proofs about Wallet, for every value of its constants.  *)
EXTENDS Wallet, FiniteSetTheorems, TLAPS

(* A connection between requests is a well-formed one. *)
LEMMA IdleCallType == IdleCall \in Call
  BY TenantAssumption DEF IdleCall, Call, PC, TransactionNote

(* Charges are natural numbers of tenths. *)
LEMMA ChargeForType == \A dest, amount : ChargeFor(dest, amount) \in Nat
  BY DEF ChargeFor

(* A disbursement's reference is a number from the start, so the row that  *)
(* COMMIT publishes is a disbursement row.                                 *)
CallShape == \A s \in Slot : call[s].note # "collection" => call[s].ref \in Nat

HasLatest(rows) == rows = {} \/ \E e \in rows : \A f \in rows : f.id <= e.id

(* Ids are below the sequence, an open transaction holds rows of its own   *)
(* tenant only, and every set CreateTransaction may order has a last row.  *)
RowsOrdered ==
  /\ \A e \in ledger : e.id < nextEntry
  /\ \A t \in Tenant : HasLatest(Committed(t))
  /\ \A s \in Slot :
       /\ call[s].pc \in {"idle", "lookup", "funds", "payout"} => draft[s] = {}
       /\ \A e \in draft[s] : e.tenant = call[s].tenant /\ e.id < nextEntry
       /\ HasLatest(draft[s])

TypeInv == Types /\ CallShape /\ RowsOrdered

LEMMA TypeInit == Init => TypeInv
<1> SUFFICES ASSUME Init PROVE TypeInv
  OBVIOUS
<1>1. wallet \in [Tenant -> Int \cup {NoCompany}]
  BY DEF Init
<1>2. call \in [Slot -> Call] /\ CallShape
  BY IdleCallType DEF Init, CallShape, IdleCall
<1>3. RowsOrdered
  BY DEF Init, RowsOrdered, HasLatest, Committed
<1>4. QED
  BY <1>1, <1>2, <1>3 DEF Init, TypeInv, Types

(* The rows CreateTransaction appends are well-formed. *)
LEMMA NewEntryType ==
  ASSUME TypeInv, NEW s \in Slot
  PROVE  NewEntry(call[s]) \in Entry
<1> DEFINE c == call[s]
<1>1. /\ c.tenant \in Tenant /\ c.ref \in Ref \cup Nat /\ c.note \in TransactionNote
      /\ c.amount \in Nat /\ c.charge \in Nat /\ c.last \in Int
      /\ nextEntry \in Nat
  BY DEF TypeInv, Types, Call
<1>2. AmountOf(c) \in Nat /\ OpOf(c.note) \in Operation
  BY <1>1 DEF AmountOf, OpOf, Operation
<1>3. Running(c.last, OpOf(c.note), AmountOf(c)) \in Int
  BY <1>1, <1>2 DEF Running
<1> HIDE DEF c
<1>4. QED
  BY <1>1, <1>2, <1>3 DEF NewEntry, Entry, c

(* What Save(&company) writes is an integer. *)
LEMMA NewBalanceType ==
  ASSUME TypeInv, NEW s \in Slot, call[s].seen # NoCompany
  PROVE  NewBalance(call[s]) \in Int
  BY DEF TypeInv, Types, Call, NewBalance, ApplyTopupBalance, DeductBalance, Round

(* Rows with a last one: the last of two such sets, of one with a row put  *)
(* on top, and the balance read from it.                                   *)
LEMMA LatestOfUnion ==
  ASSUME NEW X \in SUBSET Entry, NEW Y \in SUBSET Entry, HasLatest(X), HasLatest(Y)
  PROVE  HasLatest(X \cup Y)
  BY DEF HasLatest, Entry

LEMMA LatestOnTop ==
  ASSUME NEW X \in SUBSET Entry, NEW e \in Entry, \A f \in X : f.id < e.id
  PROVE  HasLatest(X \cup {e})
  BY DEF HasLatest, Entry

LEMMA LastBalanceType ==
  ASSUME NEW X \in SUBSET Entry, HasLatest(X)
  PROVE  LastBalance(X) \in Int
<1>1. CASE X = {}
  BY <1>1 DEF LastBalance
<1>2. CASE X # {}
  <2>1. Latest(X) \in X
    BY <1>2 DEF HasLatest, Latest
  <2>2. QED
    BY <1>2, <2>1 DEF LastBalance, Entry
<1>3. QED
  BY <1>1, <1>2

(* What CreateTransaction sees is a set of rows with a last one. *)
LEMMA VisibleLatest ==
  ASSUME TypeInv, NEW s \in Slot
  PROVE  Visible(s) \in SUBSET Entry /\ HasLatest(Visible(s))
<1> DEFINE t == call[s].tenant
<1>1. t \in Tenant /\ draft[s] \in SUBSET Entry /\ Committed(t) \in SUBSET Entry
  BY DEF TypeInv, Types, Call, Committed
<1>2. Visible(s) = Committed(t) \cup draft[s]
  BY DEF Visible, Committed, TypeInv, RowsOrdered
<1>3. HasLatest(Committed(t)) /\ HasLatest(draft[s])
  BY <1>1 DEF TypeInv, RowsOrdered
<1>4. QED
  BY <1>1, <1>2, <1>3, LatestOfUnion

(* A step that appends no row: every open transaction keeps its rows or    *)
(* drops them all, and one that has rows stays past its first one.         *)
Early == {"idle", "lookup", "funds", "payout"}

LEMMA RowsFrame ==
  ASSUME RowsOrdered, ledger' = ledger, nextEntry' = nextEntry,
         \A s \in Slot : \/ draft'[s] = {}
                         \/ /\ draft'[s] = draft[s]
                            /\ call'[s].tenant = call[s].tenant
                            /\ call'[s].pc \notin Early
                         \/ draft'[s] = draft[s] /\ call'[s] = call[s]
  PROVE  RowsOrdered'
<1>1. \A t \in Tenant : HasLatest(Committed(t))'
  BY DEF RowsOrdered, Committed, HasLatest
<1>2. ASSUME NEW s \in Slot
      PROVE  /\ call'[s].pc \in Early => draft'[s] = {}
             /\ \A e \in draft'[s] : e.tenant = call'[s].tenant /\ e.id < nextEntry'
             /\ HasLatest(draft'[s])
  BY DEF RowsOrdered, HasLatest, Early
<1>3. QED
  BY <1>1, <1>2 DEF RowsOrdered, Early, HasLatest

(* The request on s moves to record c and no other request changes. *)
Moves(s, c) ==
  /\ call' \in [Slot -> Call] /\ CallShape'
  /\ call'[s] = c
  /\ \A o \in Slot \ {s} : call'[o] = call[o]

LEMMA CallUpdate ==
  ASSUME Types, CallShape, NEW s \in Slot, NEW c \in Call,
         call' = [call EXCEPT ![s] = c],
         c.note # "collection" => c.ref \in Nat
  PROVE  Moves(s, c)
  BY DEF Types, CallShape, Moves

LEMMA GoUpdate ==
  ASSUME Types, CallShape, NEW s \in Slot, NEW pc \in PC, Go(s, pc)
  PROVE  Moves(s, [call[s] EXCEPT !.pc = pc])
<1> DEFINE c == [call[s] EXCEPT !.pc = pc]
<1>1. c \in Call /\ c.note = call[s].note /\ c.ref = call[s].ref
  BY DEF Types, Call
<1>2. call' = [call EXCEPT ![s] = c]
  BY DEF Go, Types
<1>3. c.note # "collection" => c.ref \in Nat
  BY <1>1 DEF CallShape
<1> HIDE DEF c
<1>4. Moves(s, c)
  BY <1>1, <1>2, <1>3, CallUpdate
<1>5. QED
  BY <1>4 DEF c

LEMMA DoneUpdate ==
  ASSUME Types, CallShape, NEW s \in Slot, Done(s)
  PROVE  Moves(s, IdleCall)
<1>1. IdleCall.note = "collection"
  BY DEF IdleCall
<1>2. QED
  BY <1>1, IdleCallType, CallUpdate DEF Done

LEMMA TypeStep == TypeInv /\ [Next]_vars => TypeInv'
<1> SUFFICES ASSUME TypeInv, [Next]_vars PROVE TypeInv'
  OBVIOUS
<1> USE DEF TypeInv
<1>1. ASSUME NEW t \in Tenant, NEW r \in Ref, Charge(t, r) PROVE TypeInv'
  <2>1. Types'
    BY <1>1, KeysAssumption DEF Charge, Types
  <2>2. CallShape' /\ RowsOrdered'
    BY <1>1, RowsFrame DEF Charge, CallShape
  <2>3. QED
    BY <2>1, <2>2
<1>2. ASSUME NEW key \in Key, NEW r \in Ref, Settle(key, r) PROVE TypeInv'
  <2>1. Types'
    BY <1>2 DEF Settle, Types
  <2>2. CallShape' /\ RowsOrdered'
    BY <1>2, RowsFrame DEF Settle, CallShape
  <2>3. QED
    BY <2>1, <2>2
<1>3. ASSUME NEW s \in Slot, NEW t \in Tenant, NEW r \in Ref, Verify(s, t, r)
      PROVE  TypeInv'
  <2> DEFINE c == [pc |-> "lookup", tenant |-> t, ref |-> r, note |-> "collection",
                   amount |-> Price[r], charge |-> 0, last |-> 0, seen |-> NoCompany]
  <2>1. c \in Call
    BY PriceAssumption DEF Call, PC, TransactionNote
  <2>2. Moves(s, c)
    BY <1>3, <2>1, CallUpdate DEF Verify
  <2>3. draft[s] = {}
    BY <1>3 DEF Verify, Busy, RowsOrdered
  <2>4. RowsOrdered'
    BY <1>3, <2>2, <2>3, RowsFrame DEF Verify, Moves
  <2>5. Types'
    BY <1>3, <2>2 DEF Verify, Types, Moves
  <2>6. QED
    BY <2>2, <2>4, <2>5 DEF Moves
<1>4. ASSUME NEW s \in Slot, NEW t \in Tenant, NEW dest \in DestinationType,
             NEW a \in PayoutAmount, CreateDisbursement(s, t, dest, a)
      PROVE  TypeInv'
  <2> DEFINE c == [pc |-> "funds", tenant |-> t, ref |-> 0, note |-> "disbursement",
                   amount |-> 10 * a, charge |-> ChargeFor(dest, a),
                   last |-> 0, seen |-> NoCompany]
  <2>1. c \in Call
    BY PayoutAssumption, ChargeForType DEF Call, PC, TransactionNote
  <2>2. Moves(s, c)
    BY <1>4, <2>1, CallUpdate DEF CreateDisbursement
  <2>3. draft[s] = {}
    BY <1>4 DEF CreateDisbursement, Busy, RowsOrdered
  <2>4. RowsOrdered'
    BY <1>4, <2>2, <2>3, RowsFrame DEF CreateDisbursement, Moves
  <2>5. Types'
    BY <1>4, <2>2 DEF CreateDisbursement, Types, Moves
  <2>6. QED
    BY <2>2, <2>4, <2>5 DEF Moves
<1>5. ASSUME NEW s \in Slot, Lookup(s) PROVE TypeInv'
  <2>1. \E c \in Call : Moves(s, c)
    BY <1>5, GoUpdate, DoneUpdate DEF Lookup, Moves, PC
  <2>2. draft[s] = {}
    BY <1>5 DEF Lookup, RowsOrdered
  <2>3. RowsOrdered'
    BY <1>5, <2>1, <2>2, RowsFrame DEF Lookup, Moves
  <2>4. Types'
    BY <1>5, <2>1 DEF Lookup, Types, Moves
  <2>5. QED
    BY <2>1, <2>3, <2>4 DEF Moves
<1>6. ASSUME NEW s \in Slot, CheckFunds(s) PROVE TypeInv'
  <2> DEFINE value == wallet[call[s].tenant]
             c == [call[s] EXCEPT !.pc = "payout", !.seen = value]
  <2>1. value \in Int \cup {NoCompany}
    BY DEF Types, Call
  <2>2. c \in Call /\ c.note = call[s].note /\ c.ref = call[s].ref
    BY <2>1 DEF Types, Call, PC
  <2>3. \/ call' = [call EXCEPT ![s] = c]
        \/ Done(s)
    BY <1>6 DEF CheckFunds, Types
  <2>4. Moves(s, c) \/ Moves(s, IdleCall)
    <3>1. c.note # "collection" => c.ref \in Nat
      BY <2>2 DEF CallShape
    <3> HIDE DEF c
    <3>2. QED
      BY <2>2, <2>3, <3>1, CallUpdate, DoneUpdate
  <2>5. draft[s] = {}
    BY <1>6 DEF CheckFunds, RowsOrdered
  <2>6. RowsOrdered'
    BY <1>6, <2>4, <2>5, RowsFrame DEF CheckFunds, Moves
  <2>7. Types'
    BY <1>6, <2>4 DEF CheckFunds, Types, Moves
  <2>8. QED
    BY <2>4, <2>6, <2>7 DEF Moves
<1>7. ASSUME NEW s \in Slot, InsertPayout(s) PROVE TypeInv'
  <2> DEFINE c == [call[s] EXCEPT !.pc = "read", !.ref = nextPayout]
  <2>1. c \in Call /\ c.ref \in Nat
    BY DEF Types, Call, PC
  <2>2. Moves(s, c)
    BY <1>7, <2>1, CallUpdate DEF InsertPayout, Types
  <2>3. draft[s] = {}
    BY <1>7 DEF InsertPayout, RowsOrdered
  <2>4. RowsOrdered'
    BY <1>7, <2>2, <2>3, RowsFrame DEF InsertPayout, Moves
  <2>5. Types'
    BY <1>7, <2>2 DEF InsertPayout, Types, Moves
  <2>6. QED
    BY <2>2, <2>4, <2>5 DEF Moves
<1>8. ASSUME NEW s \in Slot, ReadLast(s) PROVE TypeInv'
  <2> DEFINE c == [call[s] EXCEPT !.pc = "insert", !.last = LastBalance(Visible(s))]
  <2>1. LastBalance(Visible(s)) \in Int
    BY VisibleLatest, LastBalanceType
  <2>2. c \in Call /\ c.note = call[s].note /\ c.ref = call[s].ref
        /\ c.pc = "insert" /\ c.tenant = call[s].tenant
    BY <2>1 DEF Types, Call, PC
  <2>3. Moves(s, c)
    <3>1. call' = [call EXCEPT ![s] = c]
      BY <1>8 DEF ReadLast, Types
    <3>2. c.note # "collection" => c.ref \in Nat
      BY <2>2 DEF CallShape
    <3> HIDE DEF c
    <3>3. QED
      BY <2>2, <3>1, <3>2, CallUpdate
  <2>4. RowsOrdered'
    BY <1>8, <2>2, <2>3, RowsFrame DEF ReadLast, Moves, Early
  <2>5. Types'
    BY <1>8, <2>3 DEF ReadLast, Types, Moves
  <2>6. QED
    BY <2>3, <2>4, <2>5 DEF Moves
<1>9. ASSUME NEW s \in Slot, InsertEntry(s) PROVE TypeInv'
  <2> DEFINE e == NewEntry(call[s])
  <2>1. e \in Entry /\ e.id = nextEntry /\ e.tenant = call[s].tenant
    BY NewEntryType DEF NewEntry
  <2>2. \E c \in Call : /\ Moves(s, c) /\ c.tenant = call[s].tenant
                        /\ c.pc \notin Early
    <3>1. CASE Go(s, "company") \/ Go(s, "save")
      <4>1. PICK pc \in {"company", "save"} : Go(s, pc)
        BY <3>1
      <4>2. Moves(s, [call[s] EXCEPT !.pc = pc])
        BY <4>1, GoUpdate DEF PC
      <4>3. [call[s] EXCEPT !.pc = pc] \in Call
        BY DEF Types, Call, PC
      <4>4. [call[s] EXCEPT !.pc = pc].tenant = call[s].tenant
        BY DEF Types, Call
      <4>5. [call[s] EXCEPT !.pc = pc].pc \notin Early
        BY DEF Types, Call, Early
      <4>6. QED
        BY <4>2, <4>3, <4>4, <4>5
    <3>2. CASE /\ call[s].note = "disbursement"
               /\ call' = [call EXCEPT ![s].pc = "read", ![s].note = "txn charges"]
      <4> DEFINE c == [call[s] EXCEPT !.pc = "read", !.note = "txn charges"]
      <4>1. c \in Call /\ c.ref \in Nat /\ c.tenant = call[s].tenant /\ c.pc = "read"
        BY <3>2 DEF Types, CallShape, Call, PC, TransactionNote
      <4>2. call' = [call EXCEPT ![s] = c]
        BY <3>2 DEF Types
      <4>3. QED
        BY <4>1, <4>2, CallUpdate DEF Early
    <3>3. QED
      BY <1>9, <3>1, <3>2 DEF InsertEntry
  <2>3. PICK c \in Call : /\ Moves(s, c) /\ c.tenant = call[s].tenant
                          /\ c.pc \notin Early
    BY <2>2
  <2>4. draft' \in [Slot -> SUBSET Entry] /\ draft'[s] = draft[s] \cup {e}
        /\ \A o \in Slot \ {s} : draft'[o] = draft[o]
    BY <1>9, <2>1 DEF InsertEntry, Types
  <2>5. HasLatest(draft'[s])
    <3>1. draft[s] \in SUBSET Entry /\ \A f \in draft[s] : f.id < e.id
      BY <2>1 DEF RowsOrdered, Types
    <3> HIDE DEF e
    <3>2. HasLatest(draft[s] \cup {e})
      BY <2>1, <3>1, LatestOnTop
    <3>3. QED
      BY <2>4, <3>2
  <2>6. RowsOrdered'
    <3>1. nextEntry' = nextEntry + 1 /\ ledger' = ledger
      BY <1>9 DEF InsertEntry
    <3>2. \A f \in ledger' : f.id < nextEntry'
      BY <3>1 DEF RowsOrdered, Types, Entry
    <3>3. \A t \in Tenant : HasLatest(Committed(t))'
      BY <3>1 DEF RowsOrdered, HasLatest, Committed
    <3>4. ASSUME NEW o \in Slot
          PROVE  /\ call'[o].pc \in Early => draft'[o] = {}
                 /\ \A f \in draft'[o] : f.tenant = call'[o].tenant /\ f.id < nextEntry'
                 /\ HasLatest(draft'[o])
      <4>1. CASE o = s
        BY <4>1, <2>1, <2>3, <2>4, <2>5, <3>1 DEF Moves, RowsOrdered, Types, Entry
      <4>2. CASE o # s
        BY <4>2, <2>3, <2>4, <3>1 DEF Moves, RowsOrdered, Types, Entry, Early
      <4>3. QED
        BY <4>1, <4>2
    <3>5. QED
      BY <3>2, <3>3, <3>4 DEF RowsOrdered, Early, HasLatest
  <2>7. Types'
    <3>1. nextEntry' = nextEntry + 1 /\ nextEntry \in Nat \ {0}
      BY <1>9 DEF InsertEntry, Types
    <3>2. UNCHANGED <<gateway, ledger, wallet, payouts, nextPayout, faults>>
      BY <1>9 DEF InsertEntry
    <3>3. QED
      BY <2>3, <2>4, <3>1, <3>2 DEF Types, Moves
  <2>8. QED
    BY <2>3, <2>6, <2>7 DEF Moves
<1>10. ASSUME NEW s \in Slot, ReadCompany(s) PROVE TypeInv'
  <2> DEFINE value == wallet[call[s].tenant]
             pc == IF value = NoCompany THEN "commit" ELSE "save"
             c == [call[s] EXCEPT !.seen = value, !.pc = pc]
  <2>1. value \in Int \cup {NoCompany}
    BY DEF Types, Call
  <2>2. c \in Call /\ c.note = call[s].note /\ c.ref = call[s].ref
        /\ c.tenant = call[s].tenant /\ c.pc \notin Early
    BY <2>1 DEF Types, Call, PC, Early
  <2>3. Moves(s, c)
    <3>1. call' = [call EXCEPT ![s] = c]
      BY <1>10 DEF ReadCompany, Types
    <3>2. c.note # "collection" => c.ref \in Nat
      BY <2>2 DEF CallShape
    <3> HIDE DEF c
    <3>3. QED
      BY <2>2, <3>1, <3>2, CallUpdate
  <2>4. RowsOrdered'
    BY <1>10, <2>2, <2>3, RowsFrame DEF ReadCompany, Moves
  <2>5. Types'
    BY <1>10, <2>3 DEF ReadCompany, Types, Moves
  <2>6. QED
    BY <2>3, <2>4, <2>5 DEF Moves
<1>11. ASSUME NEW s \in Slot, SaveCompany(s) PROVE TypeInv'
  <2>1. Moves(s, [call[s] EXCEPT !.pc = "commit"])
    BY <1>11, GoUpdate DEF SaveCompany, PC
  <2>2. call'[s].tenant = call[s].tenant /\ call'[s].pc = "commit"
    BY <2>1 DEF Moves, Types, Call
  <2>3. RowsOrdered'
    BY <1>11, <2>1, <2>2, RowsFrame DEF SaveCompany, Moves, Early
  <2>4. Types'
    BY <1>11, <2>1 DEF SaveCompany, Types, Moves
  <2>5. QED
    BY <2>1, <2>3, <2>4 DEF Moves
<1>12. ASSUME NEW s \in Slot, Commit(s) PROVE TypeInv'
  <2> DEFINE c == call[s]
  <2>1. Moves(s, IdleCall)
    BY <1>12, DoneUpdate DEF Commit
  <2>2. c \in Call
    BY DEF Types
  <2>3. wallet' \in [Tenant -> Int \cup {NoCompany}]
    <3>1. CASE c.seen = NoCompany
      BY <1>12, <3>1 DEF Commit, Types
    <3>2. CASE c.seen # NoCompany
      BY <1>12, <3>2, NewBalanceType DEF Commit, Types
    <3>3. QED
      BY <3>1, <3>2
  <2>4. payouts' \subseteq Payout
    <3>1. CASE IsTopup(s)
      BY <1>12, <3>1 DEF Commit, Types
    <3>2. CASE ~IsTopup(s)
      <4>1. c.ref \in Nat
        BY <3>2 DEF IsTopup, CallShape
      <4>2. [id |-> c.ref, tenant |-> c.tenant, amount |-> c.amount,
             charge |-> c.charge] \in Payout
        BY <2>2, <4>1 DEF Call, Payout
      <4>3. QED
        BY <1>12, <3>2, <4>2 DEF Commit, Types
    <3>3. QED
      BY <3>1, <3>2
  <2>5. Types'
    BY <1>12, <2>1, <2>3, <2>4 DEF Commit, Moves, Types
  <2>6. RowsOrdered'
    <3>1. ledger' = ledger \cup draft[s] /\ nextEntry' = nextEntry
      BY <1>12 DEF Commit
    <3>2. \A e \in ledger' : e.id < nextEntry'
      BY <3>1 DEF RowsOrdered
    <3>3. ASSUME NEW t \in Tenant PROVE HasLatest(Committed(t))'
      <4>1. CASE t = c.tenant
        <5>1. Committed(t)' = Committed(t) \cup draft[s]
          BY <3>1, <4>1 DEF Committed, RowsOrdered
        <5>2. HasLatest(Committed(t) \cup draft[s])
          BY LatestOfUnion DEF RowsOrdered, Types, Committed
        <5>3. QED
          BY <5>1, <5>2 DEF HasLatest
      <4>2. CASE t # c.tenant
        <5>1. Committed(t)' = Committed(t)
          BY <3>1, <4>2 DEF Committed, RowsOrdered
        <5>2. QED
          BY <5>1 DEF HasLatest, RowsOrdered
      <4>3. QED
        BY <4>1, <4>2
    <3>4. draft'[s] = {} /\ \A o \in Slot \ {s} : draft'[o] = draft[o]
      BY <1>12 DEF Commit, Types
    <3>5. ASSUME NEW o \in Slot
          PROVE  /\ call'[o].pc \in Early => draft'[o] = {}
                 /\ \A f \in draft'[o] : f.tenant = call'[o].tenant /\ f.id < nextEntry'
                 /\ HasLatest(draft'[o])
      BY <2>1, <3>1, <3>4 DEF Moves, RowsOrdered, HasLatest, Early
    <3>6. QED
      BY <3>2, <3>3, <3>5 DEF RowsOrdered, Early, HasLatest
  <2>7. QED
    BY <2>1, <2>5, <2>6 DEF Moves
<1>13. ASSUME NEW s \in Slot, Rollback(s) PROVE TypeInv'
  <2>1. Moves(s, IdleCall)
    BY <1>13, DoneUpdate DEF Rollback
  <2>2. /\ draft' \in [Slot -> SUBSET Entry] /\ draft'[s] = {}
        /\ \A o \in Slot \ {s} : draft'[o] = draft[o]
    BY <1>13 DEF Rollback, Types
  <2>3. RowsOrdered'
    BY <1>13, <2>1, <2>2, RowsFrame DEF Rollback, Moves
  <2>4. Types'
    BY <1>13, <2>1, <2>2 DEF Rollback, Types, Moves
  <2>5. QED
    BY <2>1, <2>3, <2>4 DEF Moves
<1>14. CASE UNCHANGED vars
  <2>1. Types'
    BY <1>14 DEF vars, Types
  <2>2. CallShape' /\ RowsOrdered'
    BY <1>14, RowsFrame DEF vars, CallShape
  <2>3. QED
    BY <2>1, <2>2
<1>15. QED
  BY <1>1, <1>2, <1>3, <1>4, <1>5, <1>6, <1>7, <1>8, <1>9, <1>10, <1>11,
     <1>12, <1>13, <1>14 DEF Next, Statement

(* Every variable keeps its type, and every entry an id that the sequence  *)
(* has already given out, whatever the constants.                          *)
THEOREM TypeCorrect == Spec => []TypeOK
<1>1. Spec => []TypeInv
  BY TypeInit, TypeStep, PTL DEF Spec
<1>2. TypeInv => TypeOK
  BY DEF TypeInv, TypeOK, RowsOrdered
<1>3. QED
  BY <1>1, <1>2, PTL

-----------------------------------------------------------------------------
(* The ledger of every tenant, serial or not: however many requests of a   *)
(* tenant overlap, whatever they read too early and wherever they fail,    *)
(* the rows that are committed belong together.                            *)

(* Every row was computed from nothing or from an earlier row of its tenant. *)
Grounded(rows) ==
  \A e \in rows :
    \/ Before(e) = 0
    \/ \E f \in rows : f.tenant = e.tenant /\ f.id < e.id /\ f.balance = Before(e)

(* The transaction on s holds the deduction of this step of its payout. *)
Drafted(s, note, amount) ==
  \E e \in draft[s] : /\ e.ref = call[s].ref /\ e.op = "deduct"
                      /\ e.note = note /\ e.amount = amount

(* A verification is about a payment the gateway has settled; past its     *)
(* insert it holds a row, and all its rows credit this payment.            *)
CreditRequest(s) ==
  LET c == call[s] IN
  (Busy(s) /\ c.note = "collection") =>
    /\ c.pc \in {"lookup", "read", "insert", "company", "save", "commit"}
    /\ c.ref \in Ref /\ c.amount = Price[c.ref]
    /\ Answers(c.tenant, c.ref, "successful")
    /\ \A e \in draft[s] : e.op = "topup" /\ e.ref = c.ref /\ e.amount = c.amount
    /\ c.pc \in {"company", "save", "commit"} => draft[s] # {}

(* A disbursement holds the rows of the steps it has made, and only those. *)
PayoutRequest(s) ==
  LET c == call[s] IN
  c.note # "collection" =>
    /\ \A e \in draft[s] : e.op = "deduct" /\ e.ref = c.ref
    /\ c.note = "disbursement" =>
         draft[s] = {} /\ c.pc \in {"funds", "payout", "read", "insert"}
    /\ c.note = "txn charges" =>
         /\ c.pc \in {"read", "insert", "save", "commit"}
         /\ Drafted(s, "disbursement", c.amount)
         /\ c.pc \in {"save", "commit"} => Drafted(s, "txn charges", c.charge)

(* The balance CreateTransaction has read is that of a row it saw. *)
LastIsRead(s) ==
  call[s].pc = "insert" =>
    call[s].last = 0 \/ \E f \in Visible(s) : f.balance = call[s].last

Sound(s) ==
  /\ CreditRequest(s) /\ PayoutRequest(s) /\ LastIsRead(s)
  /\ Grounded(ledger \cup draft[s])

(* No row is in two open transactions, or in one and in the ledger. *)
Untangled ==
  \A s \in Slot : /\ draft[s] \cap ledger = {}
                  /\ \A o \in Slot : o # s => draft[o] \cap draft[s] = {}

(* Nothing is credited that the gateway has not collected, in the amount   *)
(* it collected.                                                           *)
SettledTopups ==
  \A e \in ledger : e.op = "topup" =>
    /\ e.ref \in Ref
    /\ Answers(e.tenant, e.ref, "successful")
    /\ e.amount = Price[e.ref]

LedgerInv ==
  /\ PayoutsAreBooked /\ BalancesAreGrounded /\ SettledTopups
  /\ Untangled
  /\ \A s \in Slot : Sound(s)

BookedInv == TypeInv /\ LedgerInv

-----------------------------------------------------------------------------
LEMMA GroundedUnion ==
  ASSUME NEW X, NEW Y, Grounded(X), Grounded(Y)
  PROVE  Grounded(X \cup Y)
  BY DEF Grounded

LEMMA GroundedOnTop ==
  ASSUME NEW X, NEW e, Grounded(X), \A f \in X : f.id < e.id,
         Before(e) = 0 \/ \E f \in X : f.tenant = e.tenant /\ f.balance = Before(e)
  PROVE  Grounded(X \cup {e})
  BY DEF Grounded

(* The ledger's own invariant is the one about every set of rows. *)
LEMMA LedgerGrounded == BalancesAreGrounded <=> Grounded(ledger)
  BY DEF BalancesAreGrounded, Grounded

(* Nothing is known of an idle connection but the ledger. *)
LEMMA IdleSound ==
  ASSUME NEW s \in Slot, call[s] = IdleCall, draft[s] = {}, Grounded(ledger)
  PROVE  Sound(s)
<1>1. ledger \cup draft[s] = ledger
  OBVIOUS
<1>2. CreditRequest(s) /\ PayoutRequest(s) /\ LastIsRead(s)
  BY DEF IdleCall, CreditRequest, PayoutRequest, LastIsRead, Busy
<1>3. QED
  BY <1>1, <1>2 DEF Sound

LEMMA LedgerInit == Init => LedgerInv
<1> SUFFICES ASSUME Init PROVE LedgerInv
  OBVIOUS
<1>1. Grounded(ledger)
  BY DEF Init, Grounded
<1>2. ASSUME NEW s \in Slot PROVE Sound(s)
  BY <1>1, IdleSound DEF Init
<1>3. PayoutsAreBooked /\ BalancesAreGrounded /\ SettledTopups
  BY DEF Init, PayoutsAreBooked, BalancesAreGrounded, SettledTopups
<1>4. Untangled
  BY DEF Init, Untangled
<1>5. QED
  BY <1>2, <1>3, <1>4 DEF LedgerInv

(* What was settled stays settled. *)
StillSettled ==
  \A t \in Tenant, r \in Ref :
    Answers(t, r, "successful") => Answers(t, r, "successful")'

(* A request at rest stays sound while rows are only added to the ledger. *)
LEMMA RestSound ==
  ASSUME TypeInv, NEW s \in Slot, Sound(s),
         call'[s] = call[s], draft'[s] = draft[s],
         ledger \subseteq ledger', Grounded(ledger'), StillSettled
  PROVE  Sound(s)'
<1>1. call[s].tenant \in Tenant
  BY DEF TypeInv, Types, Call
<1>2. CreditRequest(s)'
  BY <1>1 DEF Sound, CreditRequest, StillSettled, Busy
<1>3. PayoutRequest(s)'
  <2>1. \A note, amount : Drafted(s, note, amount)' <=> Drafted(s, note, amount)
    BY DEF Drafted
  <2>2. PayoutRequest(s)
    BY DEF Sound
  <2>3. QED
    BY <2>1, <2>2 DEF PayoutRequest
<1>4. LastIsRead(s)'
  BY DEF Sound, LastIsRead, Visible
<1>5. Grounded(ledger' \cup draft'[s])
  <2>1. Grounded(ledger' \cup (ledger \cup draft[s]))
    BY GroundedUnion DEF Sound
  <2>2. ledger' \cup (ledger \cup draft[s]) = ledger' \cup draft'[s]
    OBVIOUS
  <2>3. QED
    BY <2>1, <2>2
<1>6. QED
  BY <1>2, <1>3, <1>4, <1>5 DEF Sound

(* A step that commits nothing: it may drop the rows of s or add one with  *)
(* the next id.                                                            *)
LEMMA LedgerUncommitted ==
  ASSUME BookedInv, NEW s \in Slot, UNCHANGED <<ledger, payouts, gateway>>,
         \A o \in Slot \ {s} : call'[o] = call[o] /\ draft'[o] = draft[o],
         \A e \in draft'[s] : e \in draft[s] \/ e.id = nextEntry,
         Sound(s)'
  PROVE  LedgerInv'
<1>1. PayoutsAreBooked' /\ SettledTopups' /\ BalancesAreGrounded'
  BY DEF BookedInv, LedgerInv, PayoutsAreBooked, Booked, SettledTopups, Answers,
         BalancesAreGrounded
<1>2. Grounded(ledger') /\ StillSettled
  BY LedgerGrounded DEF BookedInv, LedgerInv, StillSettled, Answers
<1>3. ASSUME NEW o \in Slot PROVE Sound(o)'
  <2>1. CASE o = s
    BY <2>1
  <2>2. CASE o # s
    BY <1>2, <2>2, RestSound DEF BookedInv, LedgerInv
  <2>3. QED
    BY <2>1, <2>2
<1>4. Untangled'
  <2>1. \A o \in Slot : \A e \in draft[o] \cup ledger : e.id # nextEntry
    BY DEF BookedInv, TypeInv, Types, RowsOrdered, Entry
  <2>2. \A o \in Slot : draft'[o] \cap ledger = {}
    BY <2>1 DEF BookedInv, LedgerInv, Untangled
  <2>3. \A o, q \in Slot : o # q => draft'[o] \cap draft'[q] = {}
    BY <2>1 DEF BookedInv, LedgerInv, Untangled
  <2>4. QED
    BY <2>2, <2>3 DEF Untangled
<1>5. QED
  BY <1>1, <1>3, <1>4 DEF LedgerInv

(* A request that ends without a commit. *)
LEMMA LedgerGiveUp ==
  ASSUME BookedInv, NEW s \in Slot, Done(s), UNCHANGED <<ledger, payouts, gateway>>,
         draft'[s] = {}, \A o \in Slot \ {s} : draft'[o] = draft[o]
  PROVE  LedgerInv'
<1>1. call'[s] = IdleCall /\ \A o \in Slot \ {s} : call'[o] = call[o]
  BY DEF Done, BookedInv, TypeInv, Types
<1>2. Grounded(ledger')
  BY LedgerGrounded DEF BookedInv, LedgerInv
<1>3. Sound(s)'
  <2>1. ledger' \cup draft'[s] = ledger'
    OBVIOUS
  <2>2. (CreditRequest(s) /\ PayoutRequest(s) /\ LastIsRead(s))'
    BY <1>1 DEF IdleCall, CreditRequest, PayoutRequest, LastIsRead, Busy
  <2>3. QED
    BY <1>2, <2>1, <2>2 DEF Sound
<1>4. QED
  BY <1>1, <1>3, LedgerUncommitted

(* A request moves to another statement and inserts nothing. *)
LEMMA LedgerMove ==
  ASSUME BookedInv, NEW s \in Slot, UNCHANGED <<ledger, payouts, gateway, draft>>,
         \A o \in Slot \ {s} : call'[o] = call[o],
         (CreditRequest(s) /\ PayoutRequest(s) /\ LastIsRead(s))'
  PROVE  LedgerInv'
<1>1. Sound(s)'
  BY DEF BookedInv, LedgerInv, Sound
<1>2. QED
  BY <1>1, LedgerUncommitted

LEMMA LedgerVerify ==
  ASSUME BookedInv, NEW s \in Slot, NEW t \in Tenant, NEW r \in Ref, Verify(s, t, r)
  PROVE  LedgerInv'
<1>1. /\ call'[s].pc = "lookup" /\ call'[s].tenant = t
      /\ call'[s].note = "collection" /\ call'[s].ref = r
      /\ call'[s].amount = Price[r]
      /\ \A o \in Slot \ {s} : call'[o] = call[o]
      /\ UNCHANGED <<ledger, payouts, gateway, draft>>
      /\ Answers(t, r, "successful")'
  BY DEF Verify, Answers, BookedInv, TypeInv, Types
<1>2. draft[s] = {}
  BY DEF Verify, Busy, BookedInv, TypeInv, RowsOrdered
<1>3. (CreditRequest(s) /\ PayoutRequest(s) /\ LastIsRead(s))'
  BY <1>1, <1>2 DEF CreditRequest, PayoutRequest, LastIsRead
<1>4. QED
  BY <1>1, <1>3, LedgerMove

LEMMA LedgerDisburse ==
  ASSUME BookedInv, NEW s \in Slot, NEW t \in Tenant, NEW dest \in DestinationType,
         NEW a \in PayoutAmount, CreateDisbursement(s, t, dest, a)
  PROVE  LedgerInv'
<1>1. /\ call'[s].pc = "funds" /\ call'[s].note = "disbursement"
      /\ \A o \in Slot \ {s} : call'[o] = call[o]
      /\ UNCHANGED <<ledger, payouts, gateway, draft>>
  BY DEF CreateDisbursement, BookedInv, TypeInv, Types
<1>2. draft[s] = {}
  BY DEF CreateDisbursement, Busy, BookedInv, TypeInv, RowsOrdered
<1>3. (CreditRequest(s) /\ PayoutRequest(s) /\ LastIsRead(s))'
  BY <1>1, <1>2 DEF CreditRequest, PayoutRequest, LastIsRead
<1>4. QED
  BY <1>1, <1>3, LedgerMove

LEMMA LedgerLookup ==
  ASSUME BookedInv, NEW s \in Slot, Lookup(s)
  PROVE  LedgerInv'
<1>1. /\ UNCHANGED <<ledger, payouts, gateway, draft>> /\ draft[s] = {}
      /\ call[s].pc = "lookup"
  BY DEF Lookup, BookedInv, TypeInv, RowsOrdered
<1>2. CASE Done(s)
  BY <1>1, <1>2, LedgerGiveUp
<1>3. CASE Go(s, "read")
  <2>1. /\ call'[s].pc = "read" /\ call'[s].tenant = call[s].tenant
        /\ call'[s].note = call[s].note /\ call'[s].ref = call[s].ref
        /\ call'[s].amount = call[s].amount /\ call'[s].charge = call[s].charge
        /\ \A o \in Slot \ {s} : call'[o] = call[o]
    BY <1>3 DEF Go, BookedInv, TypeInv, Types, Call
  <2>2. CreditRequest(s) /\ PayoutRequest(s)
    BY DEF BookedInv, LedgerInv, Sound
  <2>3. CreditRequest(s)'
    BY <1>1, <2>1, <2>2 DEF CreditRequest, Busy, Answers
  <2>4. PayoutRequest(s)' /\ LastIsRead(s)'
    BY <1>1, <2>1, <2>2 DEF PayoutRequest, LastIsRead, BookedInv, TypeInv, Types, Call,
                            TransactionNote
  <2>5. QED
    BY <1>1, <2>1, <2>3, <2>4, LedgerMove
<1>4. QED
  BY <1>2, <1>3 DEF Lookup

LEMMA LedgerCheckFunds ==
  ASSUME BookedInv, NEW s \in Slot, CheckFunds(s)
  PROVE  LedgerInv'
<1>1. /\ UNCHANGED <<ledger, payouts, gateway, draft>> /\ draft[s] = {}
      /\ call[s].pc = "funds"
  BY DEF CheckFunds, BookedInv, TypeInv, RowsOrdered
<1>2. CASE Done(s)
  BY <1>1, <1>2, LedgerGiveUp
<1>3. CASE call' = [call EXCEPT ![s].pc = "payout", ![s].seen = wallet[call[s].tenant]]
  <2>1. /\ call'[s].pc = "payout" /\ call'[s].note = call[s].note
        /\ \A o \in Slot \ {s} : call'[o] = call[o]
    BY <1>3 DEF BookedInv, TypeInv, Types, Call
  <2>2. call[s].note = "disbursement"
    BY <1>1 DEF BookedInv, LedgerInv, Sound, CreditRequest, PayoutRequest, Busy, TypeInv,
                Types, Call, TransactionNote
  <2>3. (CreditRequest(s) /\ PayoutRequest(s) /\ LastIsRead(s))'
    BY <1>1, <2>1, <2>2 DEF CreditRequest, PayoutRequest, LastIsRead
  <2>4. QED
    BY <1>1, <2>1, <2>3, LedgerMove
<1>4. QED
  BY <1>2, <1>3 DEF CheckFunds

LEMMA LedgerInsertPayout ==
  ASSUME BookedInv, NEW s \in Slot, InsertPayout(s)
  PROVE  LedgerInv'
<1>1. /\ UNCHANGED <<ledger, payouts, gateway, draft>> /\ draft[s] = {}
      /\ call[s].pc = "payout"
  BY DEF InsertPayout, BookedInv, TypeInv, RowsOrdered
<1>2. /\ call'[s].pc = "read" /\ call'[s].note = call[s].note
      /\ \A o \in Slot \ {s} : call'[o] = call[o]
  BY DEF InsertPayout, BookedInv, TypeInv, Types, Call
<1>3. call[s].note = "disbursement"
  BY <1>1 DEF BookedInv, LedgerInv, Sound, CreditRequest, PayoutRequest, Busy, TypeInv,
              Types, Call, TransactionNote
<1>4. (CreditRequest(s) /\ PayoutRequest(s) /\ LastIsRead(s))'
  BY <1>1, <1>2, <1>3 DEF CreditRequest, PayoutRequest, LastIsRead
<1>5. QED
  BY <1>1, <1>2, <1>4, LedgerMove

(* A request that stays the same request, at another statement. *)
LEMMA SameRequest ==
  ASSUME NEW s \in Slot, Sound(s), UNCHANGED <<gateway, ledger, draft>>, Busy(s),
         call'[s].tenant = call[s].tenant, call'[s].note = call[s].note,
         call'[s].ref = call[s].ref, call'[s].amount = call[s].amount,
         call'[s].charge = call[s].charge,
         \/ call[s].pc = "read" /\ call'[s].pc = "insert"
         \/ /\ call[s].pc = "company" /\ call'[s].pc \in {"save", "commit"}
            /\ call[s].note = "collection"
         \/ call[s].pc = "save" /\ call'[s].pc = "commit"
  PROVE  CreditRequest(s)' /\ PayoutRequest(s)'
<1>1. CreditRequest(s)'
  BY DEF Sound, CreditRequest, Busy, Answers
<1>2. PayoutRequest(s)'
  BY DEF Sound, PayoutRequest, Drafted
<1>3. QED
  BY <1>1, <1>2

LEMMA LedgerReadLast ==
  ASSUME BookedInv, NEW s \in Slot, ReadLast(s)
  PROVE  LedgerInv'
<1>1. /\ UNCHANGED <<ledger, payouts, gateway, draft>>
      /\ call[s].pc = "read" /\ Busy(s)
  BY DEF ReadLast, Busy
<1>2. /\ call'[s].pc = "insert" /\ call'[s].tenant = call[s].tenant
      /\ call'[s].note = call[s].note /\ call'[s].ref = call[s].ref
      /\ call'[s].amount = call[s].amount /\ call'[s].charge = call[s].charge
      /\ call'[s].last = LastBalance(Visible(s))
      /\ \A o \in Slot \ {s} : call'[o] = call[o]
  BY DEF ReadLast, BookedInv, TypeInv, Types, Call
<1>3. CreditRequest(s)' /\ PayoutRequest(s)'
  BY <1>1, <1>2, SameRequest DEF BookedInv, LedgerInv
<1>4. LastIsRead(s)'
  <2>1. Visible(s)' = Visible(s)
    BY <1>1, <1>2 DEF Visible
  <2>2. HasLatest(Visible(s))
    BY VisibleLatest DEF BookedInv
  <2>3. Visible(s) = {} \/ Latest(Visible(s)) \in Visible(s)
    BY <2>2 DEF HasLatest, Latest
  <2>4. LastBalance(Visible(s)) = 0 \/ \E f \in Visible(s) : f.balance = LastBalance(Visible(s))
    BY <2>3 DEF LastBalance
  <2>5. QED
    BY <1>2, <2>1, <2>4 DEF LastIsRead
<1>5. QED
  BY <1>1, <1>2, <1>3, <1>4, LedgerMove

(* The row CreateTransaction inserts continues from the balance it read. *)
LEMMA NewEntryStarts ==
  ASSUME TypeInv, NEW s \in Slot
  PROVE  Before(NewEntry(call[s])) = call[s].last
<1> DEFINE c == call[s]
           a == AmountOf(c)
           o == OpOf(c.note)
<1>1. c.amount \in Nat /\ c.charge \in Nat /\ c.last \in Int
  BY DEF TypeInv, Types, Call
<1>2. a \in Nat
  BY <1>1 DEF AmountOf
<1>3. /\ NewEntry(c).op = o /\ NewEntry(c).amount = a
      /\ NewEntry(c).balance = Running(c.last, o, a)
  BY DEF NewEntry
<1> HIDE DEF a, o, c
<1>4. QED
  BY <1>1, <1>2, <1>3 DEF Before, Running, c

LEMMA LedgerInsertEntry ==
  ASSUME BookedInv, NEW s \in Slot, InsertEntry(s)
  PROVE  LedgerInv'
<1> DEFINE c == call[s]
           e == NewEntry(c)
<1>1. /\ UNCHANGED <<ledger, payouts, gateway>> /\ c.pc = "insert" /\ Busy(s)
      /\ draft'[s] = draft[s] \cup {e}
      /\ \A o \in Slot \ {s} : draft'[o] = draft[o]
  BY DEF InsertEntry, Busy, BookedInv, TypeInv, Types
<1>2. /\ e.id = nextEntry /\ e.tenant = c.tenant /\ e.ref = c.ref
      /\ e.op = OpOf(c.note) /\ e.note = c.note /\ e.amount = AmountOf(c)
  BY DEF NewEntry
<1>3. /\ call'[s].tenant = c.tenant /\ call'[s].ref = c.ref
      /\ call'[s].amount = c.amount /\ call'[s].charge = c.charge
      /\ \/ c.note = "collection" /\ call'[s].note = c.note /\ call'[s].pc = "company"
         \/ /\ c.note = "disbursement" /\ call'[s].note = "txn charges"
            /\ call'[s].pc = "read"
         \/ c.note = "txn charges" /\ call'[s].note = c.note /\ call'[s].pc = "save"
      /\ \A o \in Slot \ {s} : call'[o] = call[o]
  <2>1. call \in [Slot -> Call]
    BY DEF BookedInv, TypeInv, Types
  <2>2. CASE c.note = "collection" /\ Go(s, "company")
    BY <2>1, <2>2 DEF Go, Call
  <2>3. CASE /\ c.note = "disbursement"
             /\ call' = [call EXCEPT ![s].pc = "read", ![s].note = "txn charges"]
    BY <2>1, <2>3 DEF Call
  <2>4. CASE c.note = "txn charges" /\ Go(s, "save")
    BY <2>1, <2>4 DEF Go, Call
  <2>5. QED
    BY <2>2, <2>3, <2>4 DEF InsertEntry
<1>4. CreditRequest(s) /\ PayoutRequest(s) /\ LastIsRead(s) /\ Grounded(ledger \cup draft[s])
  BY DEF BookedInv, LedgerInv, Sound
<1>5. Before(e) = c.last
  BY NewEntryStarts DEF BookedInv
<1>6. \A f \in ledger \cup draft[s] : f.id < e.id
  BY <1>2 DEF BookedInv, TypeInv, RowsOrdered
<1> HIDE DEF e
<1>7. CreditRequest(s)'
  BY <1>1, <1>2, <1>3, <1>4 DEF CreditRequest, OpOf, AmountOf, c, Busy, Answers
<1>8. PayoutRequest(s)'
  <2>1. CASE c.note = "collection"
    BY <1>3, <2>1 DEF PayoutRequest
  <2>2. CASE c.note = "disbursement"
    <3>1. draft'[s] = {e}
      BY <1>1, <1>4, <2>2 DEF PayoutRequest
    <3>2. e.op = "deduct" /\ e.amount = c.amount
      BY <1>2, <2>2 DEF OpOf, AmountOf
    <3>3. QED
      BY <1>2, <1>3, <2>2, <3>1, <3>2 DEF PayoutRequest, Drafted
  <2>3. CASE c.note = "txn charges"
    <3>1. e.op = "deduct" /\ e.amount = c.charge
      BY <1>2, <2>3 DEF OpOf, AmountOf
    <3>2. \A f \in draft[s] : f.op = "deduct" /\ f.ref = c.ref
      BY <1>4, <2>3 DEF PayoutRequest
    <3>3. Drafted(s, "disbursement", c.amount)
      BY <1>4, <2>3 DEF PayoutRequest
    <3>4. Drafted(s, "disbursement", c.amount)'
      BY <1>1, <1>3, <3>3 DEF Drafted
    <3>5. Drafted(s, "txn charges", c.charge)'
      BY <1>1, <1>2, <1>3, <2>3, <3>1 DEF Drafted
    <3>6. QED
      BY <1>1, <1>2, <1>3, <2>3, <3>1, <3>2, <3>4, <3>5 DEF PayoutRequest, Drafted
  <2>4. QED
    BY <2>1, <2>2, <2>3 DEF BookedInv, TypeInv, Types, Call, TransactionNote
<1>9. LastIsRead(s)'
  BY <1>3 DEF LastIsRead
<1>10. Grounded(ledger' \cup draft'[s])
  <2>1. Before(e) = 0 \/ \E f \in ledger \cup draft[s] :
                            f.tenant = e.tenant /\ f.balance = Before(e)
    BY <1>1, <1>2, <1>4, <1>5 DEF LastIsRead, Visible
  <2>2. Grounded((ledger \cup draft[s]) \cup {e})
    BY <1>4, <1>6, <2>1, GroundedOnTop
  <2>3. (ledger \cup draft[s]) \cup {e} = ledger' \cup draft'[s]
    BY <1>1
  <2>4. QED
    BY <2>2, <2>3
<1>11. Sound(s)'
  BY <1>7, <1>8, <1>9, <1>10 DEF Sound
<1>12. QED
  BY <1>1, <1>2, <1>3, <1>11, LedgerUncommitted

LEMMA LedgerReadCompany ==
  ASSUME BookedInv, NEW s \in Slot, ReadCompany(s)
  PROVE  LedgerInv'
<1>1. /\ UNCHANGED <<ledger, payouts, gateway, draft>>
      /\ call[s].pc = "company" /\ Busy(s)
  BY DEF ReadCompany, Busy
<1>2. /\ call'[s].pc \in {"save", "commit"} /\ call'[s].tenant = call[s].tenant
      /\ call'[s].note = call[s].note /\ call'[s].ref = call[s].ref
      /\ call'[s].amount = call[s].amount /\ call'[s].charge = call[s].charge
      /\ \A o \in Slot \ {s} : call'[o] = call[o]
  BY DEF ReadCompany, BookedInv, TypeInv, Types, Call
<1>3. call[s].note = "collection"
  BY <1>1 DEF BookedInv, LedgerInv, Sound, PayoutRequest, TypeInv, Types, Call,
              TransactionNote
<1>4. CreditRequest(s)' /\ PayoutRequest(s)'
  BY <1>1, <1>2, <1>3, SameRequest DEF BookedInv, LedgerInv
<1>5. LastIsRead(s)'
  BY <1>2 DEF LastIsRead
<1>6. QED
  BY <1>1, <1>2, <1>4, <1>5, LedgerMove

LEMMA LedgerSaveCompany ==
  ASSUME BookedInv, NEW s \in Slot, SaveCompany(s)
  PROVE  LedgerInv'
<1>1. /\ UNCHANGED <<ledger, payouts, gateway, draft>>
      /\ call[s].pc = "save" /\ Busy(s)
  BY DEF SaveCompany, Busy
<1>2. /\ call'[s].pc = "commit" /\ call'[s].tenant = call[s].tenant
      /\ call'[s].note = call[s].note /\ call'[s].ref = call[s].ref
      /\ call'[s].amount = call[s].amount /\ call'[s].charge = call[s].charge
      /\ \A o \in Slot \ {s} : call'[o] = call[o]
  BY DEF SaveCompany, Go, BookedInv, TypeInv, Types, Call
<1>3. CreditRequest(s)' /\ PayoutRequest(s)'
  BY <1>1, <1>2, SameRequest DEF BookedInv, LedgerInv
<1>4. LastIsRead(s)'
  BY <1>2 DEF LastIsRead
<1>5. QED
  BY <1>1, <1>2, <1>3, <1>4, LedgerMove

(* What COMMIT finds: a verification with its row, or a disbursement with  *)
(* both of its deductions.                                                 *)
LEMMA CommitKnows ==
  ASSUME BookedInv, NEW s \in Slot, call[s].pc = "commit"
  PROVE  /\ draft[s] # {} /\ \A e \in draft[s] : e.tenant = call[s].tenant
         /\ \/ /\ IsTopup(s)
               /\ \A e \in draft[s] : /\ e.op = "topup" /\ e.ref \in Ref
                                      /\ e.amount = Price[e.ref]
                                      /\ Answers(e.tenant, e.ref, "successful")
            \/ /\ ~IsTopup(s)
               /\ \A e \in draft[s] : e.op = "deduct" /\ e.ref = call[s].ref
               /\ Drafted(s, "disbursement", call[s].amount)
               /\ Drafted(s, "txn charges", call[s].charge)
<1>1. CreditRequest(s) /\ PayoutRequest(s) /\ Busy(s)
  BY DEF BookedInv, LedgerInv, Sound, Busy
<1>2. \A e \in draft[s] : e.tenant = call[s].tenant
  BY DEF BookedInv, TypeInv, RowsOrdered
<1>3. CASE IsTopup(s)
  BY <1>1, <1>2, <1>3 DEF IsTopup, CreditRequest
<1>4. CASE ~IsTopup(s)
  <2>1. call[s].note = "txn charges"
    BY <1>1, <1>4 DEF IsTopup, PayoutRequest, BookedInv, TypeInv, Types, Call, TransactionNote
  <2>2. QED
    BY <1>1, <1>2, <1>4, <2>1 DEF IsTopup, PayoutRequest, Drafted
<1>5. QED
  BY <1>3, <1>4

LEMMA LedgerCommit ==
  ASSUME BookedInv, NEW s \in Slot, Commit(s)
  PROVE  LedgerInv'
<1> DEFINE c == call[s]
<1> PICK p : p = [id |-> c.ref, tenant |-> c.tenant, amount |-> c.amount,
                  charge |-> c.charge]
  OBVIOUS
<1>1. /\ c.pc = "commit" /\ ledger' = ledger \cup draft[s]
      /\ payouts' = IF IsTopup(s) THEN payouts ELSE payouts \cup {p}
      /\ gateway' = gateway
  BY DEF Commit
<1>2. /\ call'[s] = IdleCall /\ draft'[s] = {}
      /\ \A o \in Slot \ {s} : call'[o] = call[o] /\ draft'[o] = draft[o]
  <2>1. call \in [Slot -> Call] /\ draft \in [Slot -> SUBSET Entry]
    BY DEF BookedInv, TypeInv, Types
  <2>2. call' = [call EXCEPT ![s] = IdleCall] /\ draft' = [draft EXCEPT ![s] = {}]
    BY DEF Commit, Done
  <2>3. QED
    BY <2>1, <2>2
<1>3. p.id = c.ref /\ p.tenant = c.tenant /\ p.amount = c.amount /\ p.charge = c.charge
  OBVIOUS
<1>4. Grounded(ledger')
  BY <1>1 DEF BookedInv, LedgerInv, Sound
<1>5. BalancesAreGrounded'
  BY <1>4 DEF BalancesAreGrounded, Grounded
<1>6. SettledTopups'
  <2>1. \A t, r : Answers(t, r, "successful")' <=> Answers(t, r, "successful")
    BY <1>1 DEF Answers
  <2>2. \A e \in draft[s] : e.op = "topup" =>
          e.ref \in Ref /\ Answers(e.tenant, e.ref, "successful") /\ e.amount = Price[e.ref]
    BY <1>1, CommitKnows
  <2>3. SettledTopups
    BY DEF BookedInv, LedgerInv
  <2>4. QED
    BY <1>1, <2>1, <2>2, <2>3 DEF SettledTopups
<1>7. PayoutsAreBooked'
  <2>1. \A q, note, amount : Booked(q, note, amount) => Booked(q, note, amount)'
    BY <1>1 DEF Booked
  <2>2. /\ \A q \in payouts : /\ Booked(q, "disbursement", q.amount)
                              /\ Booked(q, "txn charges", q.charge)
        /\ \A e \in ledger : e.op = "deduct" =>
              \E q \in payouts : q.id = e.ref /\ q.tenant = e.tenant
    BY DEF BookedInv, LedgerInv, PayoutsAreBooked
  <2>3. \A q \in payouts : /\ Booked(q, "disbursement", q.amount)'
                           /\ Booked(q, "txn charges", q.charge)'
    BY <2>1, <2>2
  <2>4. CASE IsTopup(s)
    <3>1. \A e \in draft[s] : e.op # "deduct"
      BY <1>1, <2>4, CommitKnows
    <3>2. QED
      BY <1>1, <2>2, <2>3, <2>4, <3>1 DEF PayoutsAreBooked
  <2>5. CASE ~IsTopup(s)
    <3>1. /\ Booked(p, "disbursement", p.amount)'
          /\ Booked(p, "txn charges", p.charge)'
      <4>1. \A e \in draft[s] : e \in ledger' /\ e.tenant = p.tenant
        BY <1>1, <1>3, CommitKnows
      <4>2. Drafted(s, "disbursement", p.amount) /\ Drafted(s, "txn charges", p.charge)
        BY <1>1, <1>3, <2>5, CommitKnows
      <4>3. QED
        BY <1>3, <4>1, <4>2 DEF Booked, Drafted
    <3>2. \A e \in draft[s] : e.ref = p.id /\ e.tenant = p.tenant
      BY <1>1, <1>3, <2>5, CommitKnows
    <3>3. payouts' = payouts \cup {p}
      BY <1>1, <2>5
    <3>4. QED
      BY <1>1, <2>2, <2>3, <3>1, <3>2, <3>3 DEF PayoutsAreBooked
  <2>6. QED
    BY <2>4, <2>5
<1>8. Untangled'
  BY <1>1, <1>2 DEF BookedInv, LedgerInv, Untangled
<1>9. ASSUME NEW o \in Slot PROVE Sound(o)'
  <2>1. CASE o = s
    <3>1. ledger' \cup draft'[s] = ledger'
      BY <1>2
    <3>2. (CreditRequest(s) /\ PayoutRequest(s) /\ LastIsRead(s))'
      BY <1>2 DEF IdleCall, CreditRequest, PayoutRequest, LastIsRead, Busy
    <3>3. QED
      BY <1>4, <2>1, <3>1, <3>2 DEF Sound
  <2>2. CASE o # s
    <3>1. StillSettled
      BY <1>1 DEF StillSettled, Answers
    <3>2. QED
      BY <1>1, <1>2, <1>4, <2>2, <3>1, RestSound DEF BookedInv, LedgerInv
  <2>3. QED
    BY <2>1, <2>2
<1>10. QED
  BY <1>5, <1>6, <1>7, <1>8, <1>9 DEF LedgerInv

(* Steps at the gateway, and steps of nobody. *)
LEMMA LedgerQuiet ==
  ASSUME BookedInv, UNCHANGED <<ledger, payouts, draft, call>>, StillSettled
  PROVE  LedgerInv'
<1>1. Grounded(ledger')
  BY LedgerGrounded DEF BookedInv, LedgerInv
<1>2. \A s \in Slot : Sound(s)'
  BY <1>1, RestSound DEF BookedInv, LedgerInv
<1>3. PayoutsAreBooked' /\ BalancesAreGrounded' /\ Untangled'
  BY DEF BookedInv, LedgerInv, PayoutsAreBooked, Booked, BalancesAreGrounded, Untangled
<1>4. SettledTopups'
  BY DEF BookedInv, LedgerInv, SettledTopups, StillSettled, TypeInv, Types, Entry
<1>5. QED
  BY <1>2, <1>3, <1>4 DEF LedgerInv

LEMMA LedgerStep == BookedInv /\ [Next]_vars => LedgerInv'
<1> SUFFICES ASSUME BookedInv, [Next]_vars PROVE LedgerInv'
  OBVIOUS
<1>1. ASSUME NEW key \in Key, NEW r \in Ref,
             \/ \E t \in Tenant : key \in Keys[t] /\ gateway[key][r] = "none"
                                  /\ gateway' = [gateway EXCEPT ![key][r] = "pending"]
             \/ /\ gateway[key][r] = "pending"
                /\ \E status \in {"successful", "failed"} :
                      gateway' = [gateway EXCEPT ![key][r] = status],
             UNCHANGED <<ledger, payouts, draft, call>>
      PROVE  LedgerInv'
  <2>1. gateway \in [Key -> [Ref -> {"none", "pending", "successful", "failed"}]]
    BY DEF BookedInv, TypeInv, Types
  <2>2. \A k \in Key, q \in Ref :
          gateway[k][q] = "successful" => gateway'[k][q] = "successful"
    BY <1>1, <2>1
  <2>3. StillSettled
    BY <2>2, KeysAssumption DEF StillSettled, Answers
  <2>4. QED
    BY <1>1, <2>3, LedgerQuiet
<1>c. CASE \/ \E t \in Tenant, r \in Ref : Charge(t, r)
           \/ \E key \in Key, r \in Ref : Settle(key, r)
  BY <1>1, <1>c, KeysAssumption DEF Charge, Settle
<1>2. ASSUME NEW s \in Slot, NEW t \in Tenant, NEW r \in Ref, Verify(s, t, r)
      PROVE  LedgerInv'
  BY <1>2, LedgerVerify
<1>3. ASSUME NEW s \in Slot, NEW t \in Tenant, NEW dest \in DestinationType,
             NEW a \in PayoutAmount, CreateDisbursement(s, t, dest, a)
      PROVE  LedgerInv'
  BY <1>3, LedgerDisburse
<1>4. ASSUME NEW s \in Slot, Statement(s) PROVE LedgerInv'
  BY <1>4, LedgerLookup, LedgerCheckFunds, LedgerInsertPayout, LedgerReadLast, LedgerInsertEntry,
     LedgerReadCompany, LedgerSaveCompany, LedgerCommit DEF Statement
<1>5. ASSUME NEW s \in Slot, Rollback(s) PROVE LedgerInv'
  <2>1. draft'[s] = {} /\ \A o \in Slot \ {s} : draft'[o] = draft[o]
    BY <1>5 DEF Rollback, BookedInv, TypeInv, Types
  <2>2. QED
    BY <1>5, <2>1, LedgerGiveUp DEF Rollback
<1>6. CASE UNCHANGED vars
  BY <1>6, LedgerQuiet DEF vars, StillSettled, Answers
<1>7. QED
  BY <1>c, <1>2, <1>3, <1>4, <1>5, <1>6 DEF Next

LEMMA BookedInvAlways == Spec => []BookedInv
<1>1. Init => BookedInv
  BY TypeInit, LedgerInit DEF BookedInv
<1>2. BookedInv /\ [Next]_vars => BookedInv'
  BY TypeStep, LedgerStep DEF BookedInv
<1>3. QED
  BY <1>1, <1>2, PTL DEF Spec

(* disbursement/services.go 92-95: whatever fails between the statements   *)
(* of a disbursement and whatever runs beside it, its row and its two      *)
(* deductions are all in the database or none is.                          *)
THEOREM PayoutsBooked == Spec => []PayoutsAreBooked
<1>1. BookedInv => PayoutsAreBooked
  BY DEF BookedInv, LedgerInv
<1>2. QED
  BY <1>1, BookedInvAlways, PTL

(* transactions/services.go 40-45, of every tenant: no balance is computed *)
(* from a row that was rolled back, from a later or from a stranger's row. *)
THEOREM LedgerIsGrounded == Spec => []BalancesAreGrounded
<1>1. BookedInv => BalancesAreGrounded
  BY DEF BookedInv, LedgerInv
<1>2. QED
  BY <1>1, BookedInvAlways, PTL

(* A step that changes the wallet of a tenant posts a new row of it. *)
LEMMA PostingStep ==
  ASSUME BookedInv, [Next]_vars
  PROVE  /\ ledger \subseteq ledger'
         /\ \A t \in Tenant : wallet'[t] # wallet[t] =>
              \E e \in ledger' \ ledger : e.tenant = t
<1>1. CASE UNCHANGED <<ledger, wallet>>
  BY <1>1
<1>2. ASSUME NEW s \in Slot, Commit(s)
      PROVE  /\ ledger \subseteq ledger'
             /\ \A t \in Tenant : wallet'[t] # wallet[t] =>
                  \E e \in ledger' \ ledger : e.tenant = t
  <2>1. \A t \in Tenant : wallet'[t] # wallet[t] => t = call[s].tenant
    BY <1>2 DEF Commit, BookedInv, TypeInv, Types
  <2>2. draft[s] # {} /\ \A e \in draft[s] : e.tenant = call[s].tenant
    BY <1>2, CommitKnows DEF Commit
  <2>3. draft[s] \cap ledger = {}
    BY DEF BookedInv, LedgerInv, Untangled
  <2>4. ledger' = ledger \cup draft[s]
    BY <1>2 DEF Commit
  <2>5. QED
    BY <2>1, <2>2, <2>3, <2>4
<1>3. QED
  BY <1>1, <1>2 DEF Next, vars, Statement, Charge, Settle, Verify, CreateDisbursement,
                   Lookup, CheckFunds, InsertPayout, ReadLast, InsertEntry, ReadCompany,
                   SaveCompany, Rollback

-----------------------------------------------------------------------------
(* What payments add up to.  Credited is a recursive function over the     *)
(* subsets of a set of rows; that it exists, adds a payment when one is    *)
(* added and never shrinks follows from the smallest set where it would    *)
(* not.                                                                    *)

(* The sum over a set of rows, as the recursive function behind it.        *)
Recurses(f, S) ==
  f = [s \in SUBSET S |->
         IF s = {} THEN 0
         ELSE Round((CHOOSE e \in s : TRUE).amount) + f[s \ {CHOOSE e \in s : TRUE}]]
SumOver(S) == CHOOSE f : Recurses(f, S)
Some(s) == CHOOSE e \in s : TRUE
Rest(s) == s \ {Some(s)}

LEMMA CreditedIsSum == \A S : Credited(S) = SumOver(S)[S]
<1> TAKE S
<1>1. Credited(S) = SumOver(S)[S]
  BY DEF Credited, SumOver, Recurses, MapThenSumSet, MapThenFoldSet
<1>2. QED
  BY <1>1

LEMMA RecursesAt ==
  ASSUME NEW f, NEW S, Recurses(f, S), NEW s \in SUBSET S
  PROVE  f[s] = IF s = {} THEN 0 ELSE Round(Some(s).amount) + f[Rest(s)]
  BY DEF Recurses, Some, Rest

(* Among finite sets there is one without a smaller one. *)
LEMMA SmallestSet ==
  ASSUME NEW X, X # {}, \A S \in X : IsFiniteSet(S)
  PROVE  \E S \in X : \A T \in X : T \subseteq S => T = S
<1> DEFINE U == UNION X
<1>1. X \subseteq FiniteSubsetsOf(U)
  BY DEF FiniteSubsetsOf
<1>2. IsWellFoundedOn(StrictSubsetOrdering(U), FiniteSubsetsOf(U))
  BY FS_StrictSubsetOrderingWellFounded
<1>3. \E S \in X : \A T \in X : <<T, S>> \notin StrictSubsetOrdering(U)
  <2> HIDE DEF U
  <2> QED
    BY <1>1, <1>2, WFMin
<1>4. QED
  BY <1>3 DEF StrictSubsetOrdering

LEMMA RestSmaller ==
  ASSUME NEW S, IsFiniteSet(S), S # {}
  PROVE  /\ Some(S) \in S /\ Rest(S) \subseteq S /\ Rest(S) # S
         /\ IsFiniteSet(Rest(S)) /\ S = Rest(S) \cup {Some(S)} /\ Some(S) \notin Rest(S)
<1>1. Some(S) \in S
  BY DEF Some
<1>2. QED
  BY <1>1, FS_RemoveElement DEF Rest

(* Two such functions agree. *)
LEMMA RecursesOnce ==
  ASSUME NEW S, NEW T, NEW f, NEW g, Recurses(f, S), Recurses(g, T), T \subseteq S,
         IsFiniteSet(T)
  PROVE  f[T] = g[T]
<1> DEFINE X == {s \in SUBSET T : f[s] # g[s]}
<1> SUFFICES ASSUME X # {} PROVE FALSE
  BY DEF X
<1>1. \A s \in X : IsFiniteSet(s) /\ s \in SUBSET T /\ s \in SUBSET S
  BY FS_Subset
<1>2. PICK s \in X : \A r \in X : r \subseteq s => r = s
  <2> HIDE DEF X
  <2> QED
    BY <1>1, SmallestSet
<1>3. /\ f[s] = IF s = {} THEN 0 ELSE Round(Some(s).amount) + f[Rest(s)]
      /\ g[s] = IF s = {} THEN 0 ELSE Round(Some(s).amount) + g[Rest(s)]
  <2>1. s \in SUBSET T /\ s \in SUBSET S
    BY <1>1
  <2>2. QED
    BY <2>1, RecursesAt
<1>4. s # {}
  BY <1>3
<1>5. f[Rest(s)] = g[Rest(s)]
  BY <1>1, <1>2, <1>4, RestSmaller
<1>6. QED
  BY <1>3, <1>4, <1>5

(* The sum of a finite set exists. *)
LEMMA SumRecurses ==
  ASSUME NEW S, IsFiniteSet(S)
  PROVE  Recurses(SumOver(S), S)
<1> DEFINE X == {s \in SUBSET S : ~Recurses(SumOver(s), s)}
<1> SUFFICES ASSUME X # {} PROVE FALSE
  BY DEF X
<1>1. \A s \in SUBSET S : IsFiniteSet(s)
  BY FS_Subset
<1>2. PICK s \in X : \A r \in X : r \subseteq s => r = s
  <2>1. \A r \in X : IsFiniteSet(r)
    BY <1>1
  <2> HIDE DEF X
  <2> QED
    BY <2>1, SmallestSet
<1>3. \A r \in SUBSET s : r # s => Recurses(SumOver(r), r)
  BY <1>2
<1>4. \A r \in SUBSET s : r # s => 
         Credited(r) = IF r = {} THEN 0 ELSE Round(Some(r).amount) + Credited(Rest(r))
  <2> SUFFICES ASSUME NEW r \in SUBSET s, r # s
               PROVE  Credited(r) = IF r = {} THEN 0
                                    ELSE Round(Some(r).amount) + Credited(Rest(r))
    OBVIOUS
  <2>1. Recurses(SumOver(r), r) /\ IsFiniteSet(r)
    BY <1>1, <1>3
  <2>2. SumOver(r)[r] = IF r = {} THEN 0 ELSE Round(Some(r).amount) + SumOver(r)[Rest(r)]
    BY <2>1, RecursesAt
  <2>3. r # {} => SumOver(r)[Rest(r)] = SumOver(Rest(r))[Rest(r)]
    <3> SUFFICES ASSUME r # {} PROVE SumOver(r)[Rest(r)] = SumOver(Rest(r))[Rest(r)]
      OBVIOUS
    <3>1. /\ Rest(r) \subseteq r /\ IsFiniteSet(Rest(r)) /\ Rest(r) \in SUBSET s
          /\ Rest(r) # s
      BY <2>1, RestSmaller
    <3>2. Recurses(SumOver(Rest(r)), Rest(r))
      BY <3>1, <1>3
    <3> HIDE DEF X
    <3>3. QED
      BY <2>1, <3>1, <3>2, RecursesOnce
  <2>4. QED
    BY <2>2, <2>3, CreditedIsSum
<1>5. PICK g : g = [r \in SUBSET s |-> IF r = {} THEN 0
                                       ELSE Round(Some(r).amount) + Credited(Rest(r))]
  OBVIOUS
<1>6. \A r \in SUBSET s : r # {} => g[Rest(r)] = Credited(Rest(r))
  <2> SUFFICES ASSUME NEW r \in SUBSET s, r # {} PROVE g[Rest(r)] = Credited(Rest(r))
    OBVIOUS
  <2>1. Rest(r) \in SUBSET s /\ Rest(r) # s
    <3>1. IsFiniteSet(r)
      BY <1>1
    <3>2. QED
      BY <3>1, RestSmaller
  <2>2. QED
    BY <1>4, <1>5, <2>1
<1>7. g = [r \in SUBSET s |-> IF r = {} THEN 0 ELSE Round(Some(r).amount) + g[Rest(r)]]
  BY <1>5, <1>6
<1>8. Recurses(g, s)
  BY <1>7 DEF Recurses, Some, Rest
<1>9. Recurses(SumOver(s), s)
  BY <1>8 DEF SumOver
<1>10. QED
  BY <1>2, <1>9

LEMMA CreditedStep ==
  ASSUME NEW S, IsFiniteSet(S)
  PROVE  Credited(S) = IF S = {} THEN 0 ELSE Round(Some(S).amount) + Credited(Rest(S))
<1>1. Recurses(SumOver(S), S)
  BY SumRecurses
<1>2. SumOver(S)[S] = IF S = {} THEN 0 ELSE Round(Some(S).amount) + SumOver(S)[Rest(S)]
  BY <1>1, RecursesAt
<1>3. CASE S = {}
  BY <1>2, <1>3, CreditedIsSum
<1>4. CASE S # {}
  <2>1. Rest(S) \subseteq S /\ IsFiniteSet(Rest(S))
    BY <1>4, RestSmaller
  <2>2. Recurses(SumOver(Rest(S)), Rest(S))
    BY <2>1, SumRecurses
  <2>3. SumOver(S)[Rest(S)] = SumOver(Rest(S))[Rest(S)]
    BY <1>1, <2>1, <2>2, RecursesOnce
  <2>4. QED
    BY <1>2, <1>4, <2>3, CreditedIsSum
<1>5. QED
  BY <1>3, <1>4

Payments(S) == IsFiniteSet(S) /\ \A e \in S : e.amount \in Nat

LEMMA CreditedNat ==
  ASSUME NEW S, Payments(S)
  PROVE  Credited(S) \in Nat
<1> DEFINE X == {s \in SUBSET S : Credited(s) \notin Nat}
<1> SUFFICES ASSUME X # {} PROVE FALSE
  BY DEF X
<1>1. \A s \in X : IsFiniteSet(s) /\ s \in SUBSET S
  BY FS_Subset DEF Payments
<1>2. PICK s \in X : \A r \in X : r \subseteq s => r = s
  <2> HIDE DEF X
  <2> QED
    BY <1>1, SmallestSet
<1>3. Credited(s) = IF s = {} THEN 0 ELSE Round(Some(s).amount) + Credited(Rest(s))
  BY <1>1, CreditedStep
<1>4. s # {}
  BY <1>2, <1>3
<1>5. Some(s) \in S /\ Rest(s) \in SUBSET S /\ Rest(s) \subseteq s /\ Rest(s) # s
  BY <1>1, <1>4, RestSmaller
<1>6. Credited(Rest(s)) \in Nat
  BY <1>2, <1>5
<1>7. Round(Some(s).amount) \in Nat
  BY <1>5 DEF Payments, Round
<1>8. QED
  BY <1>2, <1>3, <1>4, <1>6, <1>7

(* A new payment adds its rounded amount. *)
LEMMA CreditedMore ==
  ASSUME NEW S, NEW e, Payments(S \cup {e}), e \notin S
  PROVE  Credited(S \cup {e}) = Credited(S) + Round(e.amount)
<1> DEFINE X == {s \in SUBSET (S \cup {e}) :
                   \E x \in S \cup {e} : x \notin s /\ 
                     Credited(s \cup {x}) # Credited(s) + Round(x.amount)}
<1> SUFFICES ASSUME X # {} PROVE FALSE
  BY DEF X
<1>1. \A s \in SUBSET (S \cup {e}) : IsFiniteSet(s) /\ Payments(s)
  BY FS_Subset DEF Payments
<1>2. PICK s \in X : \A r \in X : r \subseteq s => r = s
  <2>1. \A s \in X : IsFiniteSet(s)
    BY <1>1
  <2> HIDE DEF X
  <2> QED
    BY <2>1, SmallestSet
<1>3. PICK x \in S \cup {e} : x \notin s /\ Credited(s \cup {x}) # Credited(s) + Round(x.amount)
  BY <1>2
<1> DEFINE u == s \cup {x}
           y == Some(u)
<1>4. s \in SUBSET (S \cup {e}) /\ u \in SUBSET (S \cup {e}) /\ u # {}
  BY <1>2, <1>3
<1>5. /\ y \in u /\ Rest(u) \subseteq u /\ Credited(u) = Round(y.amount) + Credited(Rest(u))
  <2> HIDE DEF u
  <2> QED
    BY <1>1, <1>4, RestSmaller, CreditedStep
<1>6. Credited(s) \in Nat /\ Round(x.amount) \in Nat /\ Round(y.amount) \in Nat
  <2>1. Payments(s) /\ x.amount \in Nat /\ y.amount \in Nat
    BY <1>1, <1>3, <1>4, <1>5 DEF Payments
  <2>2. QED
    BY <2>1, CreditedNat DEF Round
<1>7. CASE y = x
  <2>1. Rest(u) = s
    BY <1>3, <1>7 DEF Rest
  <2> HIDE DEF y, u, X
  <2>2. QED
    BY <1>3, <1>5, <1>6, <1>7, <2>1 DEF u
<1>8. CASE y # x
  <2>1. y \in s
    BY <1>5, <1>8
  <2> PICK r : r = s \ {y}
    OBVIOUS
  <2>2. /\ r \subseteq s /\ r # s /\ r \cup {y} = s /\ y \notin r /\ x \notin r
        /\ Rest(u) = r \cup {x} /\ r \in SUBSET (S \cup {e}) /\ y \in S \cup {e}
    BY <1>3, <1>4, <1>8, <2>1 DEF Rest
  <2>3. r \notin X
    BY <1>2, <2>2
  <2>4. /\ Credited(r \cup {x}) = Credited(r) + Round(x.amount)
        /\ Credited(r \cup {y}) = Credited(r) + Round(y.amount)
    BY <2>2, <2>3
  <2>5. Credited(r) \in Nat
    BY <1>1, <2>2, CreditedNat
  <2> HIDE DEF y, u, X
  <2>6. Credited(u) = Round(y.amount) + Credited(r \cup {x}) /\ Credited(s) = Credited(r \cup {y})
    BY <1>5, <2>2
  <2>7. Credited(u) = Credited(s) + Round(x.amount)
    BY <1>6, <2>4, <2>5, <2>6
  <2>8. QED
    BY <1>3, <2>7 DEF u
<1>9. QED
  BY <1>7, <1>8

(* More payments never add up to less. *)
LEMMA CreditedGrows ==
  ASSUME NEW S, NEW T, S \subseteq T, Payments(T)
  PROVE  Credited(S) <= Credited(T)
<1> DEFINE X == {s \in SUBSET T : S \subseteq s /\ ~(Credited(S) <= Credited(s))}
<1> SUFFICES ASSUME X # {} PROVE FALSE
  BY DEF X
<1>1. \A s \in SUBSET T : IsFiniteSet(s) /\ Payments(s)
  BY FS_Subset DEF Payments
<1>2. PICK s \in X : \A r \in X : r \subseteq s => r = s
  <2>1. \A s \in X : IsFiniteSet(s)
    BY <1>1
  <2> HIDE DEF X
  <2> QED
    BY <2>1, SmallestSet
<1>3. Credited(S) \in Nat
  BY <1>1, CreditedNat
<1>4. PICK x \in s : x \notin S
  BY <1>2, <1>3
<1> PICK r : r = s \ {x}
  OBVIOUS
<1>5. S \subseteq r /\ r \cup {x} = s /\ x \notin r /\ r # s /\ r \subseteq s /\ r \in SUBSET T
  BY <1>2, <1>4
<1>6. Credited(S) <= Credited(r)
  BY <1>2, <1>5
<1>7. Payments(s) /\ Credited(r) \in Nat /\ Round(x.amount) \in Nat
  <2>1. Payments(s) /\ Payments(r) /\ x.amount \in Nat
    BY <1>1, <1>2, <1>4, <1>5 DEF Payments
  <2>2. QED
    BY <2>1, CreditedNat DEF Round
<1>8. Credited(s) = Credited(r) + Round(x.amount)
  <2> HIDE DEF X
  <2> QED
    BY <1>5, <1>7, CreditedMore
<1>9. QED
  BY <1>2, <1>3, <1>6, <1>7, <1>8

-----------------------------------------------------------------------------
(* The wallet is backed: every balance a request carries or has written is *)
(* covered by the payments in the ledger.                                  *)
Backed ==
  /\ IsFiniteSet(ledger) /\ \A s \in Slot : IsFiniteSet(draft[s])
  /\ \A t \in Tenant : wallet[t] = NoCompany <=> t \in Orphan
  /\ WalletIsBacked
  /\ \A s \in Slot : call[s].seen # NoCompany =>
       /\ call[s].tenant \notin Orphan
       /\ call[s].seen <= Credited(Topups(call[s].tenant))

LEMMA BackedInit == Init => Backed
<1> SUFFICES ASSUME Init PROVE Backed
  OBVIOUS
<1>1. IsFiniteSet(ledger) /\ \A s \in Slot : IsFiniteSet(draft[s])
  BY FS_EmptySet DEF Init
<1>2. \A t \in Tenant : wallet[t] = NoCompany <=> t \in Orphan
  BY NoCompanyAssumption DEF Init
<1>3. WalletIsBacked
  <2> SUFFICES ASSUME NEW t \in Tenant \ Orphan PROVE wallet[t] <= Credited(Topups(t))
    BY DEF WalletIsBacked
  <2>1. Topups(t) = {} /\ wallet[t] = 0
    BY DEF Init, Topups, Committed
  <2>2. Credited({}) = 0
    BY FS_EmptySet, CreditedStep
  <2>3. QED
    BY <2>1, <2>2
<1>4. \A s \in Slot : call[s].seen = NoCompany
  BY DEF Init, IdleCall
<1>5. QED
  BY <1>1, <1>2, <1>3, <1>4 DEF Backed

LEMMA TopupsArePayments ==
  ASSUME Types, IsFiniteSet(ledger), NEW t
  PROVE  Payments(Topups(t))
<1>1. Topups(t) \subseteq ledger
  BY DEF Topups, Committed
<1>2. QED
  BY <1>1, FS_Subset DEF Payments, Types, Entry

(* A step that commits nothing. *)
LEMMA BackedFrame ==
  ASSUME Backed, UNCHANGED <<ledger, wallet>>, Types, Types',
         \A s \in Slot : IsFiniteSet(draft'[s]),
         \A s \in Slot : \/ call'[s].seen = NoCompany
                         \/ /\ call'[s].seen = call[s].seen
                            /\ call'[s].tenant = call[s].tenant
                         \/ call'[s].seen = wallet[call'[s].tenant]
  PROVE  Backed'
<1>1. \A t : Topups(t)' = Topups(t)
  BY DEF Topups, Committed
<1>2. WalletIsBacked'
  BY <1>1 DEF Backed, WalletIsBacked
<1>3. ASSUME NEW s \in Slot, call'[s].seen # NoCompany
      PROVE  /\ call'[s].tenant \notin Orphan
             /\ call'[s].seen <= Credited(Topups(call'[s].tenant))
  <2>1. call'[s].tenant \in Tenant
    BY DEF Types, Call
  <2>2. QED
    BY <1>3, <2>1 DEF Backed, WalletIsBacked
<1>4. QED
  BY <1>1, <1>2, <1>3 DEF Backed

LEMMA BackedCommit ==
  ASSUME BookedInv, Types', Backed, NEW s \in Slot, Commit(s)
  PROVE  Backed'
<1> PICK c : c = call[s]
  OBVIOUS
<1> PICK t : t = c.tenant
  OBVIOUS
<1>1. /\ ledger' = ledger \cup draft[s] /\ c.pc = "commit"
      /\ wallet' = IF c.seen = NoCompany THEN wallet
                   ELSE [wallet EXCEPT ![t] = NewBalance(c)]
      /\ draft' = [draft EXCEPT ![s] = {}]
      /\ call' = [call EXCEPT ![s] = IdleCall]
  BY DEF Commit, Done
<1>2. /\ draft[s] # {} /\ \A e \in draft[s] : e.tenant = t
      /\ IsTopup(s) => \A e \in draft[s] : e.op = "topup"
  BY <1>1, CommitKnows
<1>3. IsTopup(s) => \A e \in draft[s] : e.amount = c.amount
  BY <1>1 DEF BookedInv, LedgerInv, Sound, CreditRequest, Busy, IsTopup
<1>4. /\ c \in Call /\ t \in Tenant /\ c.amount \in Nat /\ c.charge \in Nat
      /\ c.seen \in Int \cup {NoCompany}
  BY DEF BookedInv, TypeInv, Types, Call
<1>5. IsFiniteSet(ledger') /\ \A o \in Slot : IsFiniteSet(draft'[o])
  <2>1. IsFiniteSet(ledger \cup draft[s])
    BY FS_Union DEF Backed
  <2>2. \A o \in Slot : draft'[o] = {} \/ draft'[o] = draft[o]
    BY <1>1 DEF BookedInv, TypeInv, Types
  <2>3. QED
    BY <1>1, <2>1, <2>2, FS_EmptySet DEF Backed
<1>6. \A u : /\ Payments(Topups(u)) /\ Payments(Topups(u)') /\ Topups(u) \subseteq Topups(u)'
  <2>1. \A u : Payments(Topups(u))
    BY TopupsArePayments DEF Backed, BookedInv, TypeInv
  <2>2. ASSUME NEW u PROVE Payments(Topups(u)')
    <3>1. Topups(u)' \subseteq ledger'
      BY DEF Topups, Committed
    <3>2. QED
      BY <1>5, <3>1, FS_Subset DEF Payments, Types, Entry
  <2>3. \A u : Topups(u) \subseteq Topups(u)'
    BY <1>1 DEF Topups, Committed
  <2>4. QED
    BY <2>1, <2>2, <2>3
<1>7. \A u : /\ Credited(Topups(u)) <= Credited(Topups(u)')
            /\ Credited(Topups(u)) \in Nat /\ Credited(Topups(u)') \in Nat
  BY <1>6, CreditedGrows, CreditedNat
<1>8. c.seen # NoCompany => NewBalance(c) \in Int /\ NewBalance(c) <= Credited(Topups(t)')
  <2> SUFFICES ASSUME c.seen # NoCompany
               PROVE  NewBalance(c) \in Int /\ NewBalance(c) <= Credited(Topups(t)')
    OBVIOUS
  <2>1. c.seen \in Int /\ c.seen <= Credited(Topups(t))
    BY <1>4 DEF Backed
  <2>2. CASE IsTopup(s)
    <3>1. PICK e \in draft[s] : e.op = "topup" /\ e.tenant = t /\ e.amount = c.amount
      BY <1>2, <1>3, <2>2
    <3>2. e \notin Topups(t)
      BY DEF Topups, Committed, BookedInv, LedgerInv, Untangled
    <3>3. Topups(t) \cup {e} \subseteq Topups(t)'
      <4>1. Topups(t)' = {f \in ledger' : f.tenant = t /\ f.op = "topup"}
        BY <1>6 DEF Topups, Committed
      <4>2. QED
        BY <1>1, <1>6, <3>1, <4>1
    <3>4. Payments(Topups(t) \cup {e})
      BY <1>6, <3>3, FS_Subset DEF Payments
    <3>5. Credited(Topups(t) \cup {e}) = Credited(Topups(t)) + Round(c.amount)
      BY <3>1, <3>2, <3>4, CreditedMore
    <3>6. Credited(Topups(t) \cup {e}) <= Credited(Topups(t)')
      BY <1>6, <3>3, CreditedGrows
    <3>7. NewBalance(c) = c.seen + Round(c.amount) /\ Round(c.amount) \in Nat
      BY <1>4, <2>2 DEF NewBalance, ApplyTopupBalance, IsTopup, Round
    <3>8. QED
      BY <1>7, <2>1, <3>5, <3>6, <3>7
  <2>3. CASE ~IsTopup(s)
    <3>1. NewBalance(c) = c.seen - ((c.amount + c.charge) \div 10)
      BY <2>3 DEF NewBalance, DeductBalance, IsTopup
    <3>2. (c.amount + c.charge) \div 10 \in Nat
      BY <1>4
    <3>3. QED
      BY <1>7, <2>1, <3>1, <3>2
  <2>4. QED
    BY <2>2, <2>3
<1>9. WalletIsBacked' /\ \A u \in Tenant : wallet'[u] = NoCompany <=> u \in Orphan
  <2>1. ASSUME NEW u \in Tenant
        PROVE  /\ wallet'[u] = NoCompany <=> u \in Orphan
               /\ u \notin Orphan => wallet'[u] <= Credited(Topups(u)')
    <3>1. /\ wallet[u] = NoCompany <=> u \in Orphan
          /\ u \notin Orphan => wallet[u] <= Credited(Topups(u))
          /\ wallet[u] \in Int \cup {NoCompany}
      BY DEF Backed, WalletIsBacked, BookedInv, TypeInv, Types
    <3>2. CASE wallet'[u] = wallet[u]
      BY <1>7, <3>1, <3>2
    <3>3. CASE u = t /\ c.seen # NoCompany
      <4>1. wallet'[u] = NewBalance(c) /\ u \notin Orphan
        BY <1>1, <3>3 DEF Backed, BookedInv, TypeInv, Types
      <4>2. QED
        BY <1>8, <3>3, <4>1, NoCompanyAssumption
    <3>4. QED
      BY <1>1, <3>2, <3>3 DEF BookedInv, TypeInv, Types
  <2>2. QED
    BY <2>1 DEF WalletIsBacked
<1>10. ASSUME NEW o \in Slot, NEW u, u = call'[o].tenant, call'[o].seen # NoCompany
       PROVE  u \notin Orphan /\ call'[o].seen <= Credited(Topups(u)')
  <2>1. call'[o] = call[o]
    BY <1>1, <1>10 DEF IdleCall, BookedInv, TypeInv, Types
  <2>2. u \notin Orphan /\ call[o].seen <= Credited(Topups(u))
    BY <1>10, <2>1 DEF Backed
  <2>3. call[o].seen \in Int
    BY <1>10, <2>1 DEF BookedInv, TypeInv, Types, Call
  <2>4. QED
    BY <1>7, <2>1, <2>2, <2>3
<1>11. QED
  <2>1. (\A o \in Slot : call[o].seen # NoCompany =>
           /\ call[o].tenant \notin Orphan
           /\ call[o].seen <= Credited(Topups(call[o].tenant)))'
    BY <1>10 DEF Topups, Committed
  <2>2. QED
    BY <1>5, <1>9, <2>1 DEF Backed

LEMMA BackedStep == BookedInv /\ Backed /\ [Next]_vars => Backed'
<1> SUFFICES ASSUME BookedInv, Backed, [Next]_vars PROVE Backed'
  OBVIOUS
<1>1. Types /\ Types' /\ call \in [Slot -> Call]
  BY TypeStep DEF BookedInv, TypeInv, Types
<1>2. ASSUME UNCHANGED <<ledger, wallet, draft>>,
             \A s \in Slot : \/ call'[s].seen = NoCompany
                             \/ /\ call'[s].seen = call[s].seen
                                /\ call'[s].tenant = call[s].tenant
                             \/ call'[s].seen = wallet[call'[s].tenant]
      PROVE  Backed'
  <2>1. \A s \in Slot : IsFiniteSet(draft'[s])
    BY <1>2 DEF Backed
  <2>2. QED
    BY <1>1, <1>2, <2>1, BackedFrame
<1>3. CASE \/ \E t \in Tenant, r \in Ref : Charge(t, r)
           \/ \E key \in Key, r \in Ref : Settle(key, r)
  BY <1>2, <1>3 DEF Charge, Settle
<1>4. ASSUME NEW s \in Slot, NEW t \in Tenant, NEW r \in Ref, Verify(s, t, r)
      PROVE  Backed'
  BY <1>1, <1>2, <1>4 DEF Verify
<1>5. ASSUME NEW s \in Slot, NEW t \in Tenant, NEW dest \in DestinationType,
             NEW a \in PayoutAmount, CreateDisbursement(s, t, dest, a)
      PROVE  Backed'
  BY <1>1, <1>2, <1>5 DEF CreateDisbursement
<1>6. ASSUME NEW s \in Slot, Done(s), UNCHANGED <<ledger, wallet>>,
             draft' = draft \/ draft' = [draft EXCEPT ![s] = {}]
      PROVE  Backed'
  <2>1. \A o \in Slot : IsFiniteSet(draft'[o])
    BY <1>6, FS_EmptySet DEF Backed, BookedInv, TypeInv, Types
  <2>2. \A o \in Slot : call'[o].seen = NoCompany \/ call'[o] = call[o]
    BY <1>1, <1>6 DEF Done, IdleCall
  <2>3. QED
    BY <1>1, <1>6, <2>1, <2>2, BackedFrame
<1>7. ASSUME NEW s \in Slot, Statement(s) PROVE Backed'
  <2>1. CASE Lookup(s)
    <3>1. CASE Done(s)
      BY <1>6, <2>1, <3>1 DEF Lookup
    <3>2. CASE Go(s, "read")
      <4>1. \A o \in Slot : call'[o].seen = call[o].seen /\ call'[o].tenant = call[o].tenant
        BY <1>1, <3>2 DEF Go, Call
      <4>2. QED
        BY <1>2, <2>1, <4>1 DEF Lookup
    <3>3. QED
      BY <2>1, <3>1, <3>2 DEF Lookup
  <2>2. CASE CheckFunds(s)
    <3>1. CASE Done(s)
      BY <1>6, <2>2, <3>1 DEF CheckFunds
    <3>2. CASE call' = [call EXCEPT ![s].pc = "payout", ![s].seen = wallet[call[s].tenant]]
      <4>1. /\ call'[s].seen = wallet[call'[s].tenant]
            /\ \A o \in Slot \ {s} : call'[o] = call[o]
        BY <1>1, <3>2 DEF Call
      <4>2. QED
        BY <1>2, <2>2, <4>1 DEF CheckFunds
    <3>3. QED
      BY <2>2, <3>1, <3>2 DEF CheckFunds
  <2>3. CASE InsertPayout(s)
    <3>1. \A o \in Slot : call'[o].seen = call[o].seen /\ call'[o].tenant = call[o].tenant
      BY <1>1, <2>3 DEF InsertPayout, Call
    <3>2. QED
      BY <1>2, <2>3, <3>1 DEF InsertPayout
  <2>4. CASE ReadLast(s)
    <3>1. \A o \in Slot : call'[o].seen = call[o].seen /\ call'[o].tenant = call[o].tenant
      BY <1>1, <2>4 DEF ReadLast, Call
    <3>2. QED
      BY <1>2, <2>4, <3>1 DEF ReadLast
  <2>5. CASE InsertEntry(s)
    <3>1. \A o \in Slot : call'[o].seen = call[o].seen /\ call'[o].tenant = call[o].tenant
      <4>1. \/ Go(s, "company") \/ Go(s, "save")
            \/ call' = [call EXCEPT ![s].pc = "read", ![s].note = "txn charges"]
        BY <2>5 DEF InsertEntry
      <4>2. CASE Go(s, "company") \/ Go(s, "save")
        BY <1>1, <4>2 DEF Go, Call
      <4>3. CASE call' = [call EXCEPT ![s].pc = "read", ![s].note = "txn charges"]
        BY <1>1, <4>3 DEF Call
      <4>4. QED
        BY <4>1, <4>2, <4>3
    <3>2. ASSUME NEW o \in Slot PROVE IsFiniteSet(draft'[o])
      <4>1. draft'[o] = draft[o] \/ draft'[o] = draft[o] \cup {NewEntry(call[s])}
        BY <2>5 DEF InsertEntry, BookedInv, TypeInv, Types
      <4>2. QED
        <5>1. IsFiniteSet(draft[o])
          BY DEF Backed
        <5>2. IsFiniteSet(draft[o] \cup {NewEntry(call[s])})
          BY <5>1, FS_AddElement
        <5>3. QED
          BY <4>1, <5>1, <5>2
    <3>3. QED
      BY <1>1, <2>5, <3>1, <3>2, BackedFrame DEF InsertEntry
  <2>6. CASE ReadCompany(s)
    <3>1. /\ call'[s].seen = wallet[call'[s].tenant]
          /\ \A o \in Slot \ {s} : call'[o] = call[o]
      BY <1>1, <2>6 DEF ReadCompany, Call
    <3>2. QED
      BY <1>2, <2>6, <3>1 DEF ReadCompany
  <2>7. CASE SaveCompany(s)
    <3>1. \A o \in Slot : call'[o].seen = call[o].seen /\ call'[o].tenant = call[o].tenant
      BY <1>1, <2>7 DEF SaveCompany, Go, Call
    <3>2. QED
      BY <1>2, <2>7, <3>1 DEF SaveCompany
  <2>8. CASE Commit(s)
    BY <1>1, <2>8, BackedCommit
  <2>9. QED
    BY <1>7, <2>1, <2>2, <2>3, <2>4, <2>5, <2>6, <2>7, <2>8 DEF Statement
<1>8. ASSUME NEW s \in Slot, Rollback(s) PROVE Backed'
  BY <1>6, <1>8 DEF Rollback
<1>9. CASE UNCHANGED vars
  BY <1>2, <1>9 DEF vars
<1>10. QED
  BY <1>3, <1>4, <1>5, <1>7, <1>8, <1>9 DEF Next

(* payments/services.go 363-378: however requests of all tenants overlap,  *)
(* fail and are saved late, no wallet holds more than the rounded payments *)
(* in its ledger.                                                          *)
THEOREM WalletsAreBacked == Spec => []WalletIsBacked
<1>1. Init => Backed
  BY BackedInit
<1>2. BookedInv /\ Backed /\ [Next]_vars => Backed'
  BY BackedStep
<1>3. Backed => WalletIsBacked
  BY DEF Backed
<1>4. QED
  BY <1>1, <1>2, <1>3, BookedInvAlways, PTL DEF Spec
=============================================================================
