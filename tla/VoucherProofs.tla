--------------------------- MODULE VoucherProofs ---------------------------
(* Proofs about the vouchers table, for any number of connections, rows,   *)
(* tenants and routers: its type invariant, that a sale holds what it      *)
(* asked for, and, where nobody edits, that no code is sold twice and that *)
(* the table implements CodeStock; first for the requests of Vouchers, and *)
(* then with the routers, customers and the poller of Provisioning.        *)
EXTENDS Provisioning, FiniteSetTheorems, TLAPS

USE NameAssumption, QuantityAssumption, NoRowAssumption, RouterAssumption

(* What a request in flight remembers of the table: a waiting sale has     *)
(* candidates left, a request under way works on a row, and a hotspot user *)
(* has a code for its name.                                                *)
Remembers(s) ==
  LET c == call[s] IN
  /\ c.pc = "lock" => c.seen # {} /\ \A v \in c.seen : Exists(v)
  /\ c.pc \in {"mark", "sold", "save", "record"} => c.id # 0
  /\ c.id # 0 => Exists(c.id)
  /\ c.pc \in {"sold", "save"} => c.copy \in Row
  /\ c.pc = "save" => c.want \in Package /\ c.owner \in Editor
  /\ c.pc \in {"remove", "add"} =>
       c.copy \in Row \/ (c.copy = NoRow /\ c.want \in Code)

(* A row is locked by one sale at most. *)
OneLock ==
  \A s, o \in Slot :
    (call[s].pc = "mark" /\ call[o].pc = "mark" /\ call[s].id = call[o].id) => s = o

(* The inductive invariant. *)
Inv ==
  /\ TypeOK
  /\ \A s \in Slot : Remembers(s)
  /\ OneLock
  /\ SaleIsFair

-----------------------------------------------------------------------------
(* Ids are counted from 1, so a set of them that is not empty has a least  *)
(* one: its intervals 1..v have a minimal one by inclusion.                *)
LEMMA OldestIs ==
  ASSUME NEW ids \in SUBSET Id, ids # {}
  PROVE  Oldest(ids) \in ids /\ \A w \in ids : Oldest(ids) <= w
<1> DEFINE T == {1..v : v \in ids}
<1>1. IsWellFoundedOn(StrictSubsetOrdering(Nat), FiniteSubsetsOf(Nat))
  BY FS_StrictSubsetOrderingWellFounded
<1>2. \A v \in ids : v \in Nat \ {0}
  BY DEF Id
<1>3. \A v \in ids : IsFiniteSet(1..v) /\ 1..v \in SUBSET Nat
  <2> TAKE v \in ids
  <2>1. v \in Int
    BY <1>2
  <2>2. IsFiniteSet(1..v)
    BY <2>1, FS_Interval
  <2>3. QED
    BY <2>1, <2>2
<1>4. T \subseteq FiniteSubsetsOf(Nat) /\ T # {}
  BY <1>3 DEF FiniteSubsetsOf
<1>5. \E x \in T : \A y \in T : <<y, x>> \notin StrictSubsetOrdering(Nat)
  <2> HIDE DEF T
  <2> QED
    BY <1>1, <1>4, WFMin
<1>6. PICK v \in ids : \A w \in ids : <<1..w, 1..v>> \notin StrictSubsetOrdering(Nat)
  BY <1>5
<1>7. \A w \in ids : v <= w
  <2> SUFFICES ASSUME NEW w \in ids, w < v PROVE FALSE
    BY <1>2
  <2>1. /\ 1..w \in SUBSET Nat /\ 1..v \in SUBSET Nat
        /\ 1..w \subseteq 1..v /\ v \in 1..v /\ v \notin 1..w
    BY <1>2
  <2>2. QED
    BY <2>1, <1>6 DEF StrictSubsetOrdering
<1>8. QED
  BY <1>7 DEF Oldest

(* An idle connection's record is a call. *)
LEMMA IdleType == IdleCall \in Call /\ IdleCall.pc = "idle" /\ IdleCall.id = 0
  BY DEF IdleCall, Call, PC

(* A request that locks, edits or records works on a row of the table.     *)
LEMMA WorksOnRow ==
  ASSUME Inv, NEW s \in Slot, call[s].pc \in {"mark", "sold", "save", "record"}
  PROVE  call[s].id \in Id /\ Exists(call[s].id) /\ row[call[s].id] \in Row
<1>1. call[s] \in Call /\ Remembers(s)
  BY DEF Inv, TypeOK
<1>2. call[s].id \in Id /\ Exists(call[s].id)
  BY <1>1 DEF Remembers, Call
<1>3. QED
  BY <1>2 DEF Exists, Inv, TypeOK

-----------------------------------------------------------------------------
LEMMA InvInit == Init => Inv
<1> SUFFICES ASSUME Init PROVE Inv
  OBVIOUS
<1>1. TypeOK
  BY IdleType DEF Init, TypeOK, Exists, Id
<1>2. \A s \in Slot : call[s].pc = "idle" /\ call[s].id = 0
  BY IdleType DEF Init
<1>3. QED
  BY <1>1, <1>2 DEF Inv, Remembers, OneLock, SaleIsFair

(* A request that ends, or that never wrote, leaves the table as it is.    *)
LEMMA DoneStep ==
  ASSUME Inv, NEW s \in Slot, Done(s), UNCHANGED <<row, nextId, claimed>>
  PROVE  Inv'
<1>1. call' \in [Slot -> Call]
  BY IdleType DEF Done, Inv, TypeOK
<1>2. /\ call'[s].pc = "idle" /\ call'[s].id = 0
      /\ \A o \in Slot \ {s} : call'[o] = call[o]
  BY IdleType DEF Done, Inv, TypeOK
<1>3. TypeOK'
  BY <1>1 DEF Inv, TypeOK, Exists
<1>4. ASSUME NEW o \in Slot PROVE Remembers(o)'
  BY <1>2 DEF Inv, Remembers, Exists
<1>5. OneLock' /\ SaleIsFair'
  BY <1>2 DEF Inv, OneLock, SaleIsFair, Matches
<1>6. QED
  BY <1>3, <1>4, <1>5 DEF Inv

(* A request moves on without writing. *)
LEMMA MoveStep ==
  ASSUME Inv, NEW s \in Slot, NEW c \in Call, call' = [call EXCEPT ![s] = c],
         UNCHANGED <<row, nextId, claimed>>, Remembers(s)',
         c.pc = "mark" => /\ \A o \in Slot : ~(call[o].pc = "mark" /\ call[o].id = c.id)
                          /\ Matches(row[c.id], c.owner, c.want)
  PROVE  Inv'
<1>1. call' \in [Slot -> Call]
  BY DEF Inv, TypeOK
<1>2. call'[s] = c /\ \A o \in Slot \ {s} : call'[o] = call[o]
  BY DEF Inv, TypeOK
<1>3. TypeOK'
  BY <1>1 DEF Inv, TypeOK, Exists
<1>4. ASSUME NEW o \in Slot PROVE Remembers(o)'
  BY <1>2 DEF Inv, Remembers, Exists
<1>5. OneLock' /\ SaleIsFair'
  BY <1>2 DEF Inv, OneLock, SaleIsFair, Matches
<1>6. QED
  BY <1>3, <1>4, <1>5 DEF Inv

(* A statement that writes rows no sale has locked, and ends or starts no  *)
(* request.                                                                *)
LEMMA WriteStep ==
  ASSUME Inv, row' \in [Id -> Row \cup {NoRow}], nextId' \in 1..(MaxVouchers + 1),
         UNCHANGED <<call, claimed>>,
         \A v \in Id : (row'[v] # NoRow) <=> v < nextId',
         nextId <= nextId',
         \A v \in Id : Locked(v) => row'[v] = row[v]
  PROVE  Inv'
<1>1. TypeOK'
  BY DEF Inv, TypeOK, Exists
<1>2. \A v \in Id : Exists(v) => Exists(v)'
  BY DEF Inv, TypeOK, Exists, Id
<1>3. ASSUME NEW s \in Slot PROVE Remembers(s)'
  <2>1. call[s] \in Call
    BY DEF Inv, TypeOK
  <2>2. QED
    BY <1>2, <2>1 DEF Inv, Remembers, Call
<1>4. OneLock'
  BY DEF Inv, OneLock
<1>5. SaleIsFair'
  <2> SUFFICES ASSUME NEW s \in Slot, call[s].pc = "mark"
               PROVE  Matches(row'[call[s].id], call[s].owner, call[s].want)
    BY DEF SaleIsFair
  <2>1. call[s].id \in Id /\ Locked(call[s].id)
    BY WorksOnRow DEF Locked
  <2>2. QED
    BY <2>1 DEF Inv, SaleIsFair
<1>6. QED
  BY <1>1, <1>3, <1>4, <1>5 DEF Inv

-----------------------------------------------------------------------------
(* Requests that start. *)
LEMMA SellStep ==
  ASSUME Inv, NEW s \in Slot, NEW t \in Tenant, NEW want \in Package \cup Code,
         NEW r \in Router \cup {NoRouter}, Sell(s, t, want, r)
  PROVE  Inv'
<1> DEFINE c == [pc |-> "lock", owner |-> t, want |-> want, seen |-> Candidates(t, want),
                 id |-> 0, copy |-> NoRow, router |-> r]
<1>1. c \in Call
  BY DEF Call, PC, Candidates
<1>2. call'[s] = c /\ call' = [call EXCEPT ![s] = c]
  BY DEF Sell, Inv, TypeOK
<1>3. Remembers(s)'
  BY <1>2 DEF Remembers, Sell, Candidates, Exists
<1>4. QED
  BY <1>1, <1>2, <1>3, MoveStep DEF Sell

LEMMA EditStep ==
  ASSUME Inv, NEW s \in Slot, NEW t \in Tenant, NEW v \in Id, NEW p \in Package,
         Edit(s, t, v, p)
  PROVE  Inv'
<1> DEFINE c == [pc |-> "save", owner |-> t, want |-> p, seen |-> {}, id |-> v,
                 copy |-> row[v], router |-> NoRouter]
<1>1. row[v] \in Row
  BY DEF Edit, Owned, Exists, Inv, TypeOK
<1>2. c \in Call
  BY <1>1 DEF Call, PC
<1>3. call'[s] = c /\ call' = [call EXCEPT ![s] = c]
  BY DEF Edit, Inv, TypeOK
<1>4. Remembers(s)'
  <2>1. row'[v] # NoRow
    BY DEF Edit, Owned, Exists
  <2>2. call'[s].pc = "save" /\ call'[s].id = v /\ call'[s].copy \in Row
        /\ call'[s].want \in Package /\ call'[s].owner \in Editor
    BY <1>1, <1>3 DEF Edit
  <2>3. QED
    BY <2>1, <2>2 DEF Remembers, Exists, Id
<1>5. QED
  BY <1>2, <1>3, <1>4, MoveStep DEF Edit

(* A sale's turn in the queue of a row lock. *)
LEMMA LockStep ==
  ASSUME Inv, NEW s \in Slot, Lock(s)
  PROVE  Inv'
<1> DEFINE c == call[s]
           v == Oldest(c.seen)
<1>1. c \in Call /\ c.pc = "lock" /\ c.seen \in SUBSET Id /\ c.seen # {}
  BY DEF Lock, Inv, TypeOK, Call, Remembers
<1>2. v \in c.seen /\ v \in Id /\ Exists(v) /\ row[v] \in Row
  BY <1>1, OldestIs DEF Inv, Remembers, Exists, TypeOK
<1>3. CASE Matches(row[v], c.owner, c.want)
  <2> DEFINE d == [c EXCEPT !.pc = "mark", !.id = v, !.copy = row[v], !.seen = {}]
  <2>1. call' = [call EXCEPT ![s] = d]
    BY <1>3 DEF Lock, Inv, TypeOK
  <2>2. d \in Call /\ call'[s] = d
    BY <1>1, <1>2, <2>1 DEF Call, PC, Inv, TypeOK
  <2>3. d.pc = "mark" /\ d.id = v /\ d.owner = c.owner /\ d.want = c.want
    BY <1>1 DEF Call
  <2>4. Remembers(s)'
    <3>1. row'[v] # NoRow /\ v # 0
      BY <1>2 DEF Lock, Exists, Id
    <3>2. d.id = v /\ d.pc = "mark"
      BY <1>1 DEF Call
    <3> HIDE DEF d
    <3>3. QED
      BY <3>1, <3>2, <2>2 DEF Remembers, Exists
  <2>5. \A o \in Slot : ~(call[o].pc = "mark" /\ call[o].id = v)
    BY DEF Lock, Locked
  <2>6. Matches(row[d.id], d.owner, d.want)
    BY <1>3, <2>3
  <2>7. UNCHANGED <<row, nextId, claimed>>
    BY DEF Lock
  <2> HIDE DEF d
  <2>8. QED
    BY <2>1, <2>2, <2>3, <2>4, <2>5, <2>6, <2>7, MoveStep
<1>4. CASE ~Matches(row[v], c.owner, c.want) /\ c.seen # {v}
  <2> DEFINE d == [c EXCEPT !.seen = c.seen \ {v}]
  <2>1. call' = [call EXCEPT ![s] = d]
    BY <1>4 DEF Lock, Inv, TypeOK
  <2>2. d \in Call /\ call'[s] = d
    BY <1>1, <2>1 DEF Call, Inv, TypeOK
  <2>3. d.pc = "lock" /\ d.seen = c.seen \ {v}
    BY <1>1 DEF Call
  <2>4. Remembers(s)'
    BY <1>1, <1>2, <1>4, <2>2, <2>3 DEF Remembers, Lock, Exists, Inv
  <2> HIDE DEF d
  <2>5. QED
    BY <2>1, <2>2, <2>3, <2>4, MoveStep DEF Lock
<1>5. CASE ~Matches(row[v], c.owner, c.want) /\ c.seen = {v}
  BY <1>5, DoneStep DEF Lock
<1>6. QED
  BY <1>3, <1>4, <1>5

(* The sale commits: only its own row changes, and it lets go of it. *)
LEMMA MarkStep ==
  ASSUME Inv, NEW s \in Slot, Mark(s)
  PROVE  Inv'
<1> DEFINE v == call[s].id
<1>1. call[s] \in Call /\ call[s].pc = "mark" /\ v \in Id /\ row[v] \in Row
  BY WorksOnRow DEF Mark, Inv, TypeOK
<1>2. /\ row' = [row EXCEPT ![v] = [row[v] EXCEPT !.status = "USED"]]
      /\ row'[v] \in Row
  BY <1>1 DEF Mark, Row, Status, Inv, TypeOK
<1>3. row' \in [Id -> Row \cup {NoRow}] /\ \A w \in Id : Exists(w)' <=> Exists(w)
  BY <1>1, <1>2 DEF Inv, TypeOK, Exists
<1>4. claimed' \in [Id -> 0..2]
  BY <1>1 DEF Mark, Inv, TypeOK
<1> DEFINE d == [call[s] EXCEPT !.pc = "sold", !.copy = row'[v]]
<1>5. call' = [call EXCEPT ![s] = d]
  BY <1>1 DEF Mark, Inv, TypeOK, Call
<1>6. d \in Call /\ d.pc = "sold" /\ d.id = v /\ d.copy \in Row
  BY <1>1, <1>2 DEF Call, PC
<1>7. call'[s] = d /\ \A o \in Slot \ {s} : call'[o] = call[o]
  BY <1>5 DEF Inv, TypeOK
<1>8. TypeOK'
  <2>1. call' \in [Slot -> Call]
    BY <1>5, <1>6 DEF Inv, TypeOK
  <2>2. QED
    BY <1>3, <1>4, <2>1 DEF TypeOK, Mark, Inv
<1> HIDE DEF d
<1>9. ASSUME NEW o \in Slot PROVE Remembers(o)'
  <2>1. CASE o = s
    <3>1. row'[v] # NoRow
      BY <1>1, <1>2
    <3>2. QED
      BY <2>1, <3>1, <1>1, <1>6, <1>7 DEF Remembers, Id, Exists
  <2>2. CASE o # s
    <3>1. call'[o] = call[o] /\ call[o] \in Call
      BY <2>2, <1>7 DEF Inv, TypeOK
    <3>2. QED
      BY <3>1, <1>3 DEF Remembers, Inv, Call
  <2>3. QED
    BY <2>1, <2>2
<1>10. OneLock'
  BY <1>6, <1>7 DEF Inv, OneLock
<1>11. SaleIsFair'
  <2> SUFFICES ASSUME NEW o \in Slot, call'[o].pc = "mark"
               PROVE  Matches(row'[call'[o].id], call'[o].owner, call'[o].want)
    BY DEF SaleIsFair
  <2>1. o # s /\ call'[o] = call[o]
    BY <1>6, <1>7
  <2>2. call[o].id \in Id /\ call[o].id # v
    BY <1>1, <2>1, WorksOnRow DEF Inv, OneLock
  <2>3. row'[call[o].id] = row[call[o].id]
    BY <1>2, <2>2 DEF Inv, TypeOK
  <2>4. QED
    BY <2>1, <2>3 DEF Inv, SaleIsFair
<1>12. QED
  BY <1>8, <1>9, <1>10, <1>11 DEF Inv

(* One INSERT for the whole quantity takes the next ids. *)
LEMMA CreateStep ==
  ASSUME Inv, NEW t \in Tenant, NEW p \in Package, NEW q \in 1..MaxQuantity,
         Create(t, p, q)
  PROVE  Inv'
<1> DEFINE new == nextId..(nextId + q - 1)
<1>1. PICK codes \in [new -> Code] :
        row' = [v \in Id |-> IF v \in DOMAIN codes THEN NewRow(t, p, codes[v]) ELSE row[v]]
  BY DEF Create
<1>2. nextId \in Nat /\ q \in Nat \ {0} /\ nextId + q - 1 <= MaxVouchers
  BY DEF Create, Inv, TypeOK
<1>3. nextId' = nextId + q /\ nextId' \in 1..(MaxVouchers + 1) /\ nextId <= nextId'
  BY <1>2 DEF Create, Inv, TypeOK
<1>4. \A v \in new : NewRow(t, p, codes[v]) \in Row
  BY DEF NewRow, Row, Status
<1>5. row' \in [Id -> Row \cup {NoRow}]
  BY <1>1, <1>4 DEF Inv, TypeOK
<1>6. \A v \in Id : (row'[v] # NoRow) <=> v < nextId'
  <2> TAKE v \in Id
  <2>1. v \in Nat /\ (Exists(v) <=> v < nextId)
    BY DEF Id, Inv, TypeOK
  <2>2. CASE v \in new
    BY <1>1, <1>2, <1>3, <1>4, <2>2
  <2>3. CASE v \notin new
    <3>1. row'[v] = row[v]
      BY <1>1, <2>3
    <3>2. (v < nextId) <=> (v < nextId')
      BY <1>2, <1>3, <2>1, <2>3
    <3>3. QED
      BY <2>1, <3>1, <3>2 DEF Exists
  <2>4. QED
    BY <2>2, <2>3
<1>7. \A v \in Id : Locked(v) => row'[v] = row[v]
  <2> SUFFICES ASSUME NEW v \in Id, Locked(v) PROVE v \notin new
    BY <1>1
  <2>1. v < nextId /\ v \in Nat
    BY DEF Locked, Inv, Remembers, TypeOK, Id
  <2>2. QED
    BY <1>2, <2>1
<1>8. QED
  BY <1>3, <1>5, <1>6, <1>7, WriteStep DEF Create

(* A request ends with a write of rows nobody has locked. *)
LEMMA LastWrite ==
  ASSUME Inv, NEW s \in Slot, Done(s), UNCHANGED <<nextId, claimed>>,
         row' \in [Id -> Row \cup {NoRow}],
         \A v \in Id : Exists(v)' <=> Exists(v),
         \A v \in Id : Locked(v) => row'[v] = row[v]
  PROVE  Inv'
<1>1. /\ call' \in [Slot -> Call]
      /\ call'[s].pc = "idle" /\ call'[s].id = 0
      /\ \A o \in Slot \ {s} : call'[o] = call[o]
  BY IdleType DEF Done, Inv, TypeOK
<1>2. TypeOK'
  BY <1>1 DEF Inv, TypeOK
<1>3. ASSUME NEW o \in Slot PROVE Remembers(o)'
  <2>1. call[o] \in Call
    BY DEF Inv, TypeOK
  <2>2. QED
    BY <1>1, <2>1 DEF Inv, Remembers, Call
<1>4. OneLock'
  BY <1>1 DEF Inv, OneLock
<1>5. SaleIsFair'
  <2> SUFFICES ASSUME NEW o \in Slot, call'[o].pc = "mark"
               PROVE  Matches(row'[call'[o].id], call'[o].owner, call'[o].want)
    BY DEF SaleIsFair
  <2>1. call'[o] = call[o] /\ call[o].pc = "mark"
    BY <1>1
  <2>2. call[o].id \in Id /\ Locked(call[o].id)
    BY <2>1 DEF Locked, Inv, TypeOK, Call, Remembers
  <2>3. QED
    BY <2>1, <2>2 DEF Inv, SaleIsFair
<1>6. QED
  BY <1>2, <1>3, <1>4, <1>5 DEF Inv

(* An edit writes back the row it read, changed, over one nobody has locked. *)
LEMMA SaveStep ==
  ASSUME Inv, NEW s \in Slot, Save(s)
  PROVE  Inv'
<1> DEFINE v == call[s].id
           new == [call[s].copy EXCEPT !.pkg = call[s].want]
<1>1. /\ call[s].pc = "save" /\ v \in Id /\ Exists(v)
      /\ call[s].copy \in Row /\ call[s].want \in Package
  BY DEF Save, Inv, Remembers, TypeOK, Call
<1>2. new \in Row
  BY <1>1 DEF Row
<1>3. row' = [row EXCEPT ![v] = new]
  BY DEF Save
<1> HIDE DEF new
<1>4. /\ row' \in [Id -> Row \cup {NoRow}]
      /\ \A w \in Id : Exists(w)' <=> Exists(w)
      /\ \A w \in Id \ {v} : row'[w] = row[w]
  BY <1>1, <1>2, <1>3 DEF Inv, TypeOK, Exists
<1>5. QED
  BY <1>4, LastWrite DEF Save

(* The trash takes rows and gives them back; both pass over locked ones. *)
LEMMA TrashStep ==
  ASSUME Inv, NEW t \in Tenant, NEW ids \in SUBSET Id,
         Delete(t, ids) \/ Restore(t, ids)
  PROVE  Inv'
<1>1. \A v \in ids : Exists(v) /\ row[v] \in Row /\ ~Locked(v)
  BY DEF Delete, Restore, Owned, Exists, Inv, TypeOK
<1>2. \A v \in ids, b \in BOOLEAN : [row[v] EXCEPT !.deleted = b] \in Row
  BY <1>1 DEF Row
<1>3. PICK b \in BOOLEAN :
        row' = [v \in Id |-> IF v \in ids THEN [row[v] EXCEPT !.deleted = b] ELSE row[v]]
  BY DEF Delete, Restore
<1>4. row' \in [Id -> Row \cup {NoRow}]
  BY <1>2, <1>3 DEF Inv, TypeOK
<1>5. \A v \in Id : (row'[v] # NoRow) <=> v < nextId
  BY <1>1, <1>2, <1>3 DEF Inv, TypeOK, Exists
<1>6. \A v \in Id : Locked(v) => row'[v] = row[v]
  BY <1>1, <1>3
<1>7. UNCHANGED <<nextId, call, claimed>>
  BY DEF Delete, Restore
<1>8. QED
  BY <1>4, <1>5, <1>6, <1>7, WriteStep DEF Inv, TypeOK

LEMMA InvStep == Inv /\ [Next]_vars => Inv'
<1> SUFFICES ASSUME Inv, [Next]_vars PROVE Inv'
  OBVIOUS
<1>1. ASSUME NEW t \in Tenant, NEW p \in Package, NEW q \in 1..MaxQuantity, Create(t, p, q)
      PROVE  Inv'
  BY <1>1, CreateStep
<1>2. ASSUME NEW s \in Slot, NEW t \in Tenant, NEW want \in Package \cup Code,
             Sell(s, t, want, NoRouter)
      PROVE  Inv'
  BY <1>2, SellStep
<1>3. ASSUME NEW s \in Slot, NEW t \in Tenant, NEW v \in Id, NEW p \in Package,
             Edit(s, t, v, p)
      PROVE  Inv'
  BY <1>3, EditStep
<1>4. ASSUME NEW t \in Tenant, NEW ids \in SUBSET Id \ {{}}, Delete(t, ids) \/ Restore(t, ids)
      PROVE  Inv'
  BY <1>4, TrashStep
<1>5. ASSUME NEW s \in Slot, Statement(s) \/ Die(s) PROVE Inv'
  BY <1>5, LockStep, MarkStep, SaveStep, DoneStep DEF Statement, Answer, Die
<1>6. CASE UNCHANGED vars
  BY <1>6 DEF vars, Inv, TypeOK, Remembers, OneLock, SaleIsFair, Exists, Matches
<1>7. QED
  BY <1>1, <1>2, <1>3, <1>4, <1>5, <1>6 DEF Next

LEMMA InvAlways == Spec => []Inv
  BY InvInit, InvStep, PTL DEF Spec

(* The columns, the sequence and the requests keep their types, and a row  *)
(* exists exactly when its id was drawn from the sequence.                 *)
THEOREM VouchersTypeCorrect == Spec => []TypeOK
<1>1. Inv => TypeOK
  BY DEF Inv
<1>2. QED
  BY <1>1, InvAlways, PTL

(* sales/services.go 434-441: what a sale holds in its transaction is      *)
(* live, unsold and what was asked for until it commits.                   *)
THEOREM SalesAreFair == Spec => []SaleIsFair
<1>1. Inv => SaleIsFair
  BY DEF Inv
<1>2. QED
  BY <1>1, InvAlways, PTL

-----------------------------------------------------------------------------
(* Where nobody edits, no request is about to write a row back, so a code  *)
(* once sold stays so.                                                     *)
Claims == \A v \in Id : claimed[v] # 0 =>
            claimed[v] = 1 /\ Exists(v) /\ row[v].status = "USED"

LEMMA NobodySaves ==
  ASSUME Editor = {}, Inv, NEW s \in Slot
  PROVE  ~Save(s) /\ \A t \in Tenant, v \in Id, p \in Package : ~Edit(s, t, v, p)
  BY DEF Inv, Remembers, Save, Edit

LEMMA ClaimsStep ==
  ASSUME Editor = {}, Inv, Claims, [Next]_vars
  PROVE  Claims'
<1>1. ASSUME NEW t \in Tenant, NEW p \in Package, NEW q \in 1..MaxQuantity, Create(t, p, q)
      PROVE  Claims'
  <2>1. \A v \in Id : v < nextId => row'[v] = row[v]
    BY <1>1 DEF Create, Inv, TypeOK, Id
  <2>2. \A v \in Id : Exists(v) => row'[v] = row[v]
    BY <2>1 DEF Inv, TypeOK
  <2>3. QED
    BY <1>1, <2>2 DEF Create, Claims, Exists
<1>2. ASSUME NEW t \in Tenant, NEW ids \in SUBSET Id \ {{}}, Delete(t, ids) \/ Restore(t, ids)
      PROVE  Claims'
  <2>1. \A v \in Id : Exists(v) => row[v] \in Row
    BY DEF Inv, TypeOK, Exists
  <2>2. \A v \in Id : Exists(v) =>
          row'[v] \in Row /\ row'[v].status = row[v].status
    <3>1. PICK b \in BOOLEAN : row' = [v \in Id |->
            IF v \in ids THEN [row[v] EXCEPT !.deleted = b] ELSE row[v]]
      BY <1>2 DEF Delete, Restore
    <3>2. QED
      BY <2>1, <3>1 DEF Row
  <2>3. claimed' = claimed
    BY <1>2 DEF Delete, Restore
  <2>4. QED
    BY <2>2, <2>3 DEF Claims, Exists
<1>3. ASSUME NEW s \in Slot, Mark(s) PROVE Claims'
  <2> DEFINE v == call[s].id
  <2>1. v \in Id /\ row[v] \in Row /\ row[v].status = "PROVISIONED"
    BY <1>3, WorksOnRow DEF Mark, Inv, SaleIsFair, Matches
  <2>2. claimed[v] = 0
    BY <2>1 DEF Claims
  <2>3. claimed' = [claimed EXCEPT ![v] = 1]
    BY <1>3, <2>2 DEF Mark
  <2>4. row' = [row EXCEPT ![v] = [row[v] EXCEPT !.status = "USED"]]
    BY <1>3, <2>1 DEF Mark, Inv, TypeOK
  <2>5. row'[v] # NoRow /\ row'[v].status = "USED"
    <3>1. [row[v] EXCEPT !.status = "USED"] \in Row
      BY <2>1 DEF Row, Status
    <3>2. QED
      BY <2>1, <2>4, <3>1 DEF Row, Inv, TypeOK
  <2>6. \A w \in Id \ {v} : row'[w] = row[w] /\ claimed'[w] = claimed[w]
    BY <2>3, <2>4 DEF Inv, TypeOK
  <2>7. claimed'[v] = 1
    BY <2>1, <2>3 DEF Inv, TypeOK
  <2>8. QED
    BY <2>5, <2>6, <2>7 DEF Claims, Exists
<1>4. CASE UNCHANGED <<row, claimed>>
  BY <1>4 DEF Claims, Exists
<1>5. QED
  BY <1>1, <1>2, <1>3, <1>4, NobodySaves
     DEF Next, Statement, Lock, Answer, Sell, Die, vars

(* sales/services.go 453: where nobody edits, no code is sold twice.       *)
THEOREM CodesSoldOnce ==
  ASSUME Editor = {}
  PROVE  Spec => []SoldOnce
<1>1. Init => Claims
  BY DEF Init, Claims
<1>2. Inv /\ Claims /\ [Next]_vars => Claims'
  BY ClaimsStep
<1>3. Claims /\ Inv => SoldOnce
  BY DEF Claims, SoldOnce, Inv, TypeOK
<1>4. QED
  BY <1>1, <1>2, <1>3, InvAlways, PTL DEF Spec

-----------------------------------------------------------------------------
(* The stock of codes as the mapping of VoucherStock shows it. *)
StockState == [v \in Id |-> StateOf(v)]
StockTrash == {v \in Id : Exists(v) /\ row[v].deleted}

LEMMA StockCreate ==
  ASSUME Inv, NEW t \in Tenant, NEW p \in Package, NEW q \in 1..MaxQuantity,
         Create(t, p, q)
  PROVE  Stock!Next
<1> DEFINE new == nextId..(nextId + q - 1)
<1>1. nextId \in Nat \ {0} /\ q \in Nat /\ nextId + q - 1 <= MaxVouchers /\ new \in SUBSET Id
  BY DEF Create, Inv, TypeOK, Id
<1>2. PICK codes \in [new -> Code] :
        row' = [v \in Id |-> IF v \in DOMAIN codes THEN NewRow(t, p, codes[v]) ELSE row[v]]
  BY DEF Create
<1>3. \A v \in new : /\ ~Exists(v)
                     /\ row'[v] \in Row
                     /\ row'[v].status = "PROVISIONED" /\ ~row'[v].deleted
  <2>1. \A v \in new : row'[v] = NewRow(t, p, codes[v])
    BY <1>1, <1>2
  <2>2. \A v \in new : v \in Id /\ ~(v < nextId)
    BY <1>1
  <2>3. \A v \in new : LET r == NewRow(t, p, codes[v]) IN
          r \in Row /\ r.status = "PROVISIONED" /\ r.deleted = FALSE
    BY DEF NewRow, Row, Status
  <2>4. \A v \in new : ~Exists(v)
    BY <2>2 DEF Inv, TypeOK
  <2> HIDE DEF new
  <2>5. QED
    BY <2>1, <2>3, <2>4
<1>4. \A v \in Id \ new : row'[v] = row[v]
  BY <1>2
<1> HIDE DEF new
<1>5. \A v \in new : StateOf(v) = "none" /\ StateOf(v)' = "available"
  BY <1>3 DEF StateOf, Exists
<1>6. \A v \in Id \ new : StateOf(v)' = StateOf(v)
  BY <1>4 DEF StateOf, Exists
<1>7. StockTrash' = StockTrash
  BY <1>1, <1>3, <1>4 DEF StockTrash, Exists
<1>8. Stock!Generate(new)
  BY <1>1, <1>5, <1>6, <1>7 DEF Stock!Generate, StockTrash
<1>9. QED
  BY <1>1, <1>8 DEF Stock!Next

LEMMA StockSell ==
  ASSUME Inv, NEW s \in Slot, Mark(s)
  PROVE  Stock!Next
<1>0. PICK v \in Id : v = call[s].id
  BY WorksOnRow DEF Mark
<1>1. /\ Exists(v) /\ row[v] \in Row
      /\ row[v].status = "PROVISIONED" /\ ~row[v].deleted
  BY <1>0 DEF Mark, Inv, TypeOK, Remembers, Exists, SaleIsFair, Matches
<1>2. row' = [row EXCEPT ![v] = [row[v] EXCEPT !.status = "USED"]]
  BY <1>0, <1>1 DEF Mark, Inv, TypeOK
<1>3. /\ row'[v] \in Row /\ row'[v].status = "USED" /\ ~row'[v].deleted
      /\ \A w \in Id \ {v} : row'[w] = row[w]
  BY <1>1, <1>2 DEF Row, Status, Inv, TypeOK
<1>4. StateOf(v) = "available" /\ StateOf(v)' = "sold"
  BY <1>1, <1>3 DEF StateOf, Exists
<1>5. \A w \in Id \ {v} : StateOf(w)' = StateOf(w)
  BY <1>3 DEF StateOf, Exists
<1>6. StockTrash' = StockTrash /\ v \notin StockTrash
  BY <1>1, <1>3 DEF StockTrash, Exists
<1>7. Stock!Sell(v)
  BY <1>1, <1>4, <1>5, <1>6 DEF Stock!Sell, StockTrash
<1>8. QED
  BY <1>7 DEF Stock!Next

LEMMA StockTrashed ==
  ASSUME Inv, NEW t \in Tenant, NEW ids \in SUBSET Id,
         Delete(t, ids) \/ Restore(t, ids)
  PROVE  Stock!Next
<1>1. \A v \in ids : Exists(v) /\ row[v] \in Row
  BY DEF Delete, Restore, Owned, Exists, Inv, TypeOK
<1>2. ASSUME NEW b \in BOOLEAN,
             row' = [v \in Id |-> IF v \in ids THEN [row[v] EXCEPT !.deleted = b] ELSE row[v]]
      PROVE  /\ \A v \in Id : StateOf(v)' = StateOf(v)
             /\ StockTrash' = IF b THEN StockTrash \cup ids ELSE StockTrash \ ids
  <2>1. \A v \in ids : /\ row'[v] \in Row /\ row'[v].status = row[v].status
                       /\ row'[v].deleted = b
    BY <1>1, <1>2 DEF Row
  <2>2. \A v \in Id \ ids : row'[v] = row[v]
    BY <1>2
  <2>3. QED
    BY <1>1, <2>1, <2>2 DEF StateOf, StockTrash, Exists
<1>3. CASE Delete(t, ids)
  <2>1. (\A v \in Id : StateOf(v)' = StateOf(v)) /\ StockTrash' = StockTrash \cup ids
    BY <1>2, <1>3 DEF Delete
  <2>2. \A v \in ids : StateOf(v) # "none"
    BY <1>1 DEF StateOf
  <2>3. QED
    BY <2>1, <2>2 DEF Stock!Next, Stock!Trash, StockTrash
<1>4. CASE Restore(t, ids)
  <2>1. (\A v \in Id : StateOf(v)' = StateOf(v)) /\ StockTrash' = StockTrash \ ids
    BY <1>2, <1>4 DEF Restore
  <2>2. QED
    BY <2>1 DEF Stock!Next, Stock!Restore, StockTrash
<1>5. QED
  BY <1>3, <1>4

LEMMA StockStep ==
  ASSUME Editor = {}, Inv, [Next]_vars
  PROVE  [Stock!Next]_Stock!vars
<1>1. CASE row' = row
  BY <1>1 DEF Stock!vars, StateOf, Exists
<1>2. ASSUME NEW t \in Tenant, NEW p \in Package, NEW q \in 1..MaxQuantity, Create(t, p, q)
      PROVE  Stock!Next
  BY <1>2, StockCreate
<1>3. ASSUME NEW s \in Slot, Mark(s) PROVE Stock!Next
  BY <1>3, StockSell
<1>4. ASSUME NEW t \in Tenant, NEW ids \in SUBSET Id \ {{}}, Delete(t, ids) \/ Restore(t, ids)
      PROVE  Stock!Next
  BY <1>4, StockTrashed
<1>5. QED
  BY <1>1, <1>2, <1>3, <1>4, NobodySaves
     DEF Next, Statement, Lock, Answer, Sell, Die, vars

(* vouchers/models.go 69-72: where nobody edits, concurrent sales,         *)
(* deletions and restorations are those of a stock that gives every code   *)
(* out once and none from the trash.                                       *)
THEOREM VouchersImplementStock ==
  ASSUME Editor = {}
  PROVE  Spec => ImplementsStock
<1>1. Init => Stock!Init
  BY DEF Init, Stock!Init, StateOf, Exists
<1>2. Inv /\ [Next]_vars => [Stock!Next]_Stock!vars
  BY StockStep
<1>3. QED
  BY <1>1, <1>2, InvAlways, PTL DEF Spec, ImplementsStock, Stock!Spec

-----------------------------------------------------------------------------
(* The routers beside the table: the same invariant holds, and what is a   *)
(* user of a router, logged in or polled is a code.                        *)
PInv == Inv /\ PTypeOK

(* The name a request goes to the router with. *)
LEMMA NameIsCode ==
  ASSUME Inv, NEW s \in Slot, call[s].pc \in {"remove", "add"}
  PROVE  NameOf(s) \in Code
<1>1. Remembers(s)
  BY DEF Inv
<1>2. CASE call[s].copy \in Row
  BY <1>2 DEF NameOf, Row
<1>3. CASE call[s].copy = NoRow /\ call[s].want \in Code
  BY <1>3 DEF NameOf
<1>4. QED
  BY <1>1, <1>2, <1>3 DEF Remembers

(* A request goes on to its next step at the router, as it is. *)
LEMMA GoesOn ==
  ASSUME Inv, NEW s \in Slot, NEW pc \in {"remove", "add", "record"},
         call' = [call EXCEPT ![s].pc = pc], UNCHANGED <<row, nextId, claimed>>,
         pc = "record" => call[s].id # 0,
         pc \in {"remove", "add"} =>
           call[s].copy \in Row \/ (call[s].copy = NoRow /\ call[s].want \in Code)
  PROVE  Inv'
<1> DEFINE d == [call[s] EXCEPT !.pc = pc]
<1>1. call[s] \in Call /\ Remembers(s)
  BY DEF Inv, TypeOK
<1>2. /\ d \in Call /\ d.pc = pc /\ d.id = call[s].id
      /\ d.copy = call[s].copy /\ d.want = call[s].want
  BY <1>1 DEF Call, PC
<1>3. call' = [call EXCEPT ![s] = d]
  BY <1>1 DEF Inv, TypeOK, Call
<1> HIDE DEF d
<1>4. call'[s] = d
  BY <1>3 DEF Inv, TypeOK
<1>5. Remembers(s)'
  BY <1>1, <1>2, <1>4 DEF Remembers, Exists
<1>6. QED
  BY <1>2, <1>3, <1>5, MoveStep

LEMMA ProvisionStep ==
  ASSUME Inv, NEW s \in Slot, Provision(s)
  PROVE  Inv'
<1>1. call[s].copy \in Row
  BY DEF Provision, Inv, Remembers
<1>2. CASE Done(s)
  BY <1>2, DoneStep DEF Provision
<1>3. CASE call' = [call EXCEPT ![s].pc = "remove"]
  BY <1>1, <1>3, GoesOn DEF Provision
<1>4. QED
  BY <1>2, <1>3 DEF Provision

LEMMA ProvisionUserStep ==
  ASSUME Inv, NEW s \in Slot, NEW t \in Tenant, NEW v \in Id, NEW name \in Code,
         NEW r \in Router, ProvisionUser(s, t, v, name, r)
  PROVE  Inv'
<1> DEFINE c == [pc |-> "remove", owner |-> t, want |-> row[v].pkg, seen |-> {},
                 id |-> v, copy |-> [row[v] EXCEPT !.code = name], router |-> r]
<1>1. /\ row[v] \in Row /\ [row[v] EXCEPT !.code = name] \in Row
      /\ row[v].pkg \in Package /\ row'[v] # NoRow
  BY DEF ProvisionUser, Owned, Exists, Inv, TypeOK, Row
<1>2. c \in Call
  BY <1>1 DEF Call, PC
<1>3. call'[s] = c /\ call' = [call EXCEPT ![s] = c]
  BY DEF ProvisionUser, Inv, TypeOK
<1>4. Remembers(s)'
  BY <1>1, <1>3 DEF Remembers, Exists
<1>5. QED
  BY <1>2, <1>3, <1>4, MoveStep DEF ProvisionUser

(* A user of any name, or a user taken off: no row is remembered. *)
LEMMA RowlessStep ==
  ASSUME Inv, NEW s \in Slot, NEW t \in Tenant, NEW r \in Router, NEW code \in Code,
         NEW pc \in {"remove", "unrecord"},
         call' = [call EXCEPT ![s] =
           [pc |-> pc, owner |-> t, want |-> code, seen |-> {}, id |-> 0,
            copy |-> NoRow, router |-> r]],
         UNCHANGED <<row, nextId, claimed>>
  PROVE  Inv'
<1> DEFINE c == [pc |-> pc, owner |-> t, want |-> code, seen |-> {}, id |-> 0,
                 copy |-> NoRow, router |-> r]
<1>1. c \in Call
  BY DEF Call, PC
<1>2. call'[s] = c
  BY DEF Inv, TypeOK
<1>3. Remembers(s)'
  BY <1>2 DEF Remembers
<1>4. QED
  BY <1>1, <1>3, MoveStep

LEMMA AtRouterStep ==
  ASSUME Inv, NEW s \in Slot, RemoveStale(s) \/ AddUser(s)
  PROVE  Inv'
<1>1. call[s].copy \in Row \/ (call[s].copy = NoRow /\ call[s].want \in Code)
  BY DEF RemoveStale, AddUser, Inv, Remembers
<1>2. CASE RemoveStale(s)
  BY <1>1, <1>2, GoesOn DEF RemoveStale
<1>3. CASE AddUser(s)
  BY <1>3, GoesOn, DoneStep DEF AddUser
<1>4. QED
  BY <1>2, <1>3

(* What routers and the poller write is of no concern to a sale: columns   *)
(* of existing rows that neither its search nor the trash looks at, and    *)
(* never of a row a sale has locked.                                       *)
Harmless ==
  /\ row' \in [Id -> Row \cup {NoRow}]
  /\ \A v \in Id : Exists(v)' <=> Exists(v)
  /\ \A v \in Id : Exists(v) =>
       row'[v].status = row[v].status /\ row'[v].deleted = row[v].deleted
  /\ \A v \in Id : Locked(v) => row'[v] = row[v]

(* Some rows nobody has locked get other provisioning columns. *)
LEMMA TouchedRows ==
  ASSUME Inv, NEW vs \in SUBSET Id, \A v \in vs : Exists(v) /\ ~Locked(v),
         row' \in [Id -> Row \cup {NoRow}],
         \A v \in vs : /\ row'[v] \in Row
                       /\ row'[v].status = row[v].status
                       /\ row'[v].deleted = row[v].deleted,
         \A v \in Id \ vs : row'[v] = row[v]
  PROVE  Harmless
<1>1. \A v \in Id : Exists(v)' <=> Exists(v)
  BY DEF Exists
<1>2. \A v \in Id : Exists(v) =>
        row'[v].status = row[v].status /\ row'[v].deleted = row[v].deleted
  OBVIOUS
<1>3. QED
  BY <1>1, <1>2 DEF Harmless

LEMMA RecordHarmless ==
  ASSUME Inv, NEW s \in Slot, Record(s)
  PROVE  Harmless
<1>1. PICK v \in Id : v = call[s].id
  BY WorksOnRow DEF Record
<1>2. PICK r \in Router \cup {NoRouter} : r = call[s].router
  BY DEF Inv, TypeOK, Call
<1>3. row[v] \in Row /\ Exists(v) /\ ~Locked(v)
  BY <1>1, WorksOnRow DEF Record
<1>4. CASE Live(v)
  <2>1. row' = [row EXCEPT ![v] = [row[v] EXCEPT !.provisioned = TRUE, !.router = r]]
    BY <1>1, <1>2, <1>3, <1>4 DEF Record, Inv, TypeOK, Row
  <2>2. /\ row'[v] = [row[v] EXCEPT !.provisioned = TRUE, !.router = r]
        /\ \A w \in Id \ {v} : row'[w] = row[w]
    BY <2>1 DEF Inv, TypeOK
  <2>3. /\ row'[v] \in Row
        /\ row'[v].status = row[v].status /\ row'[v].deleted = row[v].deleted
    BY <1>3, <2>2 DEF Row
  <2>4. row' \in [Id -> Row \cup {NoRow}]
    BY <2>1, <2>2, <2>3 DEF Inv, TypeOK
  <2>5. QED
    <3>1. PICK vs \in SUBSET Id : vs = {v}
      OBVIOUS
    <3>2. \A w \in vs : Exists(w) /\ ~Locked(w)
      BY <1>3, <3>1
    <3>3. \A w \in vs : /\ row'[w] \in Row
                        /\ row'[w].status = row[w].status
                        /\ row'[w].deleted = row[w].deleted
      BY <2>3, <3>1
    <3>4. \A w \in Id \ vs : row'[w] = row[w]
      BY <2>2, <3>1
    <3>5. QED
      BY <2>4, <3>2, <3>3, <3>4, TouchedRows
<1>5. CASE ~Live(v)
  <2>1. row' = row
    BY <1>1, <1>5 DEF Record
  <2>2. QED
    BY <2>1 DEF Harmless, Inv, TypeOK, Exists
<1>6. QED
  BY <1>4, <1>5

LEMMA UnrecordHarmless ==
  ASSUME Inv, NEW s \in Slot, Unrecord(s)
  PROVE  Harmless
<1>1. PICK vs \in SUBSET Id :
        /\ \A v \in vs : Exists(v) /\ ~Locked(v)
        /\ row' = [v \in Id |-> IF v \in vs
                                THEN [row[v] EXCEPT !.provisioned = FALSE,
                                                    !.router = NoRouter]
                                ELSE row[v]]
  <2> DEFINE named == {v \in Id : /\ Owned(call[s].owner, v) /\ Live(v)
                                  /\ row[v].code = call[s].want}
  <2>1. \A v \in named : Exists(v)
    BY DEF Live
  <2>2. named \in SUBSET Id
    OBVIOUS
  <2>3. QED
    BY <2>1, <2>2 DEF Unrecord
<1>2. \A v \in vs : row[v] \in Row
  BY <1>1 DEF Exists, Inv, TypeOK
<1>3. \A v \in vs : /\ row'[v] \in Row
                    /\ row'[v].status = row[v].status
                    /\ row'[v].deleted = row[v].deleted
  <2> TAKE v \in vs
  <2>1. row'[v] = [row[v] EXCEPT !.provisioned = FALSE, !.router = NoRouter]
    BY <1>1
  <2>2. QED
    BY <1>2, <2>1 DEF Row
<1>4. \A v \in Id \ vs : row'[v] = row[v]
  BY <1>1
<1>5. row' \in [Id -> Row \cup {NoRow}]
  <2>1. \A v \in Id : row'[v] \in Row \cup {NoRow}
    BY <1>3, <1>4 DEF Inv, TypeOK
  <2>2. QED
    BY <1>1, <2>1
<1>6. QED
  BY <1>1, <1>3, <1>4, <1>5, TouchedRows

LEMMA MarkHarmless ==
  ASSUME PInv, MarkFirstLogins
  PROVE  Harmless
<1>0. Inv
  BY DEF PInv
<1>1. PICK vs \in SUBSET Id : vs = {v \in Id : Fresh(v)}
  OBVIOUS
<1>2. PICK r \in Router \cup {NoRouter} : r = poll.router
  BY DEF PInv, PTypeOK
<1>3. /\ \A v \in vs : Exists(v) /\ ~Locked(v)
      /\ row' = [v \in Id |-> IF v \in vs
                              THEN [row[v] EXCEPT !.firstLogin = TRUE, !.router = r]
                              ELSE row[v]]
  BY <1>1, <1>2 DEF MarkFirstLogins, Fresh, Live
<1>4. \A v \in vs : row[v] \in Row
  BY <1>0, <1>3 DEF Exists, Inv, TypeOK
<1>5. \A v \in vs : /\ row'[v] \in Row
                    /\ row'[v].status = row[v].status
                    /\ row'[v].deleted = row[v].deleted
  <2> TAKE v \in vs
  <2>1. row'[v] = [row[v] EXCEPT !.firstLogin = TRUE, !.router = r]
    BY <1>3
  <2>2. QED
    BY <1>4, <2>1 DEF Row
<1>6. \A v \in Id \ vs : row'[v] = row[v]
  BY <1>3
<1>7. row' \in [Id -> Row \cup {NoRow}]
  <2>1. \A v \in Id : row'[v] \in Row \cup {NoRow}
    BY <1>0, <1>5, <1>6 DEF Inv, TypeOK
  <2>2. QED
    BY <1>3, <2>1
<1>8. QED
  BY <1>0, <1>3, <1>5, <1>6, <1>7, TouchedRows

LEMMA HarmlessStep ==
  ASSUME Inv, Harmless, UNCHANGED <<nextId, claimed>>,
         call' = call \/ \E s \in Slot : Done(s)
  PROVE  Inv'
<1>1. \A v \in Id : (row'[v] # NoRow) <=> v < nextId
  BY DEF Harmless, Exists, Inv, TypeOK
<1>2. CASE call' = call
  BY <1>1, <1>2, WriteStep DEF Harmless, Inv, TypeOK
<1>3. ASSUME NEW s \in Slot, Done(s) PROVE Inv'
  BY <1>3, LastWrite DEF Harmless
<1>4. QED
  BY <1>2, <1>3

(* A step of the whole system is, for the table, one of Vouchers, one that *)
(* writes no row, or a harmless one.                                       *)
LEMMA PSteps ==
  ASSUME PInv, [PNext]_pvars
  PROVE  /\ Inv'
         /\ \/ [Next]_vars
            \/ UNCHANGED <<row, claimed>>
            \/ Harmless /\ UNCHANGED claimed
<1>0. Inv
  BY DEF PInv
<1>1. CASE [Next]_vars
  BY <1>0, <1>1, InvStep
<1>2. ASSUME NEW s \in Slot, NEW t \in Tenant, NEW want \in Package \cup Code,
             NEW r \in Router, Sell(s, t, want, r)
      PROVE  Inv' /\ UNCHANGED <<row, claimed>>
  BY <1>0, <1>2, SellStep DEF Sell
<1>3. ASSUME NEW s \in Slot, NEW t \in Tenant, NEW v \in Id, NEW name \in Code,
             NEW r \in Router, ProvisionUser(s, t, v, name, r)
      PROVE  Inv' /\ UNCHANGED <<row, claimed>>
  BY <1>0, <1>3, ProvisionUserStep DEF ProvisionUser
<1>4. ASSUME NEW s \in Slot, NEW t \in Tenant, NEW r \in Router, NEW code \in Code,
             ProvisionName(s, t, code, r) \/ RemoveUser(s, t, r, code)
      PROVE  Inv' /\ UNCHANGED <<row, claimed>>
  <2>1. CASE ProvisionName(s, t, code, r)
    BY <1>0, <2>1, RowlessStep DEF ProvisionName
  <2>2. CASE RemoveUser(s, t, r, code) /\ UNCHANGED call
    BY <1>0, <2>2, InvStep DEF RemoveUser, vars
  <2>3. CASE RemoveUser(s, t, r, code) /\ call' # call
    BY <1>0, <2>3, RowlessStep DEF RemoveUser
  <2>4. QED
    BY <1>4, <2>1, <2>2, <2>3
<1>5. ASSUME NEW s \in Slot, Provision(s) \/ RemoveStale(s) \/ AddUser(s)
      PROVE  Inv' /\ UNCHANGED <<row, claimed>>
  BY <1>0, <1>5, ProvisionStep, AtRouterStep DEF Provision, RemoveStale, AddUser
<1>6. ASSUME NEW s \in Slot, Record(s) \/ Unrecord(s)
      PROVE  Inv' /\ Harmless /\ UNCHANGED claimed
  BY <1>0, <1>6, RecordHarmless, UnrecordHarmless, HarmlessStep DEF Record, Unrecord
<1>7. CASE MarkFirstLogins
  <2>1. Harmless
    BY <1>7, MarkHarmless
  <2>2. QED
    BY <1>0, <1>7, <2>1, HarmlessStep DEF MarkFirstLogins
<1>8. CASE UNCHANGED vars
  BY <1>0, <1>8, InvStep DEF vars
<1>9. ASSUME NEW r \in Router, NEW code \in Code, Login(r, code) \/ Logout(r, code)
      PROVE  UNCHANGED vars
  BY <1>9 DEF Login, Logout, vars
<1>10. ASSUME NEW s \in Slot, DeviceStep(s)
       PROVE  Inv' /\ (UNCHANGED <<row, claimed>> \/ (Harmless /\ UNCHANGED claimed))
  BY <1>5, <1>6, <1>10 DEF DeviceStep
<1>11. CASE UNCHANGED pvars \/ \E r \in Router, code \in Code : Login(r, code) \/ Logout(r, code)
  BY <1>8, <1>9, <1>11 DEF pvars, vars
<1>12. CASE \E r \in Router : Poll(r)
  BY <1>8, <1>12 DEF Poll, vars
<1>13. QED
  BY <1>1, <1>2, <1>3, <1>4, <1>7, <1>10, <1>11, <1>12 DEF PNext

(* Users are added under a code, customers log in as users, and the poller *)
(* hears of customers logged in.                                           *)
LEMMA NamesStep ==
  ASSUME PInv, [PNext]_pvars
  PROVE  /\ users' \in [Router -> SUBSET Code]
         /\ active' \in [Router -> SUBSET Code]
         /\ poll' \in [router : Router \cup {NoRouter}, names : SUBSET Code]
<1>0. /\ Inv
      /\ users \in [Router -> SUBSET Code]
      /\ active \in [Router -> SUBSET Code]
      /\ poll \in [router : Router \cup {NoRouter}, names : SUBSET Code]
  BY DEF PInv, PTypeOK
<1>1. CASE UNCHANGED <<users, active, poll>>
  BY <1>0, <1>1
<1>2. ASSUME NEW s \in Slot, RemoveStale(s) \/ AddUser(s)
      PROVE  users' \in [Router -> SUBSET Code] /\ UNCHANGED <<active, poll>>
  <2>1. NameOf(s) \in Code
    BY <1>0, <1>2, NameIsCode DEF RemoveStale, AddUser
  <2>2. PICK q : q = call[s].router
    OBVIOUS
  <2>3. \/ users' = users
        \/ users' = [users EXCEPT ![q] = @ \ {NameOf(s)}]
        \/ users' = [users EXCEPT ![q] = @ \cup {NameOf(s)}]
    BY <1>2, <2>2 DEF RemoveStale, AddUser
  <2>4. UNCHANGED <<active, poll>>
    BY <1>2 DEF RemoveStale, AddUser
  <2>5. QED
    BY <1>0, <2>1, <2>3, <2>4
<1>3. ASSUME NEW s \in Slot, NEW t \in Tenant, NEW r \in Router, NEW code \in Code,
             RemoveUser(s, t, r, code)
      PROVE  users' \in [Router -> SUBSET Code] /\ UNCHANGED <<active, poll>>
  BY <1>0, <1>3 DEF RemoveUser
<1>4. ASSUME NEW r \in Router, NEW code \in Code, Login(r, code) \/ Logout(r, code)
      PROVE  active' \in [Router -> SUBSET Code] /\ UNCHANGED <<users, poll>>
  BY <1>0, <1>4 DEF Login, Logout
<1>5. ASSUME NEW r \in Router, Poll(r)
      PROVE  /\ poll' \in [router : Router \cup {NoRouter}, names : SUBSET Code]
             /\ UNCHANGED <<users, active>>
  BY <1>0, <1>5 DEF Poll
<1>6. CASE MarkFirstLogins
  BY <1>0, <1>6 DEF MarkFirstLogins, NoPoll
<1>7. QED
  BY <1>0, <1>1, <1>2, <1>3, <1>4, <1>5, <1>6
     DEF PNext, DeviceStep, Provision, ProvisionUser, ProvisionName, Record, Unrecord, pvars

LEMMA PInvAlways == PSpec => []PInv
<1>1. PInit => PInv
  <2>1. PInit => Inv
    BY InvInit DEF PInit
  <2>2. PInit => PTypeOK
    BY <2>1 DEF PInit, PTypeOK, NoPoll, Inv
  <2>3. QED
    BY <2>1, <2>2 DEF PInv
<1>2. PInv /\ [PNext]_pvars => PInv'
  BY PSteps, NamesStep DEF PInv, PTypeOK, Inv
<1>3. QED
  BY <1>1, <1>2, PTL DEF PSpec

(* With routers, customers and the poller, rows and requests keep their    *)
(* types, and the routers know, serve and report only users of a code.     *)
THEOREM ProvisioningTypeCorrect == PSpec => []PTypeOK
<1>1. PInv => PTypeOK
  BY DEF PInv
<1>2. QED
  BY <1>1, PInvAlways, PTL

(* sales/services.go 434-441: nothing that provisions, removes or polls    *)
(* takes from a sale the row it holds, or changes what it asked for.       *)
THEOREM ProvisionedSalesAreFair == PSpec => []SaleIsFair
<1>1. PInv => SaleIsFair
  BY DEF PInv, Inv
<1>2. QED
  BY <1>1, PInvAlways, PTL

(* sales/services.go 453: recording and clearing what is on a router, and  *)
(* stamping first logins, never put a sold code back on sale.              *)
THEOREM ProvisionedCodesSoldOnce ==
  ASSUME Editor = {}
  PROVE  PSpec => []SoldOnce
<1>1. PInit => Claims
  BY DEF PInit, Init, Claims
<1>2. PInv /\ Claims /\ [PNext]_pvars => Claims'
  <2> SUFFICES ASSUME PInv, Claims, [PNext]_pvars PROVE Claims'
    OBVIOUS
  <2>1. CASE [Next]_vars
    BY <2>1, ClaimsStep DEF PInv
  <2>2. CASE UNCHANGED <<row, claimed>>
    BY <2>2 DEF Claims, Exists
  <2>3. CASE Harmless /\ UNCHANGED claimed
    BY <2>3 DEF Harmless, Claims
  <2>4. QED
    BY <2>1, <2>2, <2>3, PSteps
<1>3. Claims /\ PInv => SoldOnce
  BY DEF Claims, SoldOnce, PInv, Inv, TypeOK
<1>4. QED
  BY <1>1, <1>2, <1>3, PInvAlways, PTL DEF PSpec

(* vouchers/models.go 69-72: with routers and the poller too, the table    *)
(* behaves as a stock that gives every code out once.                      *)
THEOREM ProvisioningImplementsStock ==
  ASSUME Editor = {}
  PROVE  PSpec => ImplementsStock
<1>1. PInit => Stock!Init
  BY DEF PInit, Init, Stock!Init, StateOf, Exists
<1>2. PInv /\ [PNext]_pvars => [Stock!Next]_Stock!vars
  <2> SUFFICES ASSUME PInv, [PNext]_pvars PROVE [Stock!Next]_Stock!vars
    OBVIOUS
  <2>1. CASE [Next]_vars
    BY <2>1, StockStep DEF PInv
  <2>2. CASE UNCHANGED <<row, claimed>>
    BY <2>2 DEF Stock!vars, StateOf, Exists
  <2>3. CASE Harmless
    BY <2>3 DEF Harmless, Stock!vars, StateOf, Exists
  <2>4. QED
    BY <2>1, <2>2, <2>3, PSteps
<1>3. QED
  BY <1>1, <1>2, PInvAlways, PTL DEF PSpec, ImplementsStock, Stock!Spec
=============================================================================
