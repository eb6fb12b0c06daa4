---------------------------- MODULE FleetProofs ----------------------------
(* Proofs about Fleet, for any number of routers, connections, addresses,  *)
(* rows, keys and passwords: its type invariant, that a command reaches no *)
(* other device than the row's, and that provisioning repairs a router.    *)
(* The second holds because a password belongs to one router, wherever it  *)
(* is: in the router's rows, in copies of them, in a request, in a script, *)
(* in the operator's hands or on the device - unless it was confirmed for  *)
(* another.  The third because the one request about the router works on   *)
(* its first live row as it is, and no other reaches that row or device.   *)
EXTENDS Fleet, FiniteSetTheorems, SequenceTheorems, TLAPS

USE FleetAssumption

(* Requests that remember the row they work on, and those that carry a     *)
(* password.                                                               *)
WithRow == {"script", "peer", "connect", "set", "verify", "store"}
WithPassword == {"set", "verify", "confirm", "store"}

(* What a request knows, of the rows v and of k keys and p passwords       *)
(* generated so far.                                                       *)
CallIn(v, k) ==
  [pc : Pcs, router : Router \cup {NoRouter}, id : 0..Len(v),
   copy : Row \cup {NoCopy}, value : Nat, todo : SUBSET [key : 1..k, address : Address]]
GoodIn(c, v, k, p) ==
  /\ c \in CallIn(v, k)
  /\ c.copy.key <= k /\ c.copy.password <= p
  /\ c.pc = "insert" => c.value \in Address
  /\ c.pc \notin {"idle", "push"} => c.router \in Router
  /\ c.pc \in WithRow => /\ c.id \in DOMAIN v /\ v[c.id].router = c.router
                         /\ c.copy \in Row /\ c.copy.router = c.router
  /\ c.pc \in {"peer", "connect"} => c.value \in 1..k
  /\ c.pc \in WithPassword => c.value \in 1..p

(* Where a password of router r may be. *)
CallKnows(c, r, p) ==
  c.router = r /\ (c.copy.password = p \/ (c.pc \in WithPassword /\ c.value = p))
RowKnows(r, p) == \E i \in DOMAIN vpn : vpn[i].router = r /\ vpn[i].password = p
FieldKnows(r, p) == device[r].password = p \/ script[r].password = p \/ p \in handed[r]
Knows(r, p) ==
  FieldKnows(r, p) \/ RowKnows(r, p) \/ \E s \in Slot : CallKnows(call[s], r, p)
Secret == Nat \ {0}

(* A password came up for the router that has it, or both are mixed up. *)
Suits(r, p) ==
  p \in 1..passwords /\ (owner[p] = r \/ {r, owner[p]} \subseteq mixed)
WillSuit(r, p) ==
  p \in 1..(passwords') /\ (owner'[p] = r \/ {r, owner'[p]} \subseteq mixed')
Apart == \A r \in Router : \A p \in Secret : Knows(r, p) => Suits(r, p)
Grow == \A r \in Router : \A p \in Secret : Suits(r, p) => WillSuit(r, p)

(* The inductive invariant. *)
Inv ==
  /\ Typed
  /\ \A s \in Slot : GoodIn(call[s], vpn, keys, passwords)
  /\ Apart

-----------------------------------------------------------------------------
(* A set of numbers that is not empty has a least one. *)
LEMMA LeastIs ==
  ASSUME NEW S \in SUBSET Nat, S # {}
  PROVE  Least(S) \in S /\ \A j \in S : Least(S) <= j
<1> DEFINE T == {0..i : i \in S}
<1>1. IsWellFoundedOn(StrictSubsetOrdering(Nat), FiniteSubsetsOf(Nat))
  BY FS_StrictSubsetOrderingWellFounded
<1>2. \A i \in S : IsFiniteSet(0..i) /\ 0..i \in SUBSET Nat
  <2> TAKE i \in S
  <2>1. i \in Int /\ 0 \in Int
    OBVIOUS
  <2>2. IsFiniteSet(0..i)
    BY <2>1, FS_Interval
  <2> QED BY <2>1, <2>2
<1>3. T \subseteq FiniteSubsetsOf(Nat) /\ T # {}
  BY <1>2 DEF FiniteSubsetsOf
<1>4. \E x \in T : \A y \in T : <<y, x>> \notin StrictSubsetOrdering(Nat)
  <2> HIDE DEF T
  <2> QED BY <1>1, <1>3, WFMin
<1>5. PICK i \in S : \A j \in S : <<0..j, 0..i>> \notin StrictSubsetOrdering(Nat)
  BY <1>4
<1>6. \A j \in S : i <= j
  <2> SUFFICES ASSUME NEW j \in S, j < i PROVE FALSE
    OBVIOUS
  <2>1. /\ 0..j \in SUBSET Nat /\ 0..i \in SUBSET Nat
        /\ 0..j \subseteq 0..i /\ i \in 0..i /\ i \notin 0..j
    OBVIOUS
  <2> QED BY <2>1, <1>5 DEF StrictSubsetOrdering
<1> QED BY <1>6 DEF Least

(* The fields of a row. *)
LEMMA RowIs ==
  \A row \in Row : /\ row.router \in Router /\ row.address \in Address
                   /\ row.key \in Nat /\ row.password \in Nat
BY DEF Row

(* The row a read takes is a live row of the router. *)
LEMMA FirstIs ==
  ASSUME Inv, NEW r \in Router, LiveIds(r) # {}
  PROVE  /\ First(r) \in DOMAIN vpn /\ First(r) # 0
         /\ vpn[First(r)] \in Row /\ vpn[First(r)].router = r
         /\ vpn[First(r)].key <= keys /\ vpn[First(r)].password <= passwords
<1>1. vpn \in Seq(Row) /\ LiveIds(r) \subseteq DOMAIN vpn /\ DOMAIN vpn \subseteq Nat \ {0}
  BY DEF Inv, Typed, RowsTyped, LiveIds
<1>2. First(r) \in LiveIds(r)
  BY <1>1, LeastIs DEF First
<1> QED BY <1>1, <1>2 DEF LiveIds, Inv, Typed, RowsTyped

(* The first free address is one of the pool. *)
LEMMA FreeIs ==
  ASSUME Free # {}
  PROVE  Least(Free) \in Address
<1>1. Free \subseteq Address /\ Free \subseteq Nat
  BY DEF Free
<1> QED BY <1>1, LeastIs

(* What a request knows stays so when rows are written or appended, for    *)
(* none changes its router, and when keys and passwords are generated.     *)
LEMMA GoodGrows ==
  ASSUME NEW c, NEW v \in Seq(Row), NEW w \in Seq(Row),
         NEW k \in Nat, NEW l \in Nat, NEW p \in Nat, NEW q \in Nat,
         GoodIn(c, v, k, p), Len(v) <= Len(w), k <= l, p <= q,
         \A i \in DOMAIN v : w[i].router = v[i].router
  PROVE  GoodIn(c, w, l, q)
<1>1. c \in CallIn(w, l)
  <2>1. [key : 1..k, address : Address] \subseteq [key : 1..l, address : Address]
    OBVIOUS
  <2>2. 0..Len(v) \subseteq 0..Len(w)
    OBVIOUS
  <2> QED BY <2>1, <2>2 DEF GoodIn, CallIn
<1>2. c.copy.key \in Nat /\ c.copy.password \in Nat
  BY DEF GoodIn, CallIn, Row, NoCopy
<1>3. c.copy.key <= l /\ c.copy.password <= q
  <2>1. c.copy.key <= k /\ c.copy.password <= p
    BY DEF GoodIn
  <2> QED BY <1>2, <2>1
<1>4. c.pc \in WithRow => /\ c.id \in DOMAIN w /\ w[c.id].router = c.router
                          /\ c.copy \in Row /\ c.copy.router = c.router
  <2>1. DOMAIN v \subseteq DOMAIN w
    OBVIOUS
  <2> QED BY <2>1 DEF GoodIn
<1>5. /\ c.pc = "insert" => c.value \in Address
      /\ c.pc \notin {"idle", "push"} => c.router \in Router
  BY DEF GoodIn
<1>6. /\ c.pc \in {"peer", "connect"} => c.value \in 1..l
      /\ c.pc \in WithPassword => c.value \in 1..q
  <2>1. 1..k \subseteq 1..l /\ 1..p \subseteq 1..q
    OBVIOUS
  <2> QED BY <2>1 DEF GoodIn
<1> QED BY <1>1, <1>3, <1>4, <1>5, <1>6 DEF GoodIn

(* What the type invariant says, one fact each for the provers.            *)
LEMMA FieldIs ==
  ASSUME Inv
  PROVE  /\ keys \in 0..MaxKeys /\ passwords \in 0..MaxPasswords
         /\ keys \in Nat /\ passwords \in Nat
         /\ call \in [Slot -> Call] /\ call = [t \in Slot |-> call[t]]
         /\ up \in BOOLEAN /\ route \in [Address -> 0..keys]
         /\ device \in [Router -> Device] /\ script \in [Router -> Script]
         /\ report \in [Router -> 0..keys]
         /\ handed \in [Router -> SUBSET (Known \ {0})]
         /\ owner \in Seq(Router) /\ mixed \subseteq Router
BY DEF Inv, Typed, FieldTyped

(* Nothing changes about whose passwords are... *)
LEMMA Kept ==
  ASSUME UNCHANGED <<owner, mixed>>
  PROVE  Grow /\ passwords' = passwords
BY DEF Grow, Suits, WillSuit, passwords

(* ... or one more comes up. *)
LEMMA Fresh ==
  ASSUME Inv, NEW q \in Router, owner' = Append(owner, q), mixed \subseteq mixed'
  PROVE  /\ Grow /\ owner' \in Seq(Router)
         /\ passwords \in Nat /\ passwords' \in Nat /\ passwords' = passwords + 1
         /\ owner'[passwords + 1] = q /\ WillSuit(q, passwords + 1)
<1>1. owner \in Seq(Router) /\ passwords = Len(owner)
  BY DEF Inv, Typed, FieldTyped, passwords
<1>2. /\ owner' \in Seq(Router) /\ passwords \in Nat
      /\ passwords' = passwords + 1 /\ owner'[passwords + 1] = q
      /\ \A p \in 1..passwords : owner'[p] = owner[p]
  BY <1>1 DEF passwords
<1>3. 1..passwords \subseteq 1..(passwords') /\ passwords + 1 \in 1..(passwords')
  BY <1>2
<1>4. WillSuit(q, passwords + 1)
  BY <1>2, <1>3 DEF WillSuit
<1>5. ASSUME NEW r \in Router, NEW p \in Secret, Suits(r, p) PROVE WillSuit(r, p)
  <2>1. p \in 1..passwords /\ (owner[p] = r \/ {r, owner[p]} \subseteq mixed)
    BY <1>5 DEF Suits
  <2>2. p \in 1..(passwords') /\ owner'[p] = owner[p]
    BY <1>2, <1>3, <2>1
  <2> QED BY <2>1, <2>2 DEF WillSuit
<1> QED BY <1>2, <1>4, <1>5 DEF Grow

(* Passwords stay apart when who learns one suits it. *)
LEMMA StayApart ==
  ASSUME Inv, Grow,
         \A r \in Router : \A p \in Secret : Knows(r, p)' => Knows(r, p) \/ WillSuit(r, p)
  PROVE  Apart'
BY DEF Inv, Apart, Grow, Suits, WillSuit

-----------------------------------------------------------------------------
(* Requests stay good when those that changed are good. *)
LEMMA CallsGood ==
  ASSUME Inv,
         call' = [t \in Slot |-> call'[t]],
         \A t \in Slot : call'[t] = call[t] \/ GoodIn(call'[t], vpn', keys', passwords'),
         vpn' \in Seq(Row), Len(vpn) <= Len(vpn'),
         \A i \in DOMAIN vpn : vpn'[i].router = vpn[i].router,
         keys' \in Nat, keys <= keys', passwords' \in Nat, passwords <= passwords'
  PROVE  /\ (call \in [Slot -> Call])'
         /\ (\A t \in Slot : GoodIn(call[t], vpn, keys, passwords))'
<1>1. \A t \in Slot : GoodIn(call'[t], vpn', keys', passwords')
  <2> SUFFICES ASSUME NEW t \in Slot, call'[t] = call[t]
               PROVE  GoodIn(call'[t], vpn', keys', passwords')
    OBVIOUS
  <2>1. /\ GoodIn(call[t], vpn, keys, passwords) /\ vpn \in Seq(Row)
        /\ keys \in Nat /\ passwords \in Nat
    BY DEF Inv, Typed, RowsTyped
  <2> QED BY <2>1, GoodGrows
<1>2. CallIn(vpn', keys') = Call'
  BY DEF CallIn, Call, Peer
<1>3. \A t \in Slot : call'[t] \in Call'
  BY <1>1, <1>2 DEF GoodIn
<1> QED BY <1>1, <1>3

(* A step of one request that changes nothing else, and teaches it nothing,*)
(* keeps the invariant.                                                    *)
LEMMA CallOnly ==
  ASSUME Inv, NEW s \in Slot, NEW c, call' = [call EXCEPT ![s] = c],
         UNCHANGED <<site, vpn, route>>, UNCHANGED field, up' \in BOOLEAN,
         GoodIn(c, vpn, keys, passwords),
         \A r \in Router : \A p \in Secret : CallKnows(c, r, p) => Knows(r, p)
  PROVE  Inv'
<1>0. Grow /\ passwords' = passwords
  BY Kept DEF field
<1>1. /\ (call \in [Slot -> Call])'
      /\ (\A t \in Slot : GoodIn(call[t], vpn, keys, passwords))'
  <2>1. call \in [Slot -> Call] /\ vpn \in Seq(Row) /\ keys \in Nat /\ passwords \in Nat
    BY DEF Inv, Typed, RowsTyped
  <2>2. /\ call' = [t \in Slot |-> call'[t]]
        /\ \A t \in Slot : call'[t] = call[t] \/ call'[t] = c
    BY <2>1
  <2>3. vpn' = vpn /\ keys' = keys /\ passwords' = passwords
    BY <1>0 DEF field
  <2>4. Len(vpn) <= Len(vpn')
    BY <2>1, <2>3
  <2> QED BY <2>1, <2>2, <2>3, <2>4, CallsGood
<1>2. Typed'
  BY <1>0, <1>1 DEF Inv, Typed, RowsTyped, FieldTyped, field, Device, Script, Known
<1>3. ASSUME NEW r \in Router, NEW p \in Secret, Knows(r, p)' PROVE Knows(r, p)
  <2>1. CASE FieldKnows(r, p)' \/ RowKnows(r, p)'
    BY <2>1 DEF Knows, FieldKnows, RowKnows, field
  <2>2. CASE \E t \in Slot : CallKnows(call'[t], r, p)
    <3>1. PICK t \in Slot : CallKnows(call'[t], r, p)
      BY <2>2
    <3>2. call'[t] = c \/ call'[t] = call[t]
      BY DEF Inv, Typed
    <3> QED BY <3>1, <3>2 DEF Knows
  <2> QED BY <1>3, <2>1, <2>2 DEF Knows
<1>4. Apart'
  BY <1>0, <1>3, StayApart
<1> QED BY <1>1, <1>2, <1>4 DEF Inv

(* A request that ends knows nothing. *)
LEMMA IdleIs ==
  ASSUME NEW v \in Seq(Row), NEW k \in Nat, NEW p \in Nat
  PROVE  /\ GoodIn(Idle, v, k, p)
         /\ \A r \in Router : \A q \in Secret : ~CallKnows(Idle, r, q)
BY DEF GoodIn, CallIn, CallKnows, Idle, NoCopy, Pcs, WithRow, WithPassword, Secret

(* A step that only ends a request keeps the invariant... *)
LEMMA EndOnly ==
  ASSUME Inv, NEW s \in Slot, End(s), UNCHANGED <<site, vpn, route>>, UNCHANGED field,
         up' \in BOOLEAN
  PROVE  Inv'
<1>1. vpn \in Seq(Row) /\ keys \in Nat /\ passwords \in Nat
  BY DEF Inv, Typed, RowsTyped
<1> QED BY <1>1, IdleIs, CallOnly DEF End

(* A request starts without a copy of a row, or with the one it reads.     *)
LEMMA StartIs ==
  ASSUME Inv, NEW r \in Router, NEW pc \in Pcs, NEW i \in Nat, NEW value \in Nat,
         pc \notin {"idle", "push"},
         NEW c, c = [pc |-> pc, router |-> r, id |-> i,
                     copy |-> IF i = 0 THEN NoCopy ELSE vpn[i],
                     value |-> value, todo |-> {}],
         IF i = 0 THEN pc \notin WithRow ELSE i \in DOMAIN vpn /\ vpn[i].router = r,
         pc = "insert" => value \in Address,
         pc \in {"peer", "connect"} => value \in 1..keys,
         pc \in WithPassword => value \in 1..passwords
  PROVE  /\ GoodIn(c, vpn, keys, passwords)
         /\ \A q \in Router : \A p \in Secret :
              CallKnows(c, q, p) =>
                q = r /\ (RowKnows(q, p) \/ (pc \in WithPassword /\ value = p))
<1>1. vpn \in Seq(Row) /\ keys \in Nat /\ passwords \in Nat
  BY DEF Inv, Typed, RowsTyped
<1>2. i # 0 => /\ vpn[i] \in Row /\ vpn[i].router = r
               /\ vpn[i].key <= keys /\ vpn[i].password <= passwords
  BY <1>1 DEF Inv, Typed, RowsTyped
<1>3. i \in 0..Len(vpn)
  BY <1>1
<1>4. c.copy \in Row \cup {NoCopy} /\ c.copy.key <= keys /\ c.copy.password <= passwords
  BY <1>1, <1>2 DEF NoCopy
<1>5. c \in CallIn(vpn, keys)
  BY <1>3, <1>4 DEF CallIn
<1>6. GoodIn(c, vpn, keys, passwords)
  BY <1>2, <1>4, <1>5 DEF GoodIn
<1>7. ASSUME NEW q \in Router, NEW p \in Secret, CallKnows(c, q, p)
      PROVE  q = r /\ (RowKnows(q, p) \/ (pc \in WithPassword /\ value = p))
  BY <1>7 DEF CallKnows, RowKnows, NoCopy, Secret
<1> QED BY <1>6, <1>7

(* ... and so does one that only starts a request. *)
LEMMA StartOnly ==
  ASSUME Inv, NEW s \in Slot, NEW r \in Router, NEW pc \in Pcs, NEW i \in Nat,
         NEW value \in Nat, pc \notin {"idle", "push"},
         Start(s, pc, r, i, value), UNCHANGED <<server, field>>,
         IF i = 0 THEN pc \notin WithRow ELSE i \in DOMAIN vpn /\ vpn[i].router = r,
         pc = "insert" => value \in Address, pc \notin {"peer", "connect"},
         pc \in WithPassword => value \in 1..passwords /\ FieldKnows(r, value)
  PROVE  Inv'
<1> DEFINE c == [pc |-> pc, router |-> r, id |-> i,
                 copy |-> IF i = 0 THEN NoCopy ELSE vpn[i],
                 value |-> value, todo |-> {}]
<1>1. /\ GoodIn(c, vpn, keys, passwords)
      /\ \A q \in Router : \A p \in Secret :
           CallKnows(c, q, p) =>
             q = r /\ (RowKnows(q, p) \/ (pc \in WithPassword /\ value = p))
  BY StartIs
<1>2. call' = [call EXCEPT ![s] = c]
  BY DEF Start
<1>3. \A q \in Router : \A p \in Secret : CallKnows(c, q, p) => Knows(q, p)
  BY <1>1 DEF Knows
<1>4. UNCHANGED <<site, vpn, route>> /\ up' \in BOOLEAN
  BY DEF server, Inv, Typed
<1> HIDE DEF c
<1> QED BY <1>1, <1>2, <1>3, <1>4, CallOnly

(* A request that goes on without a new value keeps what it knows. *)
LEMMA GotoIs ==
  ASSUME Inv, NEW s \in Slot, NEW pc \in Pcs,
         call[s].pc \notin {"idle", "push"}, pc # "insert",
         pc \in WithRow => call[s].pc \in WithRow,
         pc \in {"peer", "connect"} => call[s].pc \in {"peer", "connect"},
         pc \in WithPassword => call[s].pc \in WithPassword
  PROVE  /\ GoodIn([call[s] EXCEPT !.pc = pc], vpn, keys, passwords)
         /\ \A r \in Router : \A p \in Secret :
              CallKnows([call[s] EXCEPT !.pc = pc], r, p) => Knows(r, p)
<1> DEFINE c == [call[s] EXCEPT !.pc = pc]
<1>1. GoodIn(call[s], vpn, keys, passwords)
  BY DEF Inv
<1>2. /\ c \in CallIn(vpn, keys) /\ c.pc = pc /\ c.router = call[s].router
      /\ c.id = call[s].id /\ c.copy = call[s].copy /\ c.value = call[s].value
  BY <1>1 DEF GoodIn, CallIn
<1> HIDE DEF c
<1>3. GoodIn(c, vpn, keys, passwords)
  BY <1>1, <1>2 DEF GoodIn
<1>4. \A r \in Router : \A p \in Secret : CallKnows(c, r, p) => CallKnows(call[s], r, p)
  BY <1>2 DEF CallKnows
<1> QED BY <1>3, <1>4 DEF c, Knows

(* A step that writes rows keeps the invariant, when each row gets a       *)
(* password its router has, or one that suits it.                          *)
LEMMA RowsWritten ==
  ASSUME Inv, NEW s \in Slot, NEW c, Grow,
         call' = [call EXCEPT ![s] = c], GoodIn(c, vpn', keys', passwords'),
         vpn' \in Seq(Row), Len(vpn) <= Len(vpn'), Len(vpn') <= MaxRows,
         \A i \in DOMAIN vpn : vpn'[i].router = vpn[i].router,
         \A i \in DOMAIN vpn' : vpn'[i].key <= keys /\ vpn'[i].password <= passwords',
         site' \in [Router -> {"none", "live", "gone"}],
         UNCHANGED <<route, up, device, script, report, handed, keys>>,
         owner' \in Seq(Router), mixed' = mixed, passwords' \in passwords..MaxPasswords,
         \A i \in DOMAIN vpn' : \A p \in Secret : vpn'[i].password = p =>
           Knows(vpn'[i].router, p) \/ WillSuit(vpn'[i].router, p),
         \A r \in Router : \A p \in Secret : CallKnows(c, r, p) =>
           Knows(r, p) \/ WillSuit(r, p)
  PROVE  Inv'
<1>1. /\ (call \in [Slot -> Call])'
      /\ (\A t \in Slot : GoodIn(call[t], vpn, keys, passwords))'
  <2>1. call \in [Slot -> Call] /\ keys \in Nat /\ passwords \in Nat
    BY DEF Inv, Typed
  <2>2. /\ call' = [t \in Slot |-> call'[t]]
        /\ \A t \in Slot : call'[t] = call[t] \/ call'[t] = c
    BY <2>1
  <2>3. keys' \in Nat /\ keys <= keys' /\ passwords' \in Nat /\ passwords <= passwords'
    BY <2>1
  <2> QED BY <2>2, <2>3, CallsGood
<1>2. Typed'
  <2>1. RowsTyped'
    BY DEF RowsTyped
  <2>2. FieldTyped'
    <3>1. passwords \in Nat /\ passwords' \in Nat /\ passwords <= passwords'
      BY DEF Inv, Typed
    <3>2. Known \subseteq Known'
      BY <3>1 DEF Known
    <3>3. Device \subseteq Device' /\ Script \subseteq Script'
      BY <3>2 DEF Device, Script
    <3> QED BY <3>2, <3>3 DEF Inv, Typed, FieldTyped
  <2> QED BY <1>1, <2>1, <2>2 DEF Inv, Typed
<1>3. ASSUME NEW r \in Router, NEW p \in Secret, Knows(r, p)'
      PROVE  Knows(r, p) \/ WillSuit(r, p)
  <2>1. CASE FieldKnows(r, p)'
    BY <2>1 DEF Knows, FieldKnows
  <2>2. CASE RowKnows(r, p)'
    BY <2>2 DEF RowKnows
  <2>3. CASE \E t \in Slot : CallKnows(call'[t], r, p)
    <3>1. PICK t \in Slot : CallKnows(call'[t], r, p)
      BY <2>3
    <3>2. call'[t] = c \/ call'[t] = call[t]
      BY DEF Inv, Typed
    <3> QED BY <3>1, <3>2 DEF Knows
  <2> QED BY <1>3, <2>1, <2>2, <2>3 DEF Knows
<1>4. Apart'
  BY <1>3, StayApart
<1> QED BY <1>1, <1>2, <1>4 DEF Inv

(* Save of a copy of a row. *)
LEMMA RowSaved ==
  ASSUME Inv, Grow, NEW s \in Slot, NEW c, NEW copy \in Row,
         call[s].pc \in WithRow, copy.router = call[s].router,
         copy.key <= keys, copy.password <= passwords', SaveRow(s, copy),
         call' = [call EXCEPT ![s] = c], GoodIn(c, vpn, keys, passwords'),
         UNCHANGED <<site, route, up, device, script, report, handed, keys>>,
         owner' \in Seq(Router), mixed' = mixed, passwords' \in passwords..MaxPasswords,
         \A p \in Secret : copy.password = p =>
           Knows(copy.router, p) \/ WillSuit(copy.router, p),
         \A r \in Router : \A p \in Secret : CallKnows(c, r, p) =>
           Knows(r, p) \/ WillSuit(r, p)
  PROVE  Inv'
<1>1. /\ vpn \in Seq(Row) /\ keys \in Nat /\ passwords \in Nat /\ passwords' \in Nat
      /\ call[s].id \in DOMAIN vpn /\ vpn[call[s].id].router = copy.router
  BY DEF Inv, Typed, RowsTyped, GoodIn, WithRow
<1>2. /\ vpn' \in Seq(Row) /\ Len(vpn') = Len(vpn) /\ DOMAIN vpn' = DOMAIN vpn
      /\ \A i \in DOMAIN vpn : vpn'[i] = IF i = call[s].id THEN copy ELSE vpn[i]
  BY <1>1 DEF SaveRow
<1>3. \A i \in DOMAIN vpn : /\ vpn[i].key <= keys /\ vpn[i].password <= passwords'
                            /\ vpn[i].router \in Router
  <2>1. \A i \in DOMAIN vpn : vpn[i] \in Row
    BY <1>1
  <2>2. \A i \in DOMAIN vpn : vpn[i].key <= keys /\ vpn[i].password <= passwords
    BY DEF Inv, Typed, RowsTyped
  <2>3. \A i \in DOMAIN vpn : vpn[i].password <= passwords'
    BY <1>1, <2>1, <2>2 DEF Row
  <2> QED BY <2>1, <2>2, <2>3 DEF Row
<1>4. \A i \in DOMAIN vpn' : /\ vpn'[i].router = vpn[i].router
                             /\ vpn'[i].key <= keys /\ vpn'[i].password <= passwords'
  BY <1>1, <1>2, <1>3
<1>5. GoodIn(c, vpn', keys', passwords')
  <2>1. /\ Len(vpn) <= Len(vpn') /\ passwords' <= passwords' /\ keys <= keys'
        /\ keys' \in Nat /\ \A i \in DOMAIN vpn : vpn'[i].router = vpn[i].router
    BY <1>1, <1>2, <1>4
  <2> QED BY <1>1, <1>2, <2>1, GoodGrows
<1>6. \A i \in DOMAIN vpn' : \A p \in Secret : vpn'[i].password = p =>
        Knows(vpn'[i].router, p) \/ WillSuit(vpn'[i].router, p)
  BY <1>2, <1>3 DEF Knows, RowKnows
<1>7. copy.router \in Router /\ site' \in [Router -> {"none", "live", "gone"}]
  BY DEF Row, Inv, Typed
<1>8. Len(vpn) <= MaxRows /\ Len(vpn) \in Nat
  BY <1>1 DEF Inv, Typed, RowsTyped
<1>9. Len(vpn) <= Len(vpn') /\ Len(vpn') <= MaxRows
  BY <1>2, <1>8
<1>10. /\ vpn' \in Seq(Row) /\ \A i \in DOMAIN vpn : vpn'[i].router = vpn[i].router
       /\ \A i \in DOMAIN vpn' : vpn'[i].key <= keys /\ vpn'[i].password <= passwords'
  BY <1>2, <1>4
<1> QED BY <1>5, <1>6, <1>7, <1>9, <1>10, RowsWritten

(* A step that leaves the rows alone keeps the invariant, when the devices,*)
(* the scripts, the operator and the requests that change learn passwords  *)
(* their router has, or that suit it.                                      *)
LEMMA RowsKept ==
  ASSUME Inv, Grow, UNCHANGED <<site, vpn>>, up' \in BOOLEAN,
         call' = [t \in Slot |-> call'[t]],
         \A t \in Slot : call'[t] = call[t] \/ GoodIn(call'[t], vpn, keys', passwords'),
         \A t \in Slot : \A r \in Router : \A p \in Secret :
           CallKnows(call'[t], r, p) => Knows(r, p) \/ WillSuit(r, p),
         FieldTyped', keys' \in keys..MaxKeys, passwords' \in passwords..MaxPasswords,
         \A r \in Router : \A p \in Secret :
           FieldKnows(r, p)' => Knows(r, p) \/ WillSuit(r, p)
  PROVE  Inv'
<1>1. /\ vpn \in Seq(Row) /\ vpn' = vpn /\ keys \in Nat /\ passwords \in Nat
      /\ keys' \in Nat /\ passwords' \in Nat
      /\ keys <= keys' /\ passwords <= passwords'
  BY DEF Inv, Typed, RowsTyped
<1>2. /\ (call \in [Slot -> Call])'
      /\ (\A t \in Slot : GoodIn(call[t], vpn, keys, passwords))'
  <2>1. Len(vpn) <= Len(vpn') /\ \A i \in DOMAIN vpn : vpn'[i].router = vpn[i].router
    BY <1>1
  <2> QED BY <1>1, <2>1, CallsGood
<1>3. RowsTyped'
  <2>1. \A i \in DOMAIN vpn : /\ vpn[i].key <= keys /\ vpn[i].password <= passwords
                              /\ vpn[i].key \in Nat /\ vpn[i].password \in Nat
    BY <1>1, RowIs DEF Inv, Typed, RowsTyped
  <2>2. Len(vpn) <= MaxRows
    BY DEF Inv, Typed, RowsTyped
  <2>3. \A i \in DOMAIN vpn : vpn[i].key <= keys' /\ vpn[i].password <= passwords'
    BY <1>1, <2>1
  <2>4. Row' = Row
    BY DEF Row
  <2> QED BY <1>1, <2>2, <2>3, <2>4 DEF RowsTyped
<1>4. Typed'
  <2>1. site \in [Router -> {"none", "live", "gone"}] /\ site' = site
    BY DEF Inv, Typed
  <2>2. keys' \in 0..MaxKeys /\ passwords' \in 0..MaxPasswords
    BY <1>1
  <2> QED BY <1>2, <1>3, <2>1, <2>2 DEF Typed
<1>5. \A r \in Router : \A p \in Secret : RowKnows(r, p)' => Knows(r, p)
  BY <1>1 DEF RowKnows, Knows
<1>6. \A r \in Router : \A p \in Secret :
        Knows(r, p)' => Knows(r, p) \/ WillSuit(r, p)
  BY <1>5 DEF Knows
<1> QED BY <1>2, <1>4, <1>6, StayApart DEF Inv

(* The peers read to be pushed have generated keys and pool addresses. *)
LEMMA RehydrationIs ==
  ASSUME Inv
  PROVE  /\ GoodIn(Rehydration, vpn, keys, passwords)
         /\ \A r \in Router : \A p \in Secret : ~CallKnows(Rehydration, r, p)
<1>1. /\ vpn \in Seq(Row) /\ keys \in Nat /\ passwords \in Nat
      /\ \A i \in DOMAIN vpn : vpn[i].key <= keys
  BY DEF Inv, Typed, RowsTyped
<1>2. \A i \in DOMAIN vpn : vpn[i].key \in Nat /\ vpn[i].address \in Address
  BY <1>1, RowIs
<1>3. Stored \subseteq [key : 1..keys, address : Address]
  <2> SUFFICES ASSUME NEW i \in DOMAIN vpn, vpn[i].key # 0
               PROVE  [key |-> vpn[i].key, address |-> vpn[i].address]
                        \in [key : 1..keys, address : Address]
    BY DEF Stored
  <2>1. vpn[i].key \in 1..keys /\ vpn[i].address \in Address
    BY <1>1, <1>2
  <2> QED BY <2>1
<1>4. /\ Rehydration.pc = "push" /\ Rehydration.router = NoRouter
      /\ Rehydration.copy = NoCopy /\ Rehydration \in CallIn(vpn, keys)
  <2>1. Idle \in CallIn(vpn, keys) /\ Idle.router = NoRouter /\ Idle.copy = NoCopy
    BY <1>1, IdleIs DEF GoodIn, Idle
  <2> QED BY <1>3, <2>1 DEF Rehydration, CallIn, Pcs
<1> HIDE DEF Rehydration
<1> QED BY <1>1, <1>4 DEF GoodIn, CallKnows, NoCopy, WithRow, WithPassword

-----------------------------------------------------------------------------
(* The operations, one by one. *)
LEMMA StepCreateRouter ==
  ASSUME Inv, NEW s \in Slot, NEW r \in Router, CreateRouter(s, r)
  PROVE  Inv'
<1>1. Least(Free) \in Address /\ Least(Free) \in Nat
  BY FreeIs DEF CreateRouter
<1>2. Start(s, "insert", r, 0, Least(Free)) /\ UNCHANGED <<server, field>>
  BY DEF CreateRouter
<1>3. "insert" \in Pcs /\ "insert" \notin WithRow \cup WithPassword
  BY DEF Pcs, WithRow, WithPassword
<1> HIDE DEF Free
<1> QED BY <1>1, <1>2, <1>3, StartOnly

LEMMA StepCheckStatus ==
  ASSUME Inv, NEW s \in Slot, NEW r \in Router, CheckStatus(s, r)
  PROVE  Inv'
<1>1. "pick" \in Pcs /\ "pick" \notin WithRow \cup WithPassword
  BY DEF Pcs, WithRow, WithPassword
<1> QED BY <1>1, StartOnly DEF CheckStatus

LEMMA StepDelete ==
  ASSUME Inv, NEW s \in Slot, NEW r \in Router, Delete(s, r)
  PROVE  Inv'
<1>1. "delete" \in Pcs /\ "delete" \notin WithRow \cup WithPassword
  BY DEF Pcs, WithRow, WithPassword
<1> QED BY <1>1, StartOnly DEF Delete

LEMMA StepFetchScript ==
  ASSUME Inv, NEW s \in Slot, NEW r \in Router, FetchScript(s, r)
  PROVE  Inv'
<1>1. /\ First(r) \in DOMAIN vpn /\ First(r) # 0 /\ First(r) \in Nat
      /\ vpn[First(r)].router = r
  BY FirstIs DEF FetchScript, Inv, Typed, RowsTyped
<1>2. "script" \in Pcs /\ "script" \notin WithPassword
  BY DEF Pcs, WithPassword
<1> QED BY <1>1, <1>2, StartOnly DEF FetchScript

LEMMA StepRehydrate ==
  ASSUME Inv, NEW s \in Slot, Rehydrate(s)
  PROVE  Inv'
<1>1. /\ call' = [call EXCEPT ![s] = Rehydration] /\ UNCHANGED field
      /\ UNCHANGED <<site, vpn, route>> /\ up' \in BOOLEAN
  BY DEF Rehydrate, server, Inv, Typed
<1> QED BY <1>1, RehydrationIs, CallOnly

LEMMA StepDie ==
  ASSUME Inv, NEW s \in Slot, Die(s)
  PROVE  Inv'
BY EndOnly DEF Die, server, Inv, Typed

LEMMA StepVerify ==
  ASSUME Inv, NEW s \in Slot, Verify(s)
  PROVE  Inv'
<1>1. /\ call' = [call EXCEPT ![s] = [call[s] EXCEPT !.pc = "confirm"]]
      /\ UNCHANGED <<site, vpn, route>> /\ UNCHANGED field /\ up' \in BOOLEAN
  BY DEF Verify, Goto, server, Inv, Typed
<1>2. /\ call[s].pc = "verify" /\ "confirm" \in Pcs
      /\ {"verify", "confirm"} \subseteq WithPassword /\ "confirm" \notin WithRow
  BY DEF Verify, Pcs, WithPassword, WithRow
<1>3. /\ GoodIn([call[s] EXCEPT !.pc = "confirm"], vpn, keys, passwords)
      /\ \A r \in Router : \A p \in Secret :
           CallKnows([call[s] EXCEPT !.pc = "confirm"], r, p) => Knows(r, p)
  BY <1>2, GotoIs
<1> QED BY <1>1, <1>3, CallOnly

LEMMA StepPickAddress ==
  ASSUME Inv, NEW s \in Slot, PickAddress(s)
  PROVE  Inv'
<1>1. /\ call[s].pc = "pick" /\ UNCHANGED field
      /\ UNCHANGED <<site, vpn, route>> /\ up' \in BOOLEAN
  BY DEF PickAddress, server, Inv, Typed
<1>2. CASE End(s)
  BY <1>1, <1>2, EndOnly
<1>3. CASE /\ Free # {}
           /\ call' = [call EXCEPT ![s].pc = "insert", ![s].value = Least(Free)]
  <2> DEFINE c == [call[s] EXCEPT !.pc = "insert", !.value = Least(Free)]
  <2>1. Least(Free) \in Address /\ Least(Free) \in Nat
    BY <1>3, FreeIs
  <2>2. GoodIn(call[s], vpn, keys, passwords) /\ call \in [Slot -> Call]
    BY DEF Inv, Typed
  <2> HIDE DEF Free
  <2>3. call' = [call EXCEPT ![s] = c]
    BY <1>3, <2>2
  <2>4. /\ c \in CallIn(vpn, keys) /\ c.pc = "insert" /\ c.router = call[s].router
        /\ c.copy = call[s].copy /\ c.value = Least(Free)
    BY <2>1, <2>2 DEF GoodIn, CallIn, Pcs
  <2> HIDE DEF c
  <2>5. GoodIn(c, vpn, keys, passwords)
    BY <1>1, <2>1, <2>2, <2>4 DEF GoodIn, WithRow, WithPassword
  <2>6. \A r \in Router : \A p \in Secret : CallKnows(c, r, p) => CallKnows(call[s], r, p)
    BY <2>4 DEF CallKnows, WithPassword
  <2> QED BY <1>1, <2>3, <2>5, <2>6, CallOnly DEF Knows
<1> QED BY <1>2, <1>3 DEF PickAddress

LEMMA StepConfirm ==
  ASSUME Inv, NEW s \in Slot, Confirm(s)
  PROVE  Inv'
<1> DEFINE r == call[s].router
           c == [call[s] EXCEPT !.pc = "store", !.id = First(r), !.copy = vpn[First(r)]]
<1>1. /\ call[s].pc = "confirm" /\ UNCHANGED field
      /\ UNCHANGED <<site, vpn, route>> /\ up' \in BOOLEAN
  BY DEF Confirm, server, Inv, Typed
<1>2. CASE End(s)
  BY <1>1, <1>2, EndOnly
<1>3. CASE /\ LiveIds(r) # {}
           /\ call' = [call EXCEPT ![s].pc = "store", ![s].id = First(r),
                                   ![s].copy = vpn[First(r)]]
  <2>1. GoodIn(call[s], vpn, keys, passwords) /\ call \in [Slot -> Call]
    BY DEF Inv, Typed
  <2>2. r \in Router /\ call[s].value \in 1..passwords
    BY <1>1, <2>1 DEF GoodIn, WithPassword
  <2>3. /\ First(r) \in DOMAIN vpn /\ First(r) \in 0..Len(vpn)
        /\ vpn[First(r)] \in Row /\ vpn[First(r)].router = r
        /\ vpn[First(r)].key <= keys /\ vpn[First(r)].password <= passwords
    BY <1>3, <2>2, FirstIs DEF Inv, Typed, RowsTyped
  <2>4. call' = [call EXCEPT ![s] = c]
    BY <1>3, <2>1
  <2>5. /\ c \in CallIn(vpn, keys) /\ c.pc = "store" /\ c.router = r
        /\ c.id = First(r) /\ c.copy = vpn[First(r)] /\ c.value = call[s].value
    BY <2>1, <2>3 DEF GoodIn, CallIn, Pcs
  <2> HIDE DEF c
  <2>6. GoodIn(c, vpn, keys, passwords)
    BY <2>2, <2>3, <2>5 DEF GoodIn
  <2>7. ASSUME NEW q \in Router, NEW p \in Secret, CallKnows(c, q, p) PROVE Knows(q, p)
    <3>1. CASE vpn[First(r)].password = p
      BY <2>3, <2>5, <2>7, <3>1 DEF CallKnows, Knows, RowKnows
    <3>2. CASE call[s].value = p
      BY <1>1, <2>5, <2>7, <3>2 DEF CallKnows, Knows, WithPassword
    <3> QED BY <2>5, <2>7, <3>1, <3>2 DEF CallKnows
  <2> QED BY <1>1, <2>4, <2>6, <2>7, CallOnly
<1> QED BY <1>2, <1>3 DEF Confirm

LEMMA StepInsertVPN ==
  ASSUME Inv, NEW s \in Slot, InsertVPN(s)
  PROVE  Inv'
<1> DEFINE r == call[s].router
           row == FreshRow(r, call[s].value, passwords')
<1>1. GoodIn(call[s], vpn, keys, passwords) /\ vpn \in Seq(Row)
      /\ keys \in Nat /\ passwords \in Nat /\ Len(vpn) <= MaxRows
  BY DEF Inv, Typed, RowsTyped
<1>3. r \in Router /\ call[s].value \in Address
  BY <1>1 DEF GoodIn, InsertVPN
<1>0. /\ Grow /\ owner' \in Seq(Router) /\ passwords' = passwords + 1
      /\ WillSuit(r, passwords + 1) /\ mixed' = mixed
  BY <1>3, Fresh DEF InsertVPN
<1>2. /\ passwords' <= MaxPasswords /\ passwords' \in Nat
      /\ Len(vpn) + 1 <= MaxRows /\ Len(vpn) \in Nat
  BY <1>0, <1>1 DEF InsertVPN
<1>4. /\ row \in Row /\ row.router = r /\ row.key = 0 /\ row.password = passwords + 1
  BY <1>0, <1>2, <1>3 DEF FreshRow, Row
<1> HIDE DEF row
<1>5. /\ vpn' = Append(vpn, row) /\ call' = [call EXCEPT ![s] = Idle]
      /\ UNCHANGED <<route, up, device, script, report, handed, keys>>
  BY DEF InsertVPN, End, row
<1>6. /\ vpn' \in Seq(Row) /\ Len(vpn') = Len(vpn) + 1
      /\ \A i \in DOMAIN vpn : i \in DOMAIN vpn' /\ vpn'[i] = vpn[i]
      /\ \A i \in DOMAIN vpn' : i \in DOMAIN vpn \/ vpn'[i] = row
  BY <1>1, <1>4, <1>5
<1>7. site' \in [Router -> {"none", "live", "gone"}]
  BY <1>5 DEF InsertVPN, Inv, Typed
<1>8. \A i \in DOMAIN vpn : /\ vpn[i].key <= keys /\ vpn[i].password <= passwords
                            /\ vpn[i].password \in Nat /\ vpn[i].router \in Router
  BY <1>1, RowIs DEF Inv, Typed, RowsTyped
<1>9. \A i \in DOMAIN vpn' : vpn'[i].key <= keys /\ vpn'[i].password <= passwords'
  <2> TAKE i \in DOMAIN vpn'
  <2>1. CASE i \in DOMAIN vpn
    BY <1>0, <1>1, <1>6, <1>8, <2>1
  <2>2. CASE vpn'[i] = row
    BY <1>0, <1>1, <1>4, <2>2
  <2> QED BY <1>6, <2>1, <2>2
<1>10. \A i \in DOMAIN vpn' : \A p \in Secret : vpn'[i].password = p =>
         Knows(vpn'[i].router, p) \/ WillSuit(vpn'[i].router, p)
  BY <1>0, <1>4, <1>6 DEF Knows, RowKnows
<1>11. /\ GoodIn(Idle, vpn', keys', passwords')
       /\ \A q \in Router : \A p \in Secret : ~CallKnows(Idle, q, p)
  BY <1>0, <1>1, <1>2, <1>5, <1>6, IdleIs
<1>12. /\ passwords' \in passwords..MaxPasswords /\ Len(vpn) <= Len(vpn')
       /\ Len(vpn') <= MaxRows
       /\ \A i \in DOMAIN vpn : vpn'[i].router = vpn[i].router
  BY <1>0, <1>1, <1>2, <1>6
<1> HIDE DEF r
<1> QED BY <1>0, <1>5, <1>6, <1>7, <1>9, <1>10, <1>11, <1>12, RowsWritten

LEMMA StepDeleteRows ==
  ASSUME Inv, NEW s \in Slot, DeleteRows(s)
  PROVE  Inv'
<1> DEFINE r == call[s].router
<1>1. GoodIn(call[s], vpn, keys, passwords) /\ vpn \in Seq(Row)
      /\ keys \in Nat /\ passwords \in Nat /\ Len(vpn) <= MaxRows /\ Len(vpn) \in Nat
      /\ passwords <= MaxPasswords
  BY DEF Inv, Typed, RowsTyped
<1>2. r \in Router
  BY <1>1 DEF GoodIn, DeleteRows
<1>3. vpn' = [i \in DOMAIN vpn |->
        IF vpn[i].router = r THEN [vpn[i] EXCEPT !.deleted = TRUE] ELSE vpn[i]]
  BY DEF DeleteRows
<1>4. \A row \in Row : LET w == [row EXCEPT !.deleted = TRUE] IN
        /\ w \in Row /\ w.router = row.router /\ w.key = row.key
        /\ w.password = row.password
  BY DEF Row
<1>5. \A i \in DOMAIN vpn : vpn[i] \in Row
  BY <1>1
<1>6. DOMAIN vpn = 1..Len(vpn) /\ DOMAIN vpn' = 1..Len(vpn)
  BY <1>1, <1>3
<1>7. \A i \in DOMAIN vpn : /\ vpn'[i] \in Row /\ vpn'[i].router = vpn[i].router
                            /\ vpn'[i].key = vpn[i].key
                            /\ vpn'[i].password = vpn[i].password
  BY <1>3, <1>4, <1>5
<1>8. vpn' \in Seq(Row) /\ Len(vpn') = Len(vpn)
  <2>1. vpn' = [i \in 1..Len(vpn) |-> vpn'[i]] /\ \A i \in 1..Len(vpn) : vpn'[i] \in Row
    BY <1>3, <1>6, <1>7
  <2>2. vpn' \in [1..Len(vpn) -> Row]
    BY <2>1
  <2> QED BY <1>1, <2>2
<1>9. /\ call' = [call EXCEPT ![s] = Idle] /\ Grow /\ passwords' = passwords
      /\ UNCHANGED <<route, up, device, script, report, handed, keys>>
      /\ owner' \in Seq(Router) /\ mixed' = mixed
  BY Kept DEF DeleteRows, End, field, Inv, Typed, FieldTyped
<1>10. site' \in [Router -> {"none", "live", "gone"}]
  BY <1>9 DEF DeleteRows, Inv, Typed
<1>11. \A i \in DOMAIN vpn' : /\ vpn'[i].key <= keys /\ vpn'[i].password <= passwords'
  BY <1>6, <1>7, <1>9 DEF Inv, Typed, RowsTyped
<1>12. \A i \in DOMAIN vpn' : \A p \in Secret : vpn'[i].password = p =>
         Knows(vpn'[i].router, p)
  BY <1>6, <1>7 DEF Knows, RowKnows
<1>13. /\ GoodIn(Idle, vpn', keys', passwords')
       /\ \A q \in Router : \A p \in Secret : ~CallKnows(Idle, q, p)
  BY <1>1, <1>8, <1>9, IdleIs
<1>14. /\ passwords' \in passwords..MaxPasswords /\ Len(vpn) <= Len(vpn')
       /\ Len(vpn') <= MaxRows
       /\ \A i \in DOMAIN vpn : vpn'[i].router = vpn[i].router
  BY <1>1, <1>7, <1>8, <1>9
<1> HIDE DEF r
<1> QED BY <1>8, <1>9, <1>10, <1>11, <1>12, <1>13, <1>14, RowsWritten

LEMMA StepConnect ==
  ASSUME Inv, NEW s \in Slot, Connect(s)
  PROVE  Inv'
<1> DEFINE copy == [call[s].copy EXCEPT !.key = call[s].value, !.connected = TRUE]
<1>1. GoodIn(call[s], vpn, keys, passwords) /\ vpn \in Seq(Row)
      /\ keys \in Nat /\ passwords \in Nat /\ passwords <= MaxPasswords
  BY FieldIs DEF Inv, Typed, RowsTyped
<1>2. /\ call[s].pc \in WithRow /\ call[s].copy \in Row /\ call[s].value \in 1..keys
      /\ call[s].copy.router = call[s].router /\ call[s].copy.password <= passwords
      /\ call[s].router \in Router
  BY <1>1 DEF GoodIn, Connect, WithRow
<1>3. /\ copy \in Row /\ copy.router = call[s].router /\ copy.key <= keys
      /\ copy.password = call[s].copy.password
  <2>1. \A row \in Row : \A k \in Nat :
          LET w == [row EXCEPT !.key = k, !.connected = TRUE] IN
          /\ w \in Row /\ w.router = row.router /\ w.key = k
          /\ w.password = row.password
    BY DEF Row
  <2>2. call[s].value \in Nat /\ call[s].value <= keys
    BY <1>1, <1>2
  <2> QED BY <1>2, <2>1, <2>2
<1>4. SaveRow(s, copy)
  BY DEF Connect
<1> HIDE DEF copy
<1>5. /\ call' = [call EXCEPT ![s] = Idle] /\ Grow /\ passwords' = passwords
      /\ UNCHANGED <<site, route, up, device, script, report, handed, keys>>
      /\ owner' \in Seq(Router) /\ mixed' = mixed
  BY Kept DEF Connect, End, field, Inv, Typed, FieldTyped
<1>6. /\ GoodIn(Idle, vpn, keys, passwords')
      /\ \A q \in Router : \A p \in Secret : ~CallKnows(Idle, q, p)
  BY <1>1, <1>5, IdleIs
<1>7. \A p \in Secret : copy.password = p => Knows(copy.router, p)
  BY <1>2, <1>3 DEF Knows, CallKnows
<1>8. passwords' \in passwords..MaxPasswords /\ copy.password <= passwords'
  BY <1>1, <1>2, <1>3, <1>5
<1> QED BY <1>2, <1>3, <1>4, <1>5, <1>6, <1>7, <1>8, RowSaved

LEMMA StepStore ==
  ASSUME Inv, NEW s \in Slot, Store(s)
  PROVE  Inv'
<1> DEFINE copy == [call[s].copy EXCEPT !.password = call[s].value]
<1>1. GoodIn(call[s], vpn, keys, passwords) /\ vpn \in Seq(Row)
      /\ keys \in Nat /\ passwords \in Nat /\ passwords <= MaxPasswords
  BY FieldIs DEF Inv, Typed, RowsTyped
<1>2. /\ call[s].pc \in WithRow \cap WithPassword /\ call[s].copy \in Row
      /\ call[s].value \in 1..passwords /\ call[s].copy.router = call[s].router
      /\ call[s].copy.key <= keys /\ call[s].router \in Router
  BY <1>1 DEF GoodIn, Store, WithRow, WithPassword
<1>3. /\ copy \in Row /\ copy.router = call[s].router /\ copy.key <= keys
      /\ copy.password = call[s].value
  <2>1. \A row \in Row : \A p \in Nat : LET w == [row EXCEPT !.password = p] IN
          /\ w \in Row /\ w.router = row.router /\ w.key = row.key /\ w.password = p
    BY DEF Row
  <2>2. call[s].value \in Nat
    BY <1>1, <1>2
  <2> QED BY <1>2, <2>1, <2>2
<1>4. SaveRow(s, copy)
  BY DEF Store
<1> HIDE DEF copy
<1>5. /\ call' = [call EXCEPT ![s] = Idle] /\ Grow /\ passwords' = passwords
      /\ UNCHANGED <<site, route, up, device, script, report, handed, keys>>
      /\ owner' \in Seq(Router) /\ mixed' = mixed
  BY Kept DEF Store, End, field, Inv, Typed, FieldTyped
<1>6. /\ GoodIn(Idle, vpn, keys, passwords')
      /\ \A q \in Router : \A p \in Secret : ~CallKnows(Idle, q, p)
  BY <1>1, <1>5, IdleIs
<1>7. \A p \in Secret : copy.password = p => Knows(copy.router, p)
  BY <1>2, <1>3 DEF Knows, CallKnows
<1>8. passwords' \in passwords..MaxPasswords /\ copy.password <= passwords'
  BY <1>1, <1>2, <1>3, <1>5
<1> QED BY <1>2, <1>3, <1>4, <1>5, <1>6, <1>7, <1>8, RowSaved

LEMMA StepUpgrade ==
  ASSUME Inv, NEW s \in Slot, Upgrade(s)
  PROVE  Inv'
<1> DEFINE copy == call'[s].copy
           c == call'[s]
<1>1. GoodIn(call[s], vpn, keys, passwords) /\ vpn \in Seq(Row)
      /\ keys \in Nat /\ passwords \in Nat /\ passwords <= MaxPasswords
      /\ call \in [Slot -> Call]
  BY FieldIs DEF Inv, Typed, RowsTyped
<1>2. /\ call[s].pc \in WithRow \ {"peer", "connect"} /\ call[s].copy \in Row
      /\ call[s].pc \notin WithPassword /\ call[s].pc \notin {"insert", "idle", "push"}
      /\ call[s].copy.router = call[s].router /\ call[s].router \in Router
      /\ call[s].copy.key <= keys /\ call[s].copy.password <= passwords
      /\ call[s].copy.password \in Nat /\ call[s].id \in DOMAIN vpn
      /\ vpn[call[s].id].router = call[s].router
  BY <1>1, RowIs DEF GoodIn, Upgrade, WithRow, WithPassword
<1>3. /\ UNCHANGED <<site, route, up, device, script, report, handed, keys>>
      /\ mixed' = mixed /\ SaveRow(s, copy)
  BY DEF Upgrade
<1>4. /\ \A row \in Row : \A p \in Nat : LET w == [row EXCEPT !.password = p] IN
           /\ w \in Row /\ w.router = row.router /\ w.key = row.key /\ w.password = p
      /\ \A row \in Row : LET w == [row EXCEPT !.lan = TRUE] IN
           /\ w \in Row /\ w.router = row.router /\ w.key = row.key
           /\ w.password = row.password
  BY DEF Row
<1>5. ASSUME NEW row \in Row, row.router = call[s].router, row.key <= keys,
             call' = [call EXCEPT ![s].copy = row],
             passwords' \in passwords..MaxPasswords, row.password <= passwords',
             Grow, owner' \in Seq(Router),
             row.password = call[s].copy.password \/ WillSuit(call[s].router, row.password)
      PROVE  Inv'
  <2>1. call' = [call EXCEPT ![s] = c] /\ c = [call[s] EXCEPT !.copy = row]
    BY <1>1, <1>5
  <2>2. /\ c \in CallIn(vpn, keys) /\ c.pc = call[s].pc /\ c.router = call[s].router
        /\ c.id = call[s].id /\ c.copy = row /\ c.value = call[s].value
    BY <1>1, <2>1 DEF GoodIn, CallIn
  <2> HIDE DEF c
  <2>3. GoodIn(c, vpn, keys, passwords')
    BY <1>2, <1>5, <2>2 DEF GoodIn
  <2>4. \A p \in Secret : row.password = p => Knows(row.router, p) \/ WillSuit(row.router, p)
    BY <1>2, <1>5 DEF Knows, CallKnows
  <2>5. \A r \in Router : \A p \in Secret : CallKnows(c, r, p) =>
          Knows(r, p) \/ WillSuit(r, p)
    BY <1>2, <1>5, <2>2, <2>4 DEF CallKnows
  <2>6. SaveRow(s, row)
    BY <1>3, <2>2 DEF c
  <2>7. mixed' = mixed /\ call[s].pc \in WithRow
    BY <1>2, <1>3
  <2>8. UNCHANGED <<site, route, up, device, script, report, handed, keys>>
    BY <1>3
  <2>9. call' = [call EXCEPT ![s] = c]
    BY <2>1
  <2>10. /\ row \in Row /\ row.router = call[s].router /\ row.key <= keys
         /\ row.password <= passwords' /\ passwords' \in passwords..MaxPasswords
         /\ Grow /\ owner' \in Seq(Router)
    BY <1>5
  <2> QED BY <2>3, <2>4, <2>5, <2>6, <2>7, <2>8, <2>9, <2>10, RowSaved
<1>6. CASE /\ passwords < MaxPasswords /\ owner' = Append(owner, call[s].router)
           /\ call' = [call EXCEPT ![s].copy.password = passwords']
  <2> DEFINE row == [call[s].copy EXCEPT !.password = passwords']
  <2>0. /\ Grow /\ owner' \in Seq(Router) /\ passwords' = passwords + 1
        /\ WillSuit(call[s].router, passwords + 1)
    BY <1>2, <1>3, <1>6, Fresh
  <2>1. passwords' \in Nat /\ passwords' \in passwords..MaxPasswords
    BY <1>1, <1>6, <2>0
  <2>2. /\ row \in Row /\ row.router = call[s].router /\ row.key <= keys
        /\ row.password = passwords'
    BY <1>2, <1>4, <2>1
  <2>3. call' = [call EXCEPT ![s].copy = row]
    BY <1>6
  <2>4. row.password <= passwords' /\ row.password = passwords + 1
    BY <2>0, <2>1, <2>2
  <2> HIDE DEF row
  <2> QED BY <1>5, <2>0, <2>1, <2>2, <2>3, <2>4
<1>7. CASE /\ call' = [call EXCEPT ![s].copy.lan = TRUE] /\ owner' = owner
  <2> DEFINE row == [call[s].copy EXCEPT !.lan = TRUE]
  <2>0. Grow /\ passwords' = passwords /\ owner' \in Seq(Router)
    BY <1>3, <1>7, Kept DEF Inv, Typed, FieldTyped
  <2>1. passwords' \in passwords..MaxPasswords
    BY <1>1, <2>0
  <2>2. /\ row \in Row /\ row.router = call[s].router /\ row.key <= keys
        /\ row.password = call[s].copy.password
    BY <1>2, <1>4
  <2>3. call' = [call EXCEPT ![s].copy = row]
    BY <1>7
  <2> HIDE DEF row
  <2> QED BY <1>2, <1>5, <2>0, <2>1, <2>2, <2>3
<1> QED BY <1>6, <1>7 DEF Upgrade

-----------------------------------------------------------------------------
(* The types of the field grow with the keys and passwords. *)
LEMMA FieldGrows ==
  ASSUME Inv, keys' \in Nat, passwords' \in Nat, keys <= keys', passwords <= passwords'
  PROVE  /\ 0..keys \subseteq (0..keys)' /\ Known \subseteq Known'
         /\ Device \subseteq Device' /\ Script \subseteq Script'
<1>1. keys \in Nat /\ passwords \in Nat
  BY FieldIs
<1>2. 0..keys \subseteq 0..(keys') /\ Known \subseteq Known'
  BY <1>1 DEF Known
<1> QED BY <1>2 DEF Device, Script

(* A peer that is added leaves every address with a generated key or none. *)
LEMMA RoutedIs ==
  ASSUME Inv, NEW key \in 0..keys, NEW a \in Address
  PROVE  Routed(key, a) \in [Address -> 0..keys]
BY FieldIs DEF Routed

(* A route that changes, and a report that gets lost, teach nobody.        *)
LEMMA RoutesChanged ==
  ASSUME Inv, UNCHANGED <<site, vpn, device, script, handed, keys, owner, mixed>>,
         up' \in BOOLEAN, route' \in [Address -> 0..keys], report' \in [Router -> 0..keys],
         call' = [t \in Slot |-> call'[t]],
         \A t \in Slot : \/ call'[t] = call[t]
                         \/ /\ GoodIn(call'[t], vpn, keys, passwords)
                            /\ \A r \in Router : \A p \in Secret :
                                 CallKnows(call'[t], r, p) => Knows(r, p)
  PROVE  Inv'
<1>0. Grow /\ passwords' = passwords
  BY Kept
<1>1. /\ Device' = Device /\ Script' = Script /\ Known' = Known
  BY <1>0 DEF Device, Script, Known
<1>2. FieldTyped'
  BY <1>0, <1>1, FieldIs DEF FieldTyped
<1>3. keys' \in keys..MaxKeys /\ passwords' \in passwords..MaxPasswords
  BY <1>0, FieldIs
<1>4. \A t \in Slot : call'[t] = call[t] \/ GoodIn(call'[t], vpn, keys', passwords')
  BY <1>0
<1>5. \A t \in Slot : \A r \in Router : \A p \in Secret :
        CallKnows(call'[t], r, p) => Knows(r, p)
  BY DEF Knows
<1>6. \A r \in Router : \A p \in Secret : FieldKnows(r, p)' => Knows(r, p)
  BY DEF FieldKnows, Knows
<1> QED BY <1>0, <1>2, <1>3, <1>4, <1>5, <1>6, RowsKept

LEMMA StepAddPeer ==
  ASSUME Inv, NEW s \in Slot, AddPeer(s)
  PROVE  Inv'
<1> DEFINE c == [call[s] EXCEPT !.pc = "connect"]
<1>1. GoodIn(call[s], vpn, keys, passwords)
  BY DEF Inv
<1>2. /\ call[s].pc = "peer" /\ call[s].value \in 1..keys /\ call[s].copy \in Row
  BY <1>1 DEF GoodIn, AddPeer, WithRow
<1>3. route' \in [Address -> 0..keys]
  <2>1. call[s].value \in 0..keys /\ call[s].copy.address \in Address
    BY <1>2, RowIs, FieldIs
  <2> QED BY <2>1, RoutedIs DEF AddPeer
<1>4. /\ call' = [call EXCEPT ![s] = c]
      /\ UNCHANGED <<site, vpn, up, field>>
  BY DEF AddPeer, Goto
<1>5. /\ GoodIn(c, vpn, keys, passwords)
      /\ \A r \in Router : \A p \in Secret : CallKnows(c, r, p) => Knows(r, p)
  <2>1. "connect" \in Pcs /\ {"peer", "connect"} \subseteq WithRow
        /\ "connect" \notin WithPassword
    BY DEF Pcs, WithRow, WithPassword
  <2> QED BY <1>2, <2>1, GotoIs
<1> HIDE DEF c
<1>6. /\ call' = [t \in Slot |-> call'[t]]
      /\ \A t \in Slot : call'[t] = call[t] \/ call'[t] = c
  BY <1>4, FieldIs
<1>7. /\ UNCHANGED <<site, vpn, device, script, handed, keys, owner, mixed>>
      /\ up' \in BOOLEAN /\ report' \in [Router -> 0..keys]
  BY <1>4, FieldIs DEF field
<1> QED BY <1>3, <1>5, <1>6, <1>7, RoutesChanged

LEMMA StepPushing ==
  ASSUME Inv, NEW s \in Slot, NEW peer \in call[s].todo, NEW done \in BOOLEAN,
         Pushing(s, peer, done)
  PROVE  Inv'
<1> DEFINE rest == call[s].todo \ {peer}
           c == IF rest = {} THEN Idle ELSE [call[s] EXCEPT !.todo = rest]
<1>1. GoodIn(call[s], vpn, keys, passwords) /\ call[s].pc = "push"
      /\ vpn \in Seq(Row)
  BY DEF Inv, Typed, RowsTyped, Pushing
<1>2. peer \in [key : 1..keys, address : Address]
  BY <1>1 DEF GoodIn, CallIn
<1>3. route' \in [Address -> 0..keys]
  <2>1. peer.key \in 0..keys /\ peer.address \in Address
    BY <1>2, FieldIs
  <2> QED BY <2>1, RoutedIs, FieldIs DEF Pushing
<1>4. /\ call' = [call EXCEPT ![s] = c] /\ UNCHANGED <<site, vpn, field>>
      /\ up' = (up \/ rest = {})
  BY DEF Pushing
<1>5. /\ GoodIn(c, vpn, keys, passwords)
      /\ \A r \in Router : \A p \in Secret : CallKnows(c, r, p) => Knows(r, p)
  <2>1. CASE rest = {}
    BY <1>1, <2>1, IdleIs, FieldIs
  <2>2. CASE rest # {}
    <3>1. /\ c \in CallIn(vpn, keys) /\ c.pc = "push" /\ c.router = call[s].router
          /\ c.copy = call[s].copy
      BY <1>1, <2>2 DEF GoodIn, CallIn
    <3> HIDE DEF c
    <3>2. GoodIn(c, vpn, keys, passwords)
      BY <1>1, <3>1 DEF GoodIn, WithRow, WithPassword
    <3>3. \A r \in Router : \A p \in Secret :
            CallKnows(c, r, p) => CallKnows(call[s], r, p)
      BY <3>1 DEF CallKnows, WithPassword
    <3> QED BY <3>2, <3>3 DEF Knows
  <2> QED BY <2>1, <2>2
<1> HIDE DEF c, rest
<1>6. /\ call' = [t \in Slot |-> call'[t]]
      /\ \A t \in Slot : call'[t] = call[t] \/ call'[t] = c
  BY <1>4, FieldIs
<1>7. /\ UNCHANGED <<site, vpn, device, script, handed, keys, owner, mixed>>
      /\ up' \in BOOLEAN /\ report' \in [Router -> 0..keys]
  BY <1>4, FieldIs DEF field
<1> QED BY <1>3, <1>5, <1>6, <1>7, RoutesChanged

LEMMA StepRestart ==
  ASSUME Inv, NEW s \in Slot, Restart(s)
  PROVE  Inv'
<1>1. /\ call' = [t \in Slot |-> IF t = s /\ Stored # {} THEN Rehydration ELSE Idle]
      /\ up' \in BOOLEAN
      /\ UNCHANGED <<site, vpn, device, script, handed, keys, owner, mixed>>
  BY DEF Restart
<1>2. route' \in [Address -> 0..keys] /\ report' \in [Router -> 0..keys]
  BY FieldIs DEF Restart
<1>3. /\ call' = [t \in Slot |-> call'[t]]
      /\ \A t \in Slot : call'[t] = Rehydration \/ call'[t] = Idle
  BY <1>1
<1>4. vpn \in Seq(Row)
  BY DEF Inv, Typed, RowsTyped
<1>5. \A t \in Slot : /\ GoodIn(call'[t], vpn, keys, passwords)
                      /\ \A r \in Router : \A p \in Secret : ~CallKnows(call'[t], r, p)
  <2>1. /\ GoodIn(Idle, vpn, keys, passwords)
        /\ \A r \in Router : \A p \in Secret : ~CallKnows(Idle, r, p)
    BY <1>4, IdleIs, FieldIs
  <2> QED BY <1>3, <2>1, RehydrationIs
<1> QED BY <1>1, <1>2, <1>3, <1>5, RoutesChanged

LEMMA StepReport ==
  ASSUME Inv, NEW s \in Slot, NEW r \in Router, Report(s, r)
  PROVE  Inv'
<1> DEFINE c == [pc |-> "peer", router |-> r, id |-> First(r),
                 copy |-> IF First(r) = 0 THEN NoCopy ELSE vpn[First(r)],
                 value |-> report[r], todo |-> {}]
<1>1. /\ call' = [call EXCEPT ![s] = c] /\ report' = [report EXCEPT ![r] = 0]
      /\ UNCHANGED <<server, device, script, handed, keys, owner, mixed>>
  BY DEF Report, Start
<1>2. /\ First(r) \in DOMAIN vpn /\ First(r) # 0 /\ First(r) \in Nat
      /\ vpn[First(r)].router = r
  BY FirstIs DEF Report, Inv, Typed, RowsTyped
<1>3. report[r] \in 1..keys /\ report[r] \in Nat
  BY FieldIs DEF Report
<1>4. "peer" \in Pcs /\ "peer" \notin WithPassword
  BY DEF Pcs, WithPassword
<1>5. /\ GoodIn(c, vpn, keys, passwords)
      /\ \A q \in Router : \A p \in Secret : CallKnows(c, q, p) => RowKnows(q, p)
  BY <1>2, <1>3, <1>4, StartIs
<1> HIDE DEF c
<1>6. /\ call' = [t \in Slot |-> call'[t]]
      /\ \A t \in Slot : call'[t] = call[t] \/ call'[t] = c
  BY <1>1, FieldIs
<1>7. /\ UNCHANGED <<site, vpn>> /\ up' \in BOOLEAN
      /\ report' \in [Router -> 0..keys] /\ route' \in [Address -> 0..keys]
  BY <1>1, FieldIs DEF server
<1> QED BY <1>1, <1>5, <1>6, <1>7, RoutesChanged DEF Knows

(* RowsKept, for a step that generates no password. *)
LEMMA FieldChanged ==
  ASSUME Inv, UNCHANGED <<site, vpn, owner, mixed>>, up' \in BOOLEAN,
         call' = [t \in Slot |-> call'[t]],
         \A t \in Slot : \/ call'[t] = call[t]
                         \/ /\ GoodIn(call'[t], vpn, keys, passwords)
                            /\ \A r \in Router : \A p \in Secret :
                                 CallKnows(call'[t], r, p) => Knows(r, p),
         FieldTyped', keys' \in keys..MaxKeys,
         \A r \in Router : \A p \in Secret :
           FieldKnows(r, p)' => Knows(r, p) \/ WillSuit(r, p)
  PROVE  Inv'
<1>0. Grow /\ passwords' = passwords
  BY Kept
<1>1. /\ passwords' \in passwords..MaxPasswords /\ keys' \in Nat /\ keys <= keys'
      /\ keys \in Nat /\ passwords \in Nat /\ passwords' = passwords
  BY <1>0, FieldIs
<1>2. \A t \in Slot : call'[t] = call[t] \/ GoodIn(call'[t], vpn, keys', passwords')
  <2> SUFFICES ASSUME NEW t \in Slot, GoodIn(call'[t], vpn, keys, passwords)
               PROVE  GoodIn(call'[t], vpn, keys', passwords')
    OBVIOUS
  <2>1. vpn \in Seq(Row) /\ Len(vpn) <= Len(vpn) /\ passwords <= passwords
    BY <1>1 DEF Inv, Typed, RowsTyped
  <2> QED BY <1>1, <2>1, GoodGrows
<1>3. \A t \in Slot : \A r \in Router : \A p \in Secret :
        CallKnows(call'[t], r, p) => Knows(r, p)
  BY DEF Knows
<1> QED BY <1>0, <1>1, <1>2, <1>3, RowsKept

LEMMA StepSendScript ==
  ASSUME Inv, NEW s \in Slot, SendScript(s)
  PROVE  Inv'
<1> DEFINE r == call[s].router
           sent == [Nobody EXCEPT !.address = call[s].copy.address,
                                  !.password = call[s].copy.password]
<1>1. GoodIn(call[s], vpn, keys, passwords) /\ vpn \in Seq(Row)
  BY DEF Inv, Typed, RowsTyped
<1>2. /\ r \in Router /\ call[s].copy \in Row /\ call[s].copy.address \in Address
      /\ call[s].copy.password \in Known \ {0}
  BY <1>1, RowIs, FieldIs DEF GoodIn, SendScript, WithRow, Known
<1>3. sent \in Script /\ sent.password = call[s].copy.password
  BY <1>2 DEF Script, Nobody
<1>4. /\ script' = [script EXCEPT ![r] = sent] /\ call' = [call EXCEPT ![s] = Idle]
      /\ UNCHANGED <<site, vpn, route, up>>
      /\ UNCHANGED <<device, report, handed, keys, owner, mixed>> /\ passwords' = passwords
  BY Kept DEF SendScript, End, server
<1> HIDE DEF sent
<1>5. FieldTyped'
  <2>1. Device' = Device /\ Script' = Script /\ Known' = Known
    BY <1>4 DEF Device, Script, Known
  <2> QED BY <1>2, <1>3, <1>4, <2>1, FieldIs DEF FieldTyped
<1>6. \A q \in Router : \A p \in Secret : FieldKnows(q, p)' => Knows(q, p)
  <2>1. \A q \in Router : script'[q] = script[q] \/ (q = r /\ script'[q] = sent)
    BY <1>2, <1>4, FieldIs
  <2> QED BY <1>3, <1>4, <2>1 DEF FieldKnows, Knows, CallKnows
<1>7. /\ GoodIn(Idle, vpn, keys, passwords)
      /\ \A q \in Router : \A p \in Secret : ~CallKnows(Idle, q, p)
  BY <1>1, IdleIs, FieldIs
<1>8. /\ call' = [t \in Slot |-> call'[t]]
      /\ \A t \in Slot : call'[t] = call[t] \/ call'[t] = Idle
  BY <1>4, FieldIs
<1>9. up' \in BOOLEAN /\ keys' \in keys..MaxKeys
  BY <1>4, FieldIs
<1> QED BY <1>4, <1>5, <1>6, <1>7, <1>8, <1>9, FieldChanged

LEMMA StepImport ==
  ASSUME Inv, NEW r \in Router, Import(r)
  PROVE  Inv'
<1> DEFINE taken == [script[r] EXCEPT !.key = keys']
<1>1. /\ keys' = keys + 1 /\ keys' \in Nat /\ keys' <= MaxKeys /\ keys <= keys'
      /\ keys' \in keys..MaxKeys /\ passwords' = passwords /\ passwords' \in Nat
      /\ passwords <= passwords' /\ UNCHANGED <<owner, mixed>>
  BY Kept, FieldIs DEF Import
<1>2. script[r] \in [key : {0}, address : Address, password : Known \ {0}]
  BY FieldIs DEF Import, Script
<1>3. taken \in Device' /\ taken.password = script[r].password
  BY <1>1, <1>2, FieldGrows DEF Device
<1>4. /\ device' = [device EXCEPT ![r] = taken] /\ report' = [report EXCEPT ![r] = keys']
      /\ script' = [script EXCEPT ![r] = Nobody]
      /\ UNCHANGED <<site, vpn, route, up, handed, call>>
  BY DEF Import, server
<1> HIDE DEF taken
<1>5. FieldTyped'
  <2>1. /\ 0..keys \subseteq (0..keys)' /\ Known' = Known /\ keys' \in (0..keys)'
        /\ Device \subseteq Device' /\ Script \subseteq Script' /\ Nobody \in Script'
    BY <1>1, FieldGrows DEF Known, Script
  <2>2. route' \in [Address -> (0..keys)'] /\ report' \in [Router -> (0..keys)']
    BY <1>4, <2>1, FieldIs
  <2>3. device' \in [Router -> Device'] /\ script' \in [Router -> Script']
    BY <1>3, <1>4, <2>1, FieldIs
  <2>4. handed' \in [Router -> SUBSET (Known' \ {0})]
    BY <1>4, <2>1, FieldIs
  <2>5. /\ owner' \in Seq(Router) /\ mixed' \in SUBSET Router
    BY <1>1, FieldIs
  <2> QED BY <2>2, <2>3, <2>4, <2>5 DEF FieldTyped
<1>6. \A q \in Router : \A p \in Secret : FieldKnows(q, p)' => Knows(q, p)
  <2>1. \A q \in Router :
          /\ device'[q] = device[q] \/ (q = r /\ device'[q] = taken)
          /\ script'[q] = script[q] \/ script'[q].password = 0
    BY <1>4, FieldIs DEF Nobody
  <2> QED BY <1>3, <1>4, <2>1 DEF FieldKnows, Knows, Secret
<1>7. call' = [t \in Slot |-> call'[t]] /\ up' \in BOOLEAN
  <2>1. call' = call /\ up' = up
    BY <1>4
  <2>2. call = [t \in Slot |-> call[t]] /\ up \in BOOLEAN
    BY FieldIs
  <2> QED BY <2>1, <2>2
<1> QED BY <1>1, <1>4, <1>5, <1>6, <1>7, FieldChanged

LEMMA StepLoseMessage ==
  ASSUME Inv, NEW r \in Router, LoseMessage(r)
  PROVE  Inv'
<1>1. /\ UNCHANGED <<site, vpn, route, up>>
      /\ UNCHANGED <<device, handed, call, keys, owner, mixed>> /\ passwords' = passwords
  BY Kept DEF LoseMessage, server
<1>2. \A q \in Router : script'[q] = script[q] \/ script'[q].password = 0
  BY FieldIs DEF LoseMessage, Nobody
<1>3. FieldTyped'
  <2>1. /\ Device' = Device /\ Script' = Script /\ Known' = Known /\ Nobody \in Script
        /\ 0 \in 0..keys
    BY <1>1, FieldIs DEF Device, Script, Known
  <2>2. script \in [Router -> Script] /\ report \in [Router -> 0..keys]
    BY FieldIs
  <2>3. script' = script \/ script' = [script EXCEPT ![r] = Nobody]
    BY DEF LoseMessage
  <2>4. report' = report \/ report' = [report EXCEPT ![r] = 0]
    BY DEF LoseMessage
  <2>5. script' \in [Router -> Script]
    BY <2>1, <2>2, <2>3
  <2>6. report' \in [Router -> 0..keys]
    BY <2>1, <2>2, <2>4
  <2> QED BY <1>1, <2>1, <2>5, <2>6, FieldIs DEF FieldTyped
<1>4. \A q \in Router : \A p \in Secret : FieldKnows(q, p)' => Knows(q, p)
  BY <1>1, <1>2 DEF FieldKnows, Knows, Secret
<1>5. call' = [t \in Slot |-> call'[t]] /\ up' \in BOOLEAN /\ keys' \in keys..MaxKeys
  BY <1>1, FieldIs
<1> QED BY <1>1, <1>3, <1>4, <1>5, FieldChanged

LEMMA StepApplyByHand ==
  ASSUME Inv, NEW r \in Router, NEW w \in handed[r], ApplyByHand(r, w)
  PROVE  Inv'
<1>1. /\ device' = [device EXCEPT ![r].password = w] /\ w \in Known
      /\ UNCHANGED <<site, vpn, route, up>> /\ passwords' = passwords
      /\ UNCHANGED <<script, report, handed, call, keys, owner, mixed>>
  BY Kept, FieldIs DEF ApplyByHand, server
<1>2. FieldTyped'
  <2>1. /\ Device' = Device /\ Script' = Script /\ Known' = Known
    BY <1>1 DEF Device, Script, Known
  <2>2. device' \in [Router -> Device]
    <3>1. device[r] \in Device /\ device \in [Router -> Device]
      BY FieldIs
    <3>2. [device[r] EXCEPT !.password = w] \in Device
      BY <1>1, <3>1 DEF Device
    <3> QED BY <1>1, <3>1, <3>2
  <2> QED BY <1>1, <2>1, <2>2, FieldIs DEF FieldTyped
<1>3. \A q \in Router : \A p \in Secret : FieldKnows(q, p)' => Knows(q, p)
  <2>1. \A q \in Router : \/ device'[q].password = device[q].password
                          \/ q = r /\ device'[q].password = w
    BY <1>1, FieldIs DEF Device
  <2> QED BY <1>1, <2>1 DEF FieldKnows, Knows
<1>4. call' = [t \in Slot |-> call'[t]] /\ up' \in BOOLEAN /\ keys' \in keys..MaxKeys
  BY <1>1, FieldIs
<1> QED BY <1>1, <1>2, <1>3, <1>4, FieldChanged

(* A device that answers the command of a row is that of the row's router, *)
(* or the two are mixed up.                                                *)
LEMMA AnswersOwn ==
  ASSUME Inv, NEW i \in DOMAIN vpn,
         NEW d \in Answering(vpn[i].address, vpn[i].password)
  PROVE  d \in Router /\ (d = vpn[i].router \/ {d, vpn[i].router} \subseteq mixed)
<1>1. vpn \in Seq(Row) /\ d \in Router /\ vpn[i].password # 0
      /\ device[d].password = vpn[i].password
  BY DEF Inv, Typed, RowsTyped, Answering
<1>2. vpn[i].router \in Router /\ vpn[i].password \in Secret
  BY <1>1, RowIs DEF Secret
<1>3. Knows(d, vpn[i].password) /\ Knows(vpn[i].router, vpn[i].password)
  BY <1>1 DEF Knows, FieldKnows, RowKnows
<1> QED BY <1>1, <1>2, <1>3 DEF Inv, Apart, Suits

LEMMA StepSetPassword ==
  ASSUME Inv, NEW s \in Slot, SetPassword(s)
  PROVE  Inv'
<1> DEFINE r == call[s].router
           w == call[s].value
           c == [call[s] EXCEPT !.pc = "verify"]
<1>1. GoodIn(call[s], vpn, keys, passwords) /\ vpn \in Seq(Row) /\ call[s].pc = "set"
  BY DEF Inv, Typed, RowsTyped, SetPassword
<1>2. r \in Router /\ w \in 1..passwords
  BY <1>1 DEF GoodIn, WithPassword
<1>3. /\ w \in Known /\ w # 0 /\ Knows(r, w)
  BY <1>1, <1>2, FieldIs DEF Known, Knows, CallKnows, WithPassword
<1>4. LiveIds(r) # {}
  BY DEF SetPassword, Connected
<1>5. PICK d \in Answering(vpn[First(r)].address, vpn[First(r)].password) :
           device' = [device EXCEPT ![d].password = w]
  BY DEF SetPassword
<1>7. /\ UNCHANGED <<site, vpn, route, up>>
      /\ UNCHANGED <<script, report, handed, keys, owner, mixed>> /\ passwords' = passwords
      /\ call' = [call EXCEPT ![s] = c] \/ call' = [call EXCEPT ![s] = Idle]
  BY Kept DEF SetPassword, server, Goto, End
<1>6. d \in Router /\ WillSuit(d, w)
  <2>1. First(r) \in DOMAIN vpn /\ vpn[First(r)].router = r
    BY <1>2, <1>4, FirstIs
  <2>2. d \in Router /\ (d = r \/ {d, r} \subseteq mixed)
    BY <2>1, AnswersOwn
  <2>3. w \in Secret
    BY <1>2 DEF Secret
  <2>4. Suits(r, w)
    BY <1>2, <1>3, <2>3 DEF Inv, Apart
  <2>5. Suits(d, w)
    BY <2>2, <2>4 DEF Suits
  <2> QED BY <1>7, <2>2, <2>5 DEF Suits, WillSuit
<1>8. FieldTyped'
  <2>1. /\ Device' = Device /\ Script' = Script /\ Known' = Known
    BY <1>7 DEF Device, Script, Known
  <2>2. device' \in [Router -> Device]
    <3>1. device[d] \in Device /\ device \in [Router -> Device]
      BY <1>6, FieldIs
    <3>2. [device[d] EXCEPT !.password = w] \in Device
      BY <1>3, <3>1 DEF Device
    <3> QED BY <1>5, <3>1, <3>2
  <2> QED BY <1>7, <2>1, <2>2, FieldIs DEF FieldTyped
<1>9. \A q \in Router : \A p \in Secret :
        FieldKnows(q, p)' => Knows(q, p) \/ WillSuit(q, p)
  <2>1. \A q \in Router : \/ device'[q].password = device[q].password
                          \/ q = d /\ device'[q].password = w
    BY <1>5, FieldIs DEF Device
  <2> QED BY <1>6, <1>7, <2>1 DEF FieldKnows, Knows
<1>10. /\ GoodIn(c, vpn, keys, passwords)
       /\ \A q \in Router : \A p \in Secret : CallKnows(c, q, p) => Knows(q, p)
  <2>1. "verify" \in Pcs /\ {"set", "verify"} \subseteq WithRow \cap WithPassword
    BY DEF Pcs, WithRow, WithPassword
  <2> QED BY <1>1, <2>1, GotoIs
<1>11. /\ GoodIn(Idle, vpn, keys, passwords)
       /\ \A q \in Router : \A p \in Secret : ~CallKnows(Idle, q, p)
  BY <1>1, IdleIs, FieldIs
<1> HIDE DEF c, r, w
<1>12. /\ call' = [t \in Slot |-> call'[t]] /\ up' \in BOOLEAN
       /\ \A t \in Slot : call'[t] = call[t] \/ call'[t] = c \/ call'[t] = Idle
       /\ keys' \in keys..MaxKeys
  BY <1>7, FieldIs
<1> QED BY <1>7, <1>8, <1>9, <1>10, <1>11, <1>12, FieldChanged

LEMMA StepRotate ==
  ASSUME Inv, NEW s \in Slot, NEW r \in Router, Rotate(s, r)
  PROVE  Inv'
<1> DEFINE w == passwords + 1
           c == [pc |-> "set", router |-> r, id |-> First(r),
                 copy |-> IF First(r) = 0 THEN NoCopy ELSE vpn[First(r)],
                 value |-> passwords', todo |-> {}]
<1>0. /\ Grow /\ owner' \in Seq(Router) /\ passwords' = passwords + 1 /\ WillSuit(r, w)
      /\ mixed' = mixed
  BY Fresh DEF Rotate
<1>1. /\ passwords' = w /\ w \in Nat /\ w <= MaxPasswords /\ w # 0
      /\ passwords' \in passwords..MaxPasswords /\ passwords <= passwords'
      /\ UNCHANGED <<site, vpn, route, up, device, script, report, keys>>
      /\ keys' \in keys..MaxKeys /\ keys \in Nat /\ keys' \in Nat /\ keys <= keys'
  BY <1>0, FieldIs DEF Rotate, server
<1>2. w \in Known' /\ w \in 1..(passwords')
  BY <1>1, FieldIs DEF Known
<1>3. /\ call' = [call EXCEPT ![s] = c] /\ handed' = handed
      \/ /\ call' = call /\ handed' = [handed EXCEPT ![r] = @ \cup {w}]
  BY <1>1 DEF Rotate, Start
<1>4. FieldTyped'
  <2>1. /\ 0..keys \subseteq (0..keys)' /\ Known \subseteq Known'
        /\ Device \subseteq Device' /\ Script \subseteq Script'
    BY <1>1, FieldGrows
  <2>2. /\ route' \in [Address -> (0..keys)'] /\ report' \in [Router -> (0..keys)']
        /\ device' \in [Router -> Device'] /\ script' \in [Router -> Script']
        /\ owner' \in Seq(Router) /\ mixed' \in SUBSET Router
    BY <1>0, <1>1, <2>1, FieldIs
  <2>3. handed' \in [Router -> SUBSET (Known' \ {0})]
    <3>1. Known \ {0} \subseteq Known' \ {0} /\ w \in Known' \ {0}
      BY <1>1, <1>2, <2>1
    <3>2. handed \in [Router -> SUBSET (Known \ {0})]
      BY FieldIs
    <3> QED BY <1>3, <3>1, <3>2
  <2> QED BY <2>2, <2>3 DEF FieldTyped
<1>5. \A q \in Router : \A p \in Secret :
        FieldKnows(q, p)' => Knows(q, p) \/ WillSuit(q, p)
  <2>1. \A q \in Router : handed'[q] = handed[q]
                          \/ (q = r /\ handed'[q] = handed[q] \cup {w})
    BY <1>3, FieldIs
  <2> QED BY <1>0, <1>1, <2>1 DEF FieldKnows, Knows
<1>6. /\ First(r) \in DOMAIN vpn /\ First(r) # 0 /\ First(r) \in 0..Len(vpn)
      /\ vpn[First(r)].router = r /\ vpn[First(r)] \in Row
      /\ vpn[First(r)].key <= keys /\ vpn[First(r)].password <= passwords
      /\ vpn[First(r)].password \in Nat
  BY FirstIs, RowIs DEF Rotate, Inv, Typed, RowsTyped
<1>7. /\ c.pc = "set" /\ c.router = r /\ c.id = First(r) /\ c.copy = vpn[First(r)]
      /\ c.value = w /\ c \in CallIn(vpn, keys')
  BY <1>1, <1>6 DEF CallIn, Pcs
<1> HIDE DEF c
<1>8. GoodIn(c, vpn, keys', passwords')
  <2>1. vpn[First(r)].key <= keys' /\ vpn[First(r)].password <= passwords'
    BY <1>1, <1>6, FieldIs
  <2> QED BY <1>1, <1>2, <1>6, <1>7, <2>1 DEF GoodIn
<1>9. \A q \in Router : \A p \in Secret :
        CallKnows(c, q, p) => Knows(q, p) \/ WillSuit(q, p)
  BY <1>0, <1>6, <1>7 DEF CallKnows, Knows, RowKnows
<1>10. /\ call' = [t \in Slot |-> call'[t]] /\ up' \in BOOLEAN
       /\ \A t \in Slot : call'[t] = call[t] \/ call'[t] = c
  BY <1>1, <1>3, FieldIs
<1>11. \A t \in Slot : call'[t] = call[t] \/ GoodIn(call'[t], vpn, keys', passwords')
  BY <1>8, <1>10
<1>12. \A t \in Slot : \A q \in Router : \A p \in Secret :
         CallKnows(call'[t], q, p) => Knows(q, p) \/ WillSuit(q, p)
  BY <1>9, <1>10 DEF Knows
<1> QED BY <1>0, <1>1, <1>4, <1>5, <1>10, <1>11, <1>12, RowsKept

(* A confirmed password suits its router, or mixes it up with another. *)
LEMMA StepConfirmRotation ==
  ASSUME Inv, NEW s \in Slot, NEW r \in Router, NEW w \in 1..MaxPasswords,
         ConfirmRotation(s, r, w)
  PROVE  Inv'
<1> DEFINE c == [pc |-> "confirm", router |-> r, id |-> 0, copy |-> NoCopy,
                 value |-> w, todo |-> {}]
<1>1. /\ call' = [call EXCEPT ![s] = c]
      /\ UNCHANGED <<site, vpn, route, up, device, script, report, handed, keys>>
      /\ mixed' = IF owner'[w] = r THEN mixed ELSE mixed \cup {r, owner'[w]}
  BY DEF ConfirmRotation, Start, server
<1>2. /\ Grow /\ owner' \in Seq(Router) /\ passwords \in Nat /\ w \in 1..(passwords')
      /\ passwords' \in passwords..MaxPasswords
  <2>0. passwords \in 0..MaxPasswords /\ owner \in Seq(Router) /\ mixed \subseteq mixed'
    BY <1>1, FieldIs
  <2>1. CASE w \in 1..passwords /\ owner' = owner
    <3>1. passwords' = passwords
      BY <2>1 DEF passwords
    <3>2. Grow
      BY <2>0, <2>1, <3>1 DEF Grow, Suits, WillSuit
    <3> QED BY <2>0, <2>1, <3>1, <3>2
  <2>2. CASE w = passwords + 1 /\ w <= MaxPasswords /\ owner' = Append(owner, r)
    <3>1. /\ Grow /\ owner' \in Seq(Router) /\ passwords' = passwords + 1
      BY <2>0, <2>2, Fresh
    <3> QED BY <2>0, <2>2, <3>1
  <2> QED BY <2>1, <2>2 DEF ConfirmRotation
<1>3. owner'[w] \in Router /\ mixed' \in SUBSET Router /\ WillSuit(r, w)
  <2>1. DOMAIN owner' = 1..(passwords')
    BY <1>2 DEF passwords
  <2>2. owner'[w] \in Router
    BY <1>2, <2>1
  <2>3. mixed' \in SUBSET Router /\ (owner'[w] = r \/ {r, owner'[w]} \subseteq mixed')
    BY <1>1, <2>2, FieldIs
  <2> QED BY <1>2, <2>2, <2>3 DEF WillSuit
<1>4. FieldTyped'
  <2>1. keys' \in Nat /\ keys <= keys' /\ passwords' \in Nat /\ passwords <= passwords'
    BY <1>1, <1>2, FieldIs
  <2>2. Known \subseteq Known' /\ Device \subseteq Device' /\ Script \subseteq Script'
    BY <2>1, FieldGrows
  <2>3. /\ route' \in [Address -> 0..(keys')] /\ report' \in [Router -> 0..(keys')]
        /\ device' \in [Router -> Device'] /\ script' \in [Router -> Script']
    BY <1>1, <2>2, FieldIs
  <2>4. handed' \in [Router -> SUBSET (Known' \ {0})]
    BY <1>1, <2>2, FieldIs
  <2> QED BY <1>2, <1>3, <2>3, <2>4 DEF FieldTyped
<1>5. /\ vpn \in Seq(Row) /\ keys' = keys /\ keys \in Nat /\ keys' \in keys..MaxKeys
  BY <1>1, FieldIs DEF Inv, Typed, RowsTyped
<1>6. c \in CallIn(vpn, keys') /\ GoodIn(c, vpn, keys', passwords')
  <2>1. c \in CallIn(vpn, keys')
    BY <1>2, <1>5 DEF CallIn, Pcs
  <2> QED BY <1>2, <1>5, <2>1 DEF GoodIn, NoCopy, WithRow, WithPassword
<1>7. \A q \in Router : \A p \in Secret : CallKnows(c, q, p) => WillSuit(q, p)
  BY <1>3 DEF CallKnows, NoCopy, Secret
<1>8. \A q \in Router : \A p \in Secret : FieldKnows(q, p)' => Knows(q, p)
  BY <1>1 DEF FieldKnows, Knows
<1> HIDE DEF c
<1>9. /\ call' = [t \in Slot |-> call'[t]] /\ up' \in BOOLEAN
      /\ \A t \in Slot : call'[t] = call[t] \/ call'[t] = c
  BY <1>1, FieldIs
<1>10. \A t \in Slot : call'[t] = call[t] \/ GoodIn(call'[t], vpn, keys', passwords')
  BY <1>6, <1>9
<1>11. \A t \in Slot : \A q \in Router : \A p \in Secret :
         CallKnows(call'[t], q, p) => Knows(q, p) \/ WillSuit(q, p)
  BY <1>7, <1>9 DEF Knows
<1> QED BY <1>1, <1>2, <1>4, <1>5, <1>8, <1>9, <1>10, <1>11, RowsKept

-----------------------------------------------------------------------------
(* The invariant holds at first, when there is no password yet... *)
LEMMA InvInit ==
  ASSUME Init
  PROVE  Inv
<1>1. /\ keys = Len(Early) /\ passwords = 0 /\ keys \in Nat /\ passwords \in Nat
      /\ keys \in 0..MaxKeys /\ passwords \in 0..MaxPasswords
      /\ DOMAIN Early = 1..Len(Early) /\ DOMAIN Early \subseteq Address
      /\ \A i \in DOMAIN Early : Early[i] \in Router
  <2>1. keys = Len(Early) /\ passwords = 0
    BY DEF Init, passwords
  <2>2. Early \in Seq(Router) /\ Len(Early) \in Nat
    OBVIOUS
  <2>3. keys \in 0..MaxKeys /\ passwords \in 0..MaxPasswords /\ keys \in Nat
    BY <2>1, <2>2
  <2>4. DOMAIN Early = 1..Len(Early) /\ \A i \in DOMAIN Early : Early[i] \in Router
    BY <2>2
  <2> QED BY <2>1, <2>3, <2>4
<1>2. site \in [Router -> {"none", "live", "gone"}] /\ up \in BOOLEAN
  <2>1. PICK B \in SUBSET Bare :
          site = [r \in Router |-> IF r \in B \/ Begun(r) THEN "live" ELSE "none"]
    BY DEF Init
  <2>2. up \in BOOLEAN
    BY DEF Init
  <2> QED BY <2>1, <2>2
<1>3. \A i \in DOMAIN Early :
        /\ vpn[i] \in Row /\ vpn[i].key = i /\ vpn[i].password = 0
  <2> TAKE i \in DOMAIN Early
  <2> DEFINE f == FreshRow(Early[i], i, 0)
  <2>1. f \in Row /\ f.password = 0
    BY <1>1 DEF FreshRow, Row
  <2>2. \A row \in Row : \A k \in Nat :
          LET w == [row EXCEPT !.connected = TRUE, !.key = k] IN
          w \in Row /\ w.key = k /\ w.password = row.password
    BY DEF Row
  <2>3. vpn[i] = [f EXCEPT !.connected = TRUE, !.key = i]
    BY DEF Init
  <2>4. i \in Nat
    BY <1>1
  <2> HIDE DEF f
  <2>5. LET w == [f EXCEPT !.connected = TRUE, !.key = i] IN
        w \in Row /\ w.key = i /\ w.password = f.password
    BY <2>1, <2>2, <2>4
  <2> QED BY <2>1, <2>3, <2>5
<1>4. vpn \in Seq(Row) /\ DOMAIN vpn = 1..Len(Early) /\ Len(vpn) = Len(Early)
  <2>1. vpn = [i \in 1..Len(Early) |-> vpn[i]]
    BY <1>1 DEF Init
  <2>2. vpn \in [1..Len(Early) -> Row]
    BY <1>1, <1>3, <2>1
  <2> QED BY <1>1, <2>2
<1>5. RowsTyped
  BY <1>1, <1>3, <1>4 DEF RowsTyped
<1>6. \A r \in Router : device[r] \in Device /\ device[r].password = 0
  <2> TAKE r \in Router
  <2>1. CASE ~Begun(r)
    <3>1. device[r] = [key |-> 0, address |-> 0, password |-> 0]
      BY <2>1 DEF Init, Nobody
    <3>2. 0 \in 0..keys
      BY <1>1
    <3> QED BY <1>1, <3>1, <3>2 DEF Device, Known
  <2>2. CASE Begun(r)
    <3> DEFINE i == CHOOSE i \in DOMAIN Early : Early[i] = r
    <3>1. i \in DOMAIN Early
      BY <2>2 DEF Begun
    <3>2. i \in 0..keys /\ i \in Address
      BY <1>1, <3>1
    <3>3. device[r] = [key |-> i, address |-> i, password |-> 0]
      BY <2>2 DEF Init
    <3> HIDE DEF i
    <3> QED BY <1>1, <3>2, <3>3 DEF Device, Known
  <2> QED BY <2>1, <2>2
<1>7. FieldTyped
  <2>1. route \in [Address -> 0..keys] /\ report \in [Router -> 0..keys]
    <3>1. /\ route = [a \in Address |-> IF a \in DOMAIN Early THEN a ELSE 0]
          /\ report = [r \in Router |-> 0]
      BY DEF Init
    <3>2. 0 \in 0..keys /\ \A a \in DOMAIN Early : a \in 0..keys
      BY <1>1
    <3> QED BY <3>1, <3>2
  <2>2. device \in [Router -> Device] /\ script \in [Router -> Script]
    BY <1>6 DEF Init, Script
  <2>3. /\ handed \in [Router -> SUBSET (Known \ {0})]
        /\ owner \in Seq(Router) /\ mixed \in SUBSET Router
    <3>1. handed = [r \in Router |-> {}] /\ owner = <<>> /\ mixed = {}
      BY DEF Init
    <3> QED BY <3>1
  <2> QED BY <2>1, <2>2, <2>3 DEF FieldTyped
<1>8. /\ GoodIn(Idle, vpn, keys, passwords) /\ Idle \in Call
      /\ \A r \in Router : \A p \in Secret : ~CallKnows(Idle, r, p)
  BY <1>1, <1>4, IdleIs DEF GoodIn, CallIn, Call, Peer
<1>9. call = [s \in Slot |-> Idle]
  BY DEF Init
<1>10. Typed
  BY <1>1, <1>2, <1>5, <1>7, <1>8, <1>9 DEF Typed
<1>11. \A r \in Router : \A p \in Secret : ~Knows(r, p)
  <2> SUFFICES ASSUME NEW r \in Router, NEW p \in Secret PROVE ~Knows(r, p)
    OBVIOUS
  <2>1. ~FieldKnows(r, p)
    BY <1>6 DEF FieldKnows, Init, Nobody, Secret
  <2>2. ~RowKnows(r, p)
    BY <1>1, <1>3, <1>4 DEF RowKnows, Secret
  <2> QED BY <1>8, <1>9, <2>1, <2>2 DEF Knows
<1> QED BY <1>8, <1>9, <1>10, <1>11 DEF Inv, Apart

(* ... every step keeps it... *)
LEMMA InvStep ==
  ASSUME Inv, [Next]_fvars
  PROVE  Inv'
<1>1. ASSUME NEW s \in Slot, Open(s) PROVE Inv'
  <2>1. CASE Rehydrate(s)
    BY <2>1, StepRehydrate
  <2>2. ASSUME NEW r \in Router,
               \/ CreateRouter(s, r) \/ CheckStatus(s, r) \/ FetchScript(s, r)
               \/ Report(s, r) \/ Delete(s, r) \/ Rotate(s, r)
               \/ \E p \in 1..MaxPasswords : ConfirmRotation(s, r, p)
        PROVE  Inv'
    BY <2>2, StepCreateRouter, StepCheckStatus, StepFetchScript, StepReport,
       StepDelete, StepRotate, StepConfirmRotation
  <2> QED BY <1>1, <2>1, <2>2 DEF Open
<1>2. ASSUME NEW s \in Slot, Step(s) PROVE Inv'
  <2>1. ASSUME NEW peer \in call[s].todo, Push(s, peer) \/ SkipPeer(s, peer)
        PROVE  Inv'
    BY <2>1, StepPushing DEF Push, SkipPeer
  <2>2. CASE \/ PickAddress(s) \/ InsertVPN(s) \/ Upgrade(s) \/ SendScript(s)
             \/ AddPeer(s) \/ Connect(s) \/ DeleteRows(s)
             \/ SetPassword(s) \/ Verify(s) \/ Confirm(s) \/ Store(s)
    BY <2>2, StepPickAddress, StepInsertVPN, StepUpgrade, StepSendScript, StepAddPeer,
       StepConnect, StepDeleteRows, StepSetPassword, StepVerify, StepConfirm, StepStore
  <2> QED BY <1>2, <2>1, <2>2 DEF Step
<1>3. ASSUME NEW s \in Slot, Restart(s) \/ Die(s) PROVE Inv'
  BY <1>3, StepRestart, StepDie
<1>4. ASSUME NEW r \in Router, Field(r) PROVE Inv'
  BY <1>4, StepImport, StepLoseMessage, StepApplyByHand DEF Field
<1>5. CASE UNCHANGED fvars
  <2>1. /\ call' = [t \in Slot |-> call'[t]] /\ up' \in BOOLEAN
        /\ route' \in [Address -> 0..keys] /\ report' \in [Router -> 0..keys]
    <3>1. call' = call /\ up' = up /\ route' = route /\ report' = report
      BY <1>5 DEF fvars
    <3>2. call = [t \in Slot |-> call[t]]
      BY FieldIs
    <3> QED BY <3>1, <3>2, FieldIs
  <2>2. /\ UNCHANGED <<site, vpn, device, script, handed, keys, owner, mixed>>
        /\ \A t \in Slot : call'[t] = call[t]
    BY <1>5 DEF fvars
  <2> QED BY <2>1, <2>2, RoutesChanged
<1> QED BY <1>1, <1>2, <1>3, <1>4, <1>5 DEF Next

(* ... so it always holds. *)
LEMMA InvAlways == Spec => []Inv
<1>1. Init => Inv
  BY InvInit
<1>2. Inv /\ [Next]_fvars => Inv'
  BY InvStep
<1> QED BY <1>1, <1>2, PTL DEF Spec

(* The history of a provisioning is one of its four stages. *)
Stages == [Router -> {"none", "begun", "imported", "whole"}]
LEMMA StageIs ==
  ASSUME renewal \in Stages, [Next]_fvars
  PROVE  (renewal \in Stages)'
<1>1. ASSUME NEW s \in Slot, NEW r \in Router, NEW pc, NEW i, NEW value,
             Start(s, pc, r, i, value)
      PROVE  renewal' \in Stages
  BY <1>1 DEF Start, Renewal, Stages
<1>2. ASSUME NEW s \in Slot, Open(s) PROVE renewal' \in Stages
  BY <1>1, <1>2 DEF Open, CreateRouter, CheckStatus, FetchScript, Report, Delete, Rotate,
     ConfirmRotation, Rehydrate, Stages
<1>3. ASSUME NEW s \in Slot, Step(s) PROVE renewal' \in Stages
  BY <1>3 DEF Step, PickAddress, InsertVPN, Upgrade, SendScript, AddPeer, Connect, DeleteRows,
     Push, SkipPeer, Pushing, SetPassword, Verify, Confirm, Store, Stages
<1>4. ASSUME NEW s \in Slot, Restart(s) \/ Die(s) PROVE renewal' \in Stages
  BY <1>4 DEF Restart, Die
<1>5. ASSUME NEW r \in Router, Field(r) PROVE renewal' \in Stages
  BY <1>5 DEF Field, Import, LoseMessage, ApplyByHand, Stages
<1>6. CASE UNCHANGED fvars
  BY <1>6 DEF fvars
<1> QED BY <1>2, <1>3, <1>4, <1>5, <1>6 DEF Next

LEMMA StagesAlways == Spec => [](renewal \in Stages)
<1>1. Init => renewal \in Stages
  BY DEF Init, Stages
<1>2. renewal \in Stages /\ [Next]_fvars => (renewal \in Stages)'
  BY StageIs
<1> QED BY <1>1, <1>2, PTL DEF Spec

(* Rows, requests, scripts and devices keep their types through every      *)
(* interleaving of creations, bootstraps, deletions, restarts and          *)
(* rotations, and no key or password is used that did not come up.         *)
THEOREM FleetTypeCorrect == Spec => []FTypeOK
<1>1. Inv /\ renewal \in Stages => FTypeOK
  BY DEF Inv, Stages, FTypeOK
<1> QED BY <1>1, InvAlways, StagesAlways, PTL

(* However addresses are reused, shared or moved by late pushes, no device *)
(* but the row's own executes a command sent to a row's address with the   *)
(* row's password, as long as no password of one of the two was confirmed  *)
(* for another router.                                                     *)
THEOREM CommandsReachOwnDevice == Spec => []OwnDevice
<1>1. Inv => OwnDevice
  BY AnswersOwn DEF OwnDevice
<1> QED BY <1>1, InvAlways, PTL

-----------------------------------------------------------------------------
(* Provisioning again repairs a router.  While a provisioning of router r  *)
(* is undisturbed, the one request about it works on the row as it is...   *)
OneRequest(r) ==
  \A s \in Slot : call[s].router = r =>
    /\ \A t \in Slot : call[t].router = r => t = s
    /\ call[s].id = First(r) /\ call[s].copy = vpn[First(r)]
    /\ script[r] = Nobody /\ report[r] = 0
    /\ \/ renewal[r] = "begun" /\ call[s].pc = "script"
       \/ /\ renewal[r] = "imported" /\ call[s].pc \in {"peer", "connect"}
          /\ call[s].value = device[r].key

(* ... a script says what the row says, ... *)
ScriptFits(r) ==
  renewal[r] = "begun" =>
    /\ report[r] = 0
    /\ script[r] # Nobody => /\ script[r].address = vpn[First(r)].address
                             /\ script[r].password = vpn[First(r)].password

(* ... and so does the device, once it has imported the script. *)
DeviceFits(r) ==
  renewal[r] \in {"imported", "whole"} =>
    /\ script[r] = Nobody /\ report[r] \in {0, device[r].key}
    /\ device[r].address = vpn[First(r)].address
    /\ r \notin mixed => device[r].password = vpn[First(r)].password
KeyFits(r) ==
  renewal[r] = "whole" =>
    /\ report[r] = 0
    /\ vpn[First(r)].connected /\ vpn[First(r)].key = device[r].key

Renewing(r) ==
  renewal[r] # "none" =>
    LiveIds(r) # {} /\ OneRequest(r) /\ ScriptFits(r) /\ DeviceFits(r) /\ KeyFits(r)

(* The row a read takes is live, and the same as long as the rows of its   *)
(* router are.                                                             *)
LEMMA FirstIsLive ==
  ASSUME Inv, NEW r \in Router, LiveIds(r) # {}
  PROVE  First(r) \in LiveIds(r)
<1>1. LiveIds(r) \subseteq DOMAIN vpn /\ DOMAIN vpn \subseteq Nat
  BY DEF Inv, Typed, RowsTyped, LiveIds
<1> QED BY <1>1, LeastIs DEF First

LEMMA SameRows ==
  ASSUME Inv, NEW r \in Router, LiveIds(r)' = LiveIds(r),
         \A i \in LiveIds(r) : vpn'[i] = vpn[i]
  PROVE  LiveIds(r) # {} => First(r)' = First(r) /\ vpn'[First(r)] = vpn[First(r)]
<1>1. First(r)' = First(r)
  BY DEF First
<1> QED BY <1>1, FirstIsLive

(* A step that does not touch a router keeps its provisioning. *)
LEMMA Untouched ==
  ASSUME Inv, NEW r \in Router, Renewing(r), renewal'[r] = renewal[r],
         mixed \subseteq mixed',
         script'[r] \in {Nobody, script[r]}, report'[r] \in {0, report[r]},
         device'[r].key = device[r].key, device'[r].address = device[r].address,
         device'[r].password = device[r].password \/ r \in mixed,
         LiveIds(r)' = LiveIds(r), \A i \in LiveIds(r) : vpn'[i] = vpn[i],
         \A t \in Slot : call'[t].router = r => call'[t] = call[t]
  PROVE  Renewing(r)'
<1> SUFFICES ASSUME renewal[r] # "none" PROVE Renewing(r)'
  BY DEF Renewing
<1>1. /\ LiveIds(r) # {} /\ OneRequest(r) /\ ScriptFits(r) /\ DeviceFits(r) /\ KeyFits(r)
  BY DEF Renewing
<1>2. First(r)' = First(r) /\ vpn'[First(r)'] = vpn[First(r)]
  BY <1>1, SameRows
<1>3. OneRequest(r)'
  BY <1>1, <1>2 DEF OneRequest
<1>4. ScriptFits(r)' /\ KeyFits(r)'
  BY <1>1, <1>2 DEF ScriptFits, KeyFits
<1>5. DeviceFits(r)'
  BY <1>1, <1>2 DEF DeviceFits
<1> QED BY <1>1, <1>3, <1>4, <1>5 DEF Renewing

(* A request about another router does not touch it... *)
LEMMA OtherRequest ==
  ASSUME Inv, NEW r \in Router, Renewing(r), NEW s \in Slot, NEW c,
         call' = [call EXCEPT ![s] = c], c.router # r,
         renewal'[r] = renewal[r], mixed \subseteq mixed', script'[r] = script[r],
         report'[r] = report[r], UNCHANGED device,
         LiveIds(r)' = LiveIds(r), \A i \in LiveIds(r) : vpn'[i] = vpn[i]
  PROVE  Renewing(r)'
<1>1. \A t \in Slot : call'[t].router = r => call'[t] = call[t]
  BY FieldIs
<1> QED BY <1>1, Untouched

(* ... and starts no less apart from it. *)
LEMMA OpenElse ==
  ASSUME Inv, NEW r \in Router, Renewing(r), renewal \in Stages,
         NEW s \in Slot, NEW q \in Router, q # r,
         \/ CreateRouter(s, q) \/ CheckStatus(s, q) \/ FetchScript(s, q)
         \/ Report(s, q) \/ Delete(s, q) \/ Rotate(s, q)
         \/ \E p \in 1..MaxPasswords : ConfirmRotation(s, q, p)
  PROVE  Renewing(r)'
<1>1. /\ renewal'[r] = renewal[r] /\ script' = script /\ device' = device /\ vpn' = vpn
      /\ mixed \subseteq mixed'
  BY DEF CreateRouter, CheckStatus, FetchScript, Report, Delete, Rotate, ConfirmRotation,
     Start, server, field, Stages
<1>2. report'[r] = report[r]
  <2>1. report' = report \/ report' = [report EXCEPT ![q] = 0]
    BY DEF CreateRouter, CheckStatus, FetchScript, Report, Delete, Rotate, ConfirmRotation,
       field
  <2> QED BY <2>1, FieldIs
<1>3. LiveIds(r)' = LiveIds(r)
  BY <1>1 DEF LiveIds
<1>4. CASE \E pc, i, value : Start(s, pc, q, i, value)
  <2>1. PICK pc, i, value : Start(s, pc, q, i, value)
    BY <1>4
  <2> DEFINE c == [pc |-> pc, router |-> q, id |-> i,
                   copy |-> IF i = 0 THEN NoCopy ELSE vpn[i],
                   value |-> value, todo |-> {}]
  <2>2. call' = [call EXCEPT ![s] = c] /\ c.router # r
    BY <2>1 DEF Start
  <2> HIDE DEF c
  <2> QED BY <1>1, <1>2, <1>3, <2>2, OtherRequest
<1>5. CASE UNCHANGED call
  BY <1>1, <1>2, <1>3, <1>5, Untouched
<1> QED BY <1>4, <1>5 DEF CreateRouter, CheckStatus, FetchScript, Report, Delete, Rotate,
     ConfirmRotation

(* A request about a router that is not a report disturbs it, unless it is *)
(* the script that is fetched while nothing is under way...                *)
LEMMA OpenOwn ==
  ASSUME Inv, NEW r \in Router, renewal \in Stages, NEW s \in Slot,
         \/ CreateRouter(s, r) \/ CheckStatus(s, r) \/ Delete(s, r) \/ Rotate(s, r)
         \/ \E p \in 1..MaxPasswords : ConfirmRotation(s, r, p)
  PROVE  Renewing(r)'
<1>1. renewal'[r] = "none"
  BY DEF CreateRouter, CheckStatus, Delete, Rotate, ConfirmRotation, Start, Renewal, Stages
<1> QED BY <1>1 DEF Renewing

LEMMA FetchOwn ==
  ASSUME Inv, NEW r \in Router, renewal \in Stages, NEW s \in Slot, FetchScript(s, r)
  PROVE  Renewing(r)'
<1>1. CASE UnderWay(r)
  <2>1. renewal'[r] = "none"
    BY <1>1 DEF FetchScript, Start, Renewal, Stages
  <2> QED BY <2>1 DEF Renewing
<1>2. CASE ~UnderWay(r)
  <2>1. /\ LiveIds(r) # {} /\ UNCHANGED <<server, field>> /\ renewal'[r] = "begun"
        /\ Start(s, "script", r, First(r), 0)
    BY <1>2 DEF FetchScript, Start, Renewal, Stages
  <2>2. First(r) # 0 /\ vpn' = vpn /\ script' = script /\ report' = report
    BY <2>1, FirstIs DEF server, field
  <2>3. LiveIds(r)' = LiveIds(r) /\ First(r)' = First(r)
    BY <2>2 DEF LiveIds, First
  <2>4. script[r] = Nobody /\ report[r] = 0 /\ \A t \in Slot : call[t].router # r
    BY <1>2 DEF UnderWay
  <2>5. /\ call'[s].router = r /\ call'[s].pc = "script"
        /\ call'[s].id = First(r) /\ call'[s].copy = vpn[First(r)]
        /\ \A t \in Slot : t # s => call'[t] = call[t]
    BY <2>1, <2>2, FieldIs DEF Start
  <2>6. OneRequest(r)'
    BY <2>1, <2>2, <2>3, <2>4, <2>5 DEF OneRequest
  <2>7. ScriptFits(r)' /\ DeviceFits(r)' /\ KeyFits(r)'
    BY <2>1, <2>2, <2>4 DEF ScriptFits, DeviceFits, KeyFits
  <2> QED BY <2>1, <2>3, <2>6, <2>7 DEF Renewing
<1> QED BY <1>1, <1>2

(* ... and a report carries the key that was imported last. *)
LEMMA ReportOwn ==
  ASSUME Inv, NEW r \in Router, Renewing(r), renewal \in Stages, NEW s \in Slot,
         Report(s, r)
  PROVE  Renewing(r)'
<1>1. /\ LiveIds(r) # {} /\ report[r] # 0 /\ renewal'[r] = renewal[r]
      /\ Start(s, "peer", r, First(r), report[r]) /\ report' = [report EXCEPT ![r] = 0]
      /\ UNCHANGED <<server, device, script, mixed>>
  BY DEF Report, Start, Renewal, Stages
<1> SUFFICES ASSUME renewal[r] # "none" PROVE Renewing(r)'
  BY <1>1 DEF Renewing
<1>2. OneRequest(r) /\ ScriptFits(r) /\ DeviceFits(r) /\ KeyFits(r)
  BY DEF Renewing
<1>3. renewal[r] = "imported" /\ \A t \in Slot : call[t].router # r
  BY <1>1, <1>2 DEF OneRequest, ScriptFits, KeyFits, Stages
<1>4. /\ First(r) # 0 /\ vpn' = vpn /\ report'[r] = 0
      /\ report[r] = device[r].key /\ script[r] = Nobody
  BY <1>1, <1>2, <1>3, FirstIs, FieldIs DEF server, DeviceFits
<1>5. LiveIds(r)' = LiveIds(r) /\ First(r)' = First(r)
  BY <1>4 DEF LiveIds, First
<1>6. /\ call'[s].router = r /\ call'[s].pc = "peer" /\ call'[s].value = device[r].key
      /\ call'[s].id = First(r) /\ call'[s].copy = vpn[First(r)]
      /\ \A t \in Slot : t # s => call'[t] = call[t]
  BY <1>1, <1>4, FieldIs DEF Start
<1>7. OneRequest(r)'
  BY <1>1, <1>3, <1>4, <1>5, <1>6 DEF OneRequest
<1>8. ScriptFits(r)' /\ DeviceFits(r)' /\ KeyFits(r)'
  BY <1>1, <1>2, <1>3, <1>4, <1>5 DEF ScriptFits, DeviceFits, KeyFits
<1> QED BY <1>1, <1>5, <1>7, <1>8 DEF Renewing

LEMMA OpenRenewing ==
  ASSUME Inv, NEW r \in Router, Renewing(r), renewal \in Stages, NEW s \in Slot, Open(s)
  PROVE  Renewing(r)'
<1>1. CASE Rehydrate(s)
  <2>1. /\ UNCHANGED <<server, field, renewal>> /\ call' = [call EXCEPT ![s] = Rehydration]
        /\ Rehydration.router # r
    BY <1>1 DEF Rehydrate, Rehydration, Idle
  <2>2. LiveIds(r)' = LiveIds(r) /\ vpn' = vpn
    BY <2>1 DEF LiveIds, server
  <2> QED BY <2>1, <2>2, OtherRequest DEF field
<1>2. ASSUME NEW q \in Router,
             \/ CreateRouter(s, q) \/ CheckStatus(s, q) \/ FetchScript(s, q)
             \/ Report(s, q) \/ Delete(s, q) \/ Rotate(s, q)
             \/ \E p \in 1..MaxPasswords : ConfirmRotation(s, q, p)
      PROVE  Renewing(r)'
  <2>1. CASE q # r
    BY <1>2, <2>1, OpenElse
  <2>2. CASE q = r
    BY <1>2, <2>2, OpenOwn, FetchOwn, ReportOwn
  <2> QED BY <2>1, <2>2
<1> QED BY <1>1, <1>2 DEF Open

(* A request that goes on stays with its router, or ends. *)
LEMMA StepMoves ==
  ASSUME Inv, NEW s \in Slot, Step(s)
  PROVE  /\ call' = [call EXCEPT ![s] = call'[s]]
         /\ call'[s].router \in {call[s].router, NoRouter}
<1> DEFINE Moved == /\ call' = [call EXCEPT ![s] = call'[s]]
                    /\ call'[s].router \in {call[s].router, NoRouter}
<1>1. call \in [Slot -> Call] /\ call[s] \in Call
  BY FieldIs
<1>2. End(s) => Moved
  BY <1>1 DEF End, Idle
<1>3. \A pc : Goto(s, pc) => Moved
  BY <1>1 DEF Goto, Call
<1>4. CASE PickAddress(s)
  BY <1>1, <1>2, <1>4 DEF PickAddress, Call
<1>5. CASE InsertVPN(s) \/ SendScript(s) \/ Connect(s) \/ DeleteRows(s) \/ Store(s)
  BY <1>2, <1>5 DEF InsertVPN, SendScript, Connect, DeleteRows, Store
<1>6. CASE AddPeer(s) \/ SetPassword(s) \/ Verify(s)
  BY <1>2, <1>3, <1>6 DEF AddPeer, SetPassword, Verify
<1>7. CASE Upgrade(s)
  BY <1>1, <1>7 DEF Upgrade, Call
<1>8. CASE Confirm(s)
  BY <1>1, <1>2, <1>8 DEF Confirm, Call
<1>9. ASSUME NEW peer, Push(s, peer) \/ SkipPeer(s, peer) PROVE Moved
  BY <1>1, <1>9 DEF Push, SkipPeer, Pushing, Call, Idle
<1> QED BY <1>4, <1>5, <1>6, <1>7, <1>8, <1>9 DEF Step

(* The rows of a router stay when only others are written. *)
LEMMA OtherRows ==
  ASSUME Inv, NEW r \in Router, DOMAIN vpn \subseteq DOMAIN vpn',
         \A i \in DOMAIN vpn' :
           IF i \in DOMAIN vpn THEN vpn'[i] = vpn[i] \/ r \notin {vpn[i].router, vpn'[i].router}
           ELSE vpn'[i].router # r
  PROVE  LiveIds(r)' = LiveIds(r) /\ \A i \in LiveIds(r) : vpn'[i] = vpn[i]
BY DEF LiveIds

LEMMA OtherSaved ==
  ASSUME Inv, NEW r \in Router, NEW s \in Slot, NEW copy, SaveRow(s, copy),
         call[s].pc \in WithRow, call[s].router # r, copy.router # r
  PROVE  LiveIds(r)' = LiveIds(r) /\ \A i \in LiveIds(r) : vpn'[i] = vpn[i]
<1>1. vpn[call[s].id].router # r /\ vpn \in Seq(Row)
  BY DEF Inv, Typed, RowsTyped, GoodIn
<1>2. DOMAIN vpn' = DOMAIN vpn
      /\ \A i \in DOMAIN vpn : vpn'[i] = IF i = call[s].id THEN copy ELSE vpn[i]
  BY <1>1 DEF SaveRow
<1> QED BY <1>1, <1>2, OtherRows

(* No step of a request about another router touches this one's rows. *)
LEMMA StepRows ==
  ASSUME Inv, NEW r \in Router, NEW s \in Slot, Step(s), call[s].router # r
  PROVE  LiveIds(r)' = LiveIds(r) /\ \A i \in LiveIds(r) : vpn'[i] = vpn[i]
<1>1. vpn \in Seq(Row) /\ GoodIn(call[s], vpn, keys, passwords) /\ call[s] \in Call
  BY FieldIs DEF Inv, Typed, RowsTyped
<1>2. CASE UNCHANGED vpn
  BY <1>2 DEF LiveIds
<1>3. CASE InsertVPN(s)
  <2>1. PICK row : row.router # r /\ vpn' = Append(vpn, row)
    BY <1>3 DEF InsertVPN, FreshRow
  <2>2. /\ DOMAIN vpn \subseteq DOMAIN vpn'
        /\ \A i \in DOMAIN vpn' : vpn'[i] = IF i \in DOMAIN vpn THEN vpn[i] ELSE row
    BY <1>1, <2>1
  <2> QED BY <2>1, <2>2, OtherRows
<1>4. CASE DeleteRows(s)
  <2>1. /\ DOMAIN vpn' = DOMAIN vpn
        /\ \A i \in DOMAIN vpn : vpn'[i] = IF vpn[i].router = call[s].router
                                           THEN [vpn[i] EXCEPT !.deleted = TRUE] ELSE vpn[i]
    BY <1>4 DEF DeleteRows
  <2>2. \A i \in DOMAIN vpn : vpn[i] \in Row
    BY <1>1
  <2>3. \A i \in DOMAIN vpn : [vpn[i] EXCEPT !.deleted = TRUE].router = vpn[i].router
    BY <2>2 DEF Row
  <2> QED BY <2>1, <2>3, OtherRows
<1>5. CASE Upgrade(s) \/ Connect(s) \/ Store(s)
  <2>1. call[s].pc \in WithRow /\ call[s].copy \in Row /\ call[s].copy.router # r
    BY <1>1, <1>5 DEF Upgrade, Connect, Store, GoodIn, WithRow
  <2>2. CASE Upgrade(s)
    <3>1. SaveRow(s, call'[s].copy) /\ call'[s].copy.router = call[s].copy.router
      BY <1>1, <2>1, <2>2, FieldIs DEF Upgrade, Row, Call
    <3> QED BY <2>1, <3>1, OtherSaved
  <2>3. CASE Connect(s) \/ Store(s)
    <3> DEFINE old == call[s].copy
    <3>1. /\ [old EXCEPT !.key = call[s].value, !.connected = TRUE].router = old.router
          /\ [old EXCEPT !.password = call[s].value].router = old.router
      BY <2>1 DEF Row
    <3>2. \/ SaveRow(s, [old EXCEPT !.key = call[s].value, !.connected = TRUE])
          \/ SaveRow(s, [old EXCEPT !.password = call[s].value])
      BY <2>3 DEF Connect, Store
    <3> QED BY <2>1, <3>1, <3>2, OtherSaved
  <2> QED BY <1>5, <2>2, <2>3
<1>6. ASSUME NEW peer, Push(s, peer) \/ SkipPeer(s, peer) PROVE UNCHANGED vpn
  BY <1>6 DEF Push, SkipPeer, Pushing
<1> QED BY <1>2, <1>3, <1>4, <1>5, <1>6 DEF Step, PickAddress, SendScript, AddPeer,
     SetPassword, Verify, Confirm, server

(* A device that takes a password takes it of its own router's request, or *)
(* the two are mixed up.                                                   *)
LEMMA StepDevices ==
  ASSUME Inv, NEW r \in Router, NEW s \in Slot, Step(s), call[s].router # r
  PROVE  /\ device'[r].key = device[r].key /\ device'[r].address = device[r].address
         /\ device'[r].password = device[r].password \/ r \in mixed
<1> DEFINE q == call[s].router
<1>1. CASE UNCHANGED device
  BY <1>1
<1>2. CASE SetPassword(s)
  <2>1. PICK d \in Answering(vpn[First(q)].address, vpn[First(q)].password) :
             device' = [device EXCEPT ![d].password = call[s].value]
    BY <1>2 DEF SetPassword
  <2>2. q \in Router /\ LiveIds(q) # {}
    BY <1>2 DEF SetPassword, Connected, Inv, GoodIn
  <2>3. First(q) \in DOMAIN vpn /\ vpn[First(q)].router = q
    BY <2>2, FirstIs
  <2>4. d \in Router /\ (d = q \/ {d, q} \subseteq mixed)
    BY <2>1, <2>3, AnswersOwn
  <2>5. device \in [Router -> Device] /\ device[r] \in Device
    BY FieldIs
  <2> HIDE DEF q
  <2>6. CASE d = r
    BY <2>1, <2>4, <2>5, <2>6 DEF q, Device
  <2>7. CASE d # r
    BY <2>1, <2>5, <2>7
  <2> QED BY <2>6, <2>7
<1>3. ASSUME NEW peer, Push(s, peer) \/ SkipPeer(s, peer) PROVE UNCHANGED device
  BY <1>3 DEF Push, SkipPeer, Pushing, field
<1> QED BY <1>1, <1>2, <1>3 DEF Step, PickAddress, InsertVPN, Upgrade, SendScript, AddPeer,
     Connect, DeleteRows, Verify, Confirm, Store, field

LEMMA StepElse ==
  ASSUME Inv, NEW r \in Router, Renewing(r), renewal \in Stages, NEW s \in Slot, Step(s),
         call[s].router # r
  PROVE  Renewing(r)'
<1>1. \A t \in Slot : call'[t].router = r => call'[t] = call[t]
  BY StepMoves, FieldIs
<1>2. LiveIds(r)' = LiveIds(r) /\ \A i \in LiveIds(r) : vpn'[i] = vpn[i]
  BY StepRows
<1>3. /\ renewal'[r] = renewal[r] /\ script'[r] = script[r]
      /\ report' = report /\ mixed' = mixed
  <2>1. script \in [Router -> Script]
    BY FieldIs
  <2>2. ASSUME NEW peer, Push(s, peer) \/ SkipPeer(s, peer)
        PROVE  UNCHANGED <<renewal, script, report, mixed>>
    BY <2>2 DEF Push, SkipPeer, Pushing, field
  <2>3. CASE SendScript(s) \/ Connect(s)
    BY <2>1, <2>3 DEF SendScript, Connect, Stages, field
  <2> QED BY <2>2, <2>3 DEF Step, PickAddress, InsertVPN, Upgrade, AddPeer, DeleteRows,
       SetPassword, Verify, Confirm, Store, field
<1> QED BY <1>1, <1>2, <1>3, StepDevices, Untouched

(* The request of an undisturbed provisioning works on a live row, so what *)
(* it saves is what a read takes next.                                     *)
LEMMA OwnSaved ==
  ASSUME Inv, NEW r \in Router, LiveIds(r) # {}, NEW s \in Slot, NEW copy,
         call[s].id = First(r), SaveRow(s, copy), copy.router = r, ~copy.deleted
  PROVE  LiveIds(r)' = LiveIds(r) /\ First(r)' = First(r) /\ vpn'[First(r)] = copy
<1>1. First(r) \in LiveIds(r) /\ First(r) \in DOMAIN vpn /\ vpn \in Seq(Row)
  BY FirstIsLive, FirstIs DEF Inv, Typed, RowsTyped
<1>2. DOMAIN vpn' = DOMAIN vpn
      /\ \A i \in DOMAIN vpn : vpn'[i] = IF i = First(r) THEN copy ELSE vpn[i]
  BY <1>1 DEF SaveRow
<1>3. LiveIds(r)' = LiveIds(r)
  BY <1>1, <1>2 DEF LiveIds
<1> QED BY <1>1, <1>2, <1>3 DEF First

(* What the request of an undisturbed provisioning knows. *)
LEMMA OwnRequest ==
  ASSUME Inv, NEW r \in Router, Renewing(r), renewal[r] # "none",
         NEW s \in Slot, call[s].router = r
  PROVE  /\ LiveIds(r) # {} /\ \A t \in Slot : t # s => call[t].router # r
         /\ call[s].id = First(r) /\ call[s].copy = vpn[First(r)]
         /\ call[s].copy \in Row /\ call[s].copy.router = r /\ ~call[s].copy.deleted
         /\ script[r] = Nobody /\ report[r] = 0
         /\ \/ renewal[r] = "begun" /\ call[s].pc = "script"
            \/ /\ renewal[r] = "imported" /\ call[s].pc \in {"peer", "connect"}
               /\ call[s].value = device[r].key
<1>1. LiveIds(r) # {} /\ OneRequest(r)
  BY DEF Renewing
<1>2. vpn[First(r)] \in Row /\ vpn[First(r)].router = r /\ ~vpn[First(r)].deleted
  BY <1>1, FirstIs, FirstIsLive DEF LiveIds
<1> QED BY <1>1, <1>2 DEF OneRequest

(* It fills in what the row lacks, ... *)
LEMMA UpgradeOwn ==
  ASSUME Inv, NEW r \in Router, Renewing(r), renewal[r] # "none",
         NEW s \in Slot, call[s].router = r, Upgrade(s)
  PROVE  Renewing(r)'
<1>1. /\ UNCHANGED <<device, script, report, mixed, renewal>> /\ call[s].pc = "script"
      /\ SaveRow(s, call'[s].copy)
  BY DEF Upgrade
<1>2. /\ call'[s].router = r /\ call'[s].pc = "script" /\ call'[s].id = call[s].id
      /\ call'[s].copy.router = r /\ ~call'[s].copy.deleted
      /\ \A t \in Slot : t # s => call'[t] = call[t]
  <2>1. \/ call' = [call EXCEPT ![s].copy.password = passwords']
        \/ call' = [call EXCEPT ![s].copy.lan = TRUE]
    BY DEF Upgrade
  <2>2. /\ call \in [Slot -> Call] /\ call[s] \in Call /\ call[s].copy \in Row
        /\ call[s].copy.router = r /\ ~call[s].copy.deleted
    BY OwnRequest, FieldIs
  <2> DEFINE old == call[s].copy
             new == call'[s].copy
  <2>6. \/ call'[s] = [call[s] EXCEPT !.copy = [old EXCEPT !.password = passwords']]
        \/ call'[s] = [call[s] EXCEPT !.copy = [old EXCEPT !.lan = TRUE]]
    BY <2>1, <2>2
  <2>3. /\ call'[s].router = call[s].router /\ call'[s].pc = call[s].pc
        /\ call'[s].id = call[s].id /\ \A t \in Slot : t # s => call'[t] = call[t]
    BY <2>1, <2>2, <2>6 DEF Call
  <2>4. new = [old EXCEPT !.password = passwords'] \/ new = [old EXCEPT !.lan = TRUE]
    BY <2>2, <2>6 DEF Call
  <2>5. call'[s].copy.router = r /\ ~call'[s].copy.deleted
    BY <2>2, <2>4 DEF Row
  <2> QED BY <1>1, <2>3, <2>5
<1>3. LiveIds(r)' = LiveIds(r) /\ First(r)' = First(r) /\ vpn'[First(r)] = call'[s].copy
  BY <1>1, <1>2, OwnRequest, OwnSaved
<1>4. renewal[r] = "begun" /\ LiveIds(r) # {}
  BY <1>1, OwnRequest
<1>5. OneRequest(r)'
  BY <1>1, <1>2, <1>3, <1>4, OwnRequest DEF OneRequest
<1>6. ScriptFits(r)' /\ DeviceFits(r)' /\ KeyFits(r)'
  BY <1>1, <1>4, OwnRequest DEF ScriptFits, DeviceFits, KeyFits
<1> QED BY <1>3, <1>4, <1>5, <1>6 DEF Renewing

(* ... sends it to the device, ... *)
LEMMA SendOwn ==
  ASSUME Inv, NEW r \in Router, Renewing(r), renewal[r] # "none",
         NEW s \in Slot, call[s].router = r, SendScript(s)
  PROVE  Renewing(r)'
<1>1. /\ UNCHANGED <<vpn, report, renewal>> /\ call[s].pc = "script"
      /\ call' = [call EXCEPT ![s] = Idle]
      /\ script' = [script EXCEPT ![r] = [Nobody EXCEPT !.address = call[s].copy.address,
                                                        !.password = call[s].copy.password]]
  BY DEF SendScript, server, End
<1>2. LiveIds(r)' = LiveIds(r) /\ First(r)' = First(r) /\ vpn' = vpn
  BY <1>1 DEF LiveIds, First
<1>3. renewal[r] = "begun" /\ renewal' = renewal /\ LiveIds(r) # {}
  BY <1>1, OwnRequest
<1>4. \A t \in Slot : call'[t].router # r
  BY <1>1, OwnRequest, FieldIs DEF Idle
<1>5. script'[r].address = call[s].copy.address /\ script'[r].password = call[s].copy.password
  BY <1>1, FieldIs DEF Nobody
<1>6. OneRequest(r)' /\ DeviceFits(r)' /\ KeyFits(r)'
  BY <1>3, <1>4 DEF OneRequest, DeviceFits, KeyFits
<1>7. ScriptFits(r)'
  BY <1>1, <1>2, <1>5, OwnRequest DEF ScriptFits
<1> QED BY <1>2, <1>3, <1>6, <1>7 DEF Renewing

(* ... or adds the key the device has as a peer and saves it. *)
LEMMA PeerOwn ==
  ASSUME Inv, NEW r \in Router, Renewing(r), renewal[r] # "none",
         NEW s \in Slot, call[s].router = r, AddPeer(s)
  PROVE  Renewing(r)'
<1>1. /\ UNCHANGED <<vpn, device, script, report, mixed, renewal>> /\ call[s].pc = "peer"
      /\ call' = [call EXCEPT ![s].pc = "connect"]
  BY DEF AddPeer, field, Goto
<1>2. LiveIds(r)' = LiveIds(r) /\ First(r)' = First(r)
  BY <1>1 DEF LiveIds, First
<1>3. /\ call'[s].router = r /\ call'[s].pc = "connect" /\ call'[s].id = call[s].id
      /\ call'[s].copy = call[s].copy /\ call'[s].value = call[s].value
      /\ \A t \in Slot : t # s => call'[t] = call[t]
  BY <1>1, FieldIs DEF Call
<1>4. OneRequest(r)'
  BY <1>1, <1>2, <1>3, OwnRequest DEF OneRequest
<1>5. ScriptFits(r)' /\ DeviceFits(r)' /\ KeyFits(r)'
  BY <1>1, <1>2 DEF Renewing, ScriptFits, DeviceFits, KeyFits
<1> QED BY <1>2, <1>4, <1>5, OwnRequest DEF Renewing

LEMMA ConnectOwn ==
  ASSUME Inv, NEW r \in Router, Renewing(r), renewal \in Stages, renewal[r] # "none",
         NEW s \in Slot, call[s].router = r, Connect(s)
  PROVE  Renewing(r)'
<1> DEFINE copy == [call[s].copy EXCEPT !.key = call[s].value, !.connected = TRUE]
<1>1. /\ UNCHANGED <<device, script, report, mixed>> /\ call[s].pc = "connect"
      /\ SaveRow(s, copy) /\ call' = [call EXCEPT ![s] = Idle]
      /\ renewal' = [renewal EXCEPT ![r] = IF @ = "imported" THEN "whole" ELSE @]
  BY DEF Connect, field, End
<1>2. /\ copy.router = r /\ ~copy.deleted /\ copy.connected /\ copy.key = device[r].key
      /\ copy.address = vpn[First(r)].address /\ copy.password = vpn[First(r)].password
  BY <1>1, OwnRequest DEF Row
<1> HIDE DEF copy
<1>3. LiveIds(r)' = LiveIds(r) /\ First(r)' = First(r) /\ vpn'[First(r)] = copy
  BY <1>1, <1>2, OwnRequest, OwnSaved
<1>4. renewal[r] = "imported" /\ renewal'[r] = "whole" /\ LiveIds(r) # {} /\ DeviceFits(r)
  BY <1>1, OwnRequest DEF Renewing, Stages
<1>5. \A t \in Slot : call'[t].router # r
  BY <1>1, OwnRequest, FieldIs DEF Idle
<1>6. OneRequest(r)' /\ ScriptFits(r)'
  BY <1>4, <1>5 DEF OneRequest, ScriptFits
<1>7. DeviceFits(r)' /\ KeyFits(r)'
  BY <1>1, <1>2, <1>3, <1>4, OwnRequest DEF DeviceFits, KeyFits
<1> QED BY <1>3, <1>4, <1>6, <1>7 DEF Renewing

LEMMA StepRenewing ==
  ASSUME Inv, NEW r \in Router, Renewing(r), renewal \in Stages, NEW s \in Slot, Step(s)
  PROVE  Renewing(r)'
<1>1. CASE call[s].router # r
  BY <1>1, StepElse
<1>2. CASE call[s].router = r /\ renewal[r] = "none"
  <2>1. renewal' = renewal \/ Connect(s)
    BY DEF Step, PickAddress, InsertVPN, Upgrade, SendScript, AddPeer, DeleteRows,
       Push, SkipPeer, Pushing, SetPassword, Verify, Confirm, Store
  <2>2. renewal'[r] = "none"
    BY <1>2, <2>1 DEF Connect, Stages
  <2> QED BY <2>2 DEF Renewing
<1>3. CASE call[s].router = r /\ renewal[r] # "none"
  <2>1. call[s].pc \in {"script", "peer", "connect"}
    BY <1>3, OwnRequest
  <2>2. Upgrade(s) \/ SendScript(s) \/ AddPeer(s) \/ Connect(s)
    BY <2>1 DEF Step, PickAddress, InsertVPN, DeleteRows, Push, SkipPeer, Pushing,
       SetPassword, Verify, Confirm, Store
  <2> QED BY <1>3, <2>2, UpgradeOwn, SendOwn, PeerOwn, ConnectOwn
<1> QED BY <1>1, <1>2, <1>3

(* A request that ends, or a process, takes nothing but reports with it. *)
LEMMA EndRenewing ==
  ASSUME Inv, NEW r \in Router, Renewing(r), NEW s \in Slot, Restart(s) \/ Die(s)
  PROVE  Renewing(r)'
<1>1. /\ UNCHANGED <<vpn, device, script, mixed, renewal>>
      /\ report'[r] \in {0, report[r]}
  BY DEF Restart, Die, server, field
<1>2. \A t \in Slot : call'[t].router = r => call'[t] = call[t]
  <2>1. NoRouter # r
    OBVIOUS
  <2>2. Idle.router # r /\ Rehydration.router # r
    BY <2>1 DEF Idle, Rehydration
  <2>3. \A t \in Slot : call'[t] \in {call[t], Idle, Rehydration}
    BY FieldIs DEF Restart, Die, End
  <2> QED BY <2>2, <2>3
<1>3. LiveIds(r)' = LiveIds(r)
  BY <1>1 DEF LiveIds
<1> QED BY <1>1, <1>2, <1>3, Untouched

(* The device that imports the script becomes what the row says. *)
LEMMA ImportOwn ==
  ASSUME Inv, NEW r \in Router, Renewing(r), renewal \in Stages, Import(r)
  PROVE  Renewing(r)'
<1>1. /\ UNCHANGED <<vpn, call, mixed>> /\ script[r] # Nobody /\ script'[r] = Nobody
      /\ device'[r] = [script[r] EXCEPT !.key = keys'] /\ report'[r] = keys'
      /\ renewal'[r] = IF renewal[r] = "begun" THEN "imported" ELSE "none"
  BY FieldIs DEF Import, server, Stages
<1> SUFFICES ASSUME renewal[r] = "begun" PROVE Renewing(r)'
  BY <1>1 DEF Renewing
<1>2. LiveIds(r) # {} /\ OneRequest(r) /\ ScriptFits(r)
  BY DEF Renewing
<1>3. LiveIds(r)' = LiveIds(r) /\ First(r)' = First(r)
  BY <1>1 DEF LiveIds, First
<1>4. /\ device'[r].key = keys' /\ device'[r].address = script[r].address
      /\ device'[r].password = script[r].password
  <2>1. script[r] \in [key : {0}, address : Address, password : Known \ {0}]
    BY <1>1, FieldIs DEF Script
  <2> QED BY <1>1, <2>1
<1>5. OneRequest(r)'
  BY <1>1, <1>2 DEF OneRequest
<1>6. ScriptFits(r)' /\ DeviceFits(r)' /\ KeyFits(r)'
  BY <1>1, <1>2, <1>3, <1>4 DEF ScriptFits, DeviceFits, KeyFits
<1> QED BY <1>2, <1>3, <1>5, <1>6, <1>1 DEF Renewing

LEMMA FieldRenewing ==
  ASSUME Inv, NEW r \in Router, Renewing(r), renewal \in Stages, NEW q \in Router, Field(q)
  PROVE  Renewing(r)'
<1>1. vpn' = vpn /\ call' = call /\ mixed' = mixed /\ LiveIds(r)' = LiveIds(r)
  BY DEF Field, Import, LoseMessage, ApplyByHand, server, LiveIds
<1>2. CASE q # r
  <2>1. /\ renewal'[r] = renewal[r] /\ device'[r] = device[r]
        /\ script'[r] = script[r] /\ report'[r] = report[r]
    BY <1>2, FieldIs DEF Field, Import, LoseMessage, ApplyByHand, Stages
  <2> QED BY <1>1, <2>1, Untouched
<1>3. CASE LoseMessage(r)
  <2>1. /\ renewal' = renewal /\ device' = device
        /\ script'[r] \in {Nobody, script[r]} /\ report'[r] \in {0, report[r]}
    BY <1>3, FieldIs DEF LoseMessage
  <2> QED BY <1>1, <2>1, Untouched
<1>4. ASSUME NEW p, ApplyByHand(r, p) PROVE Renewing(r)'
  <2>1. renewal'[r] = "none"
    BY <1>4 DEF ApplyByHand, Stages
  <2> QED BY <2>1 DEF Renewing
<1> QED BY <1>2, <1>3, <1>4, ImportOwn DEF Field

LEMMA NextRenewing ==
  ASSUME Inv, NEW r \in Router, Renewing(r), renewal \in Stages, [Next]_fvars
  PROVE  Renewing(r)'
<1>1. CASE UNCHANGED fvars
  BY <1>1 DEF fvars, Renewing, OneRequest, ScriptFits, DeviceFits, KeyFits, LiveIds, First
<1> QED BY <1>1, OpenRenewing, StepRenewing, EndRenewing, FieldRenewing DEF Next

(* Whatever requests that were interrupted, overlapped or saved stale rows *)
(* left of a router, a provisioning from a fresh script that nothing else  *)
(* disturbs leaves device and row with one address, one password and, when *)
(* the report has arrived, one key.                                        *)
THEOREM ProvisioningRepairs == Spec => []Renewed
<1> DEFINE RInv == Inv /\ renewal \in Stages /\ \A r \in Router : Renewing(r)
<1>1. Init => RInv
  <2> SUFFICES ASSUME Init PROVE \A r \in Router : Renewing(r)
    BY InvInit DEF Init, Stages
  <2> QED BY DEF Init, Renewing
<1>2. RInv /\ [Next]_fvars => RInv'
  BY InvStep, StageIs, NextRenewing
<1>3. RInv => Renewed
  BY DEF Renewed, Renewing, DeviceFits, KeyFits
<1> QED BY <1>1, <1>2, <1>3, PTL DEF Spec

=============================================================================
