------------------------------ MODULE Vouchers ------------------------------
(***************************************************************************)
(* The vouchers table: access codes that a tenant generates, edits, trashes*)
(* and restores, and that sales claim, as concurrent requests over         *)
(* PostgreSQL at READ COMMITTED.                                           *)
(*                                                                         *)
(* A slot is a connection with at most one request that takes several      *)
(* statements in flight.  A sale is one transaction: SELECT ... FOR UPDATE *)
(* finds its candidates in a snapshot, waits for the lock of the oldest,   *)
(* and looks at the row again when it has it; the lock is held until the   *)
(* transaction ends.  An edit reads a row, then writes all its columns     *)
(* back.  Requests that read nothing they later write are single actions.  *)
(*                                                                         *)
(* Columns that no other step reads are left out: format, length, use      *)
(* case, note, agent, payer and channel, with PUT /sales/:id, which writes *)
(* only these.  Expiry is the subject of Durations.                        *)
(***************************************************************************)
EXTENDS Integers

CONSTANTS
  Slot,         \* client connections
  Tenant,       \* users that own vouchers
  Package,      \* package ids
  Code,         \* codes generateCode may draw; nothing keeps them distinct
  Router,       \* routers a voucher may be provisioned on
  NoRouter,     \* router_id IS NULL
  NoRow,        \* no row with this id
  Editor,       \* tenants whose users edit vouchers
  MaxVouchers,  \* bound: rows ever inserted
  MaxQuantity   \* bound: vouchers generated in one request

ASSUME NameAssumption ==
  /\ Package \cap Code = {} /\ NoRouter \notin Router /\ Editor \subseteq Tenant
  /\ Tenant # {} /\ Package # {}
ASSUME QuantityAssumption == MaxVouchers \in Nat /\ MaxQuantity \in Nat

Id == 1..MaxVouchers
Status == {"PROVISIONED", "USED"}

Row == [owner : Tenant, code : Code, pkg : Package, status : Status,
        deleted : BOOLEAN, firstLogin : BOOLEAN, provisioned : BOOLEAN,
        router : Router \cup {NoRouter}]

ASSUME NoRowAssumption == NoRow \notin Row

VARIABLES
  row,      \* committed vouchers rows, by id
  nextId,   \* id sequence of the table
  call,     \* the request in flight on each slot
  claimed   \* history: how many sales committed on each row, up to two

vars == <<row, nextId, call, claimed>>

PC == {"idle", "lock", "mark", "sold", "save", "remove", "add", "record", "unrecord"}

(* Local variables of a handler: want is the code or package asked for,    *)
(* seen the candidates left of a sale's snapshot, id the row it works on,  *)
(* copy the struct it read, router where the voucher is to be provisioned. *)
Call == [pc : PC, owner : Tenant, want : Package \cup Code, seen : SUBSET Id,
         id : Id \cup {0}, copy : Row \cup {NoRow}, router : Router \cup {NoRouter}]

IdleCall ==
  [pc |-> "idle", owner |-> CHOOSE t \in Tenant : TRUE,
   want |-> CHOOSE p \in Package : TRUE, seen |-> {}, id |-> 0,
   copy |-> NoRow, router |-> NoRouter]

Busy(s) == call[s].pc # "idle"
Done(s) == call' = [call EXCEPT ![s] = IdleCall]

Exists(v) == row[v] # NoRow
Live(v) == Exists(v) /\ ~row[v].deleted
Owned(t, v) == Exists(v) /\ row[v].owner = t

(* Seeded fault: the sale takes its row without FOR UPDATE. *)
LockedNever(v) == FALSE

(* The row lock a sale holds from its SELECT to its COMMIT. *)
Locked(v) == \E s \in Slot : call[s].pc = "mark" /\ call[s].id = v

(* Seeded fault: the trash is searched too. *)
MatchesTrash(r, t, want) ==
  r.status = "PROVISIONED" /\ r.owner = t /\ want \in {r.code, r.pkg}

(* The WHERE clause of a sale, with the soft-delete scope. *)
Matches(r, t, want) ==
  r.status = "PROVISIONED" /\ r.owner = t /\ ~r.deleted /\ want \in {r.code, r.pkg}

Candidates(t, want) == {v \in Id : Exists(v) /\ Matches(row[v], t, want)}

-----------------------------------------------------------------------------
Init ==
  /\ row = [v \in Id |-> NoRow]
  /\ nextId = 1
  /\ call = [s \in Slot |-> IdleCall]
  /\ claimed = [v \in Id |-> 0]

NewRow(t, p, code) ==
  [owner |-> t, code |-> code, pkg |-> p, status |-> "PROVISIONED",
   deleted |-> FALSE, firstLogin |-> FALSE, provisioned |-> FALSE,
   router |-> NoRouter]

(* Seeded fault: the quantity is ignored when ids are drawn. *)
CreateOneId(t, p, quantity) ==
  /\ nextId + quantity - 1 <= MaxVouchers
  /\ \E codes \in [nextId..(nextId + quantity - 1) -> Code] :
       row' = [v \in Id |-> IF v \in DOMAIN codes THEN NewRow(t, p, codes[v])
                            ELSE row[v]]
  /\ nextId' = nextId + 1
  /\ UNCHANGED <<call, claimed>>

(* POST /vouchers: one INSERT for the whole quantity. *)
Create(t, p, quantity) ==
  /\ nextId + quantity - 1 <= MaxVouchers
  /\ \E codes \in [nextId..(nextId + quantity - 1) -> Code] :
       row' = [v \in Id |-> IF v \in DOMAIN codes THEN NewRow(t, p, codes[v])
                            ELSE row[v]]
  /\ nextId' = nextId + quantity
  /\ UNCHANGED <<call, claimed>>

(* POST /sales: the snapshot of SELECT ... FOR UPDATE; without a candidate *)
(* the request ends with "no voucher available".                           *)
Sell(s, t, want, r) ==
  /\ ~Busy(s)
  /\ Candidates(t, want) # {}
  /\ call' = [call EXCEPT ![s] =
       [pc |-> "lock", owner |-> t, want |-> want, seen |-> Candidates(t, want),
        id |-> 0, copy |-> NoRow, router |-> r]]
  /\ UNCHANGED <<row, nextId, claimed>>

(* ORDER BY created_at, id: ids are drawn in the order of creation. *)
Oldest(ids) == CHOOSE v \in ids : \A w \in ids : v <= w

(* Seeded fault: the row is taken as it was in the snapshot. *)
LockStale(s) ==
  /\ call[s].pc = "lock"
  /\ LET c == call[s]
         v == Oldest(c.seen)
     IN /\ ~Locked(v)
        /\ call' = [call EXCEPT ![s].pc = "mark", ![s].id = v, ![s].copy = row[v],
                                ![s].seen = {}]
  /\ UNCHANGED <<row, nextId, claimed>>

(* Wait for the lock of the oldest candidate left.  If the row still       *)
(* matches it is the one, otherwise the next candidate is tried.  (The     *)
(* server keeps the lock of a row it rejected, which only delays others.)  *)
Lock(s) ==
  /\ call[s].pc = "lock"
  /\ LET c == call[s]
         v == Oldest(c.seen)
     IN /\ ~Locked(v)
        /\ \/ /\ Matches(row[v], c.owner, c.want)
              /\ call' = [call EXCEPT ![s].pc = "mark", ![s].id = v,
                                      ![s].copy = row[v], ![s].seen = {}]
           \/ /\ ~Matches(row[v], c.owner, c.want) /\ c.seen # {v}
              /\ call' = [call EXCEPT ![s].seen = @ \ {v}]
           \/ /\ ~Matches(row[v], c.owner, c.want) /\ c.seen = {v}
              /\ Done(s)
  /\ UNCHANGED <<row, nextId, claimed>>

(* UPDATE the sale columns, read the row back, COMMIT. *)
Mark(s) ==
  /\ call[s].pc = "mark"
  /\ LET v == call[s].id IN
     /\ row' = [row EXCEPT ![v].status = "USED"]
     /\ claimed' = [claimed EXCEPT ![v] = IF @ = 2 THEN 2 ELSE @ + 1]
     /\ call' = [call EXCEPT ![s].pc = "sold", ![s].copy = row'[v]]
  /\ UNCHANGED nextId

(* The answer "voucher sold" of a sale that named no router. *)
Answer(s) ==
  /\ call[s].pc = "sold" /\ call[s].router = NoRouter
  /\ Done(s)
  /\ UNCHANGED <<row, nextId, claimed>>

(* PUT /vouchers/:id reads the row ... *)
Edit(s, t, v, p) ==
  /\ ~Busy(s) /\ t \in Editor
  /\ Owned(t, v) /\ Live(v)
  /\ call' = [call EXCEPT ![s] =
       [pc |-> "save", owner |-> t, want |-> p, seen |-> {}, id |-> v,
        copy |-> row[v], router |-> NoRouter]]
  /\ UNCHANGED <<row, nextId, claimed>>

(* ... and Save writes every column back.  gorm turns a Save that finds no *)
(* live row into INSERT ... ON CONFLICT DO UPDATE of all columns, so this  *)
(* also brings back a row that was trashed in between.                     *)
Save(s) ==
  /\ call[s].pc = "save"
  /\ ~Locked(call[s].id)
  /\ row' = [row EXCEPT ![call[s].id] = [call[s].copy EXCEPT !.pkg = call[s].want]]
  /\ Done(s)
  /\ UNCHANGED <<nextId, claimed>>

(* DELETE /vouchers/:id, DELETE /sales/:id and their bulk forms. *)
Delete(t, ids) ==
  /\ \A v \in ids : Owned(t, v) /\ Live(v) /\ ~Locked(v)
  /\ row' = [v \in Id |-> IF v \in ids THEN [row[v] EXCEPT !.deleted = TRUE] ELSE row[v]]
  /\ UNCHANGED <<nextId, call, claimed>>

(* The restore routes of both modules. *)
Restore(t, ids) ==
  /\ \A v \in ids : Owned(t, v) /\ row[v].deleted /\ ~Locked(v)
  /\ row' = [v \in Id |-> IF v \in ids THEN [row[v] EXCEPT !.deleted = FALSE] ELSE row[v]]
  /\ UNCHANGED <<nextId, call, claimed>>

(* A request dies; its open transaction is rolled back. *)
Die(s) ==
  /\ Busy(s)
  /\ Done(s)
  /\ UNCHANGED <<row, nextId, claimed>>

(* The next statement of the request on s. *)
Statement(s) == Lock(s) \/ Mark(s) \/ Answer(s) \/ Save(s)

Next ==
  \/ \E t \in Tenant, p \in Package, q \in 1..MaxQuantity : Create(t, p, q)
  \/ \E s \in Slot, t \in Tenant, want \in Package \cup Code : Sell(s, t, want, NoRouter)
  \/ \E s \in Slot, t \in Tenant, v \in Id, p \in Package : Edit(s, t, v, p)
  \/ \E t \in Tenant, ids \in SUBSET Id \ {{}} : Delete(t, ids) \/ Restore(t, ids)
  \/ \E s \in Slot : Statement(s) \/ Die(s)

Spec == Init /\ [][Next]_vars

-----------------------------------------------------------------------------
(* Every variable has its type, and the rows are those below the sequence. *)
TypeOK ==
  /\ row \in [Id -> Row \cup {NoRow}]
  /\ nextId \in 1..(MaxVouchers + 1)
  /\ call \in [Slot -> Call]
  /\ claimed \in [Id -> 0..2]
  /\ \A v \in Id : Exists(v) <=> v < nextId

(* The row of a sale in its transaction is still the one it found: live,   *)
(* unsold, its tenant's and of the package or code asked for, whatever     *)
(* edits, trashes or sales at the same time (sales/services.go 434-441).   *)
SaleIsFair ==
  \A s \in Slot : call[s].pc = "mark" =>
    Matches(row[call[s].id], call[s].owner, call[s].want)

(* sales/services.go 453: two sales never grab the same voucher. *)
SoldOnce == \A v \in Id : claimed[v] <= 1
=============================================================================
