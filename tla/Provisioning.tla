---------------------------- MODULE Provisioning ----------------------------
(***************************************************************************)
(* Vouchers on their way to the routers: a sale that names a router goes   *)
(* on to create the hotspot user there, the router page provisions and     *)
(* removes users by hand, customers log in with their code, and the        *)
(* telemetry poller records first logins.  Everything writes the voucher   *)
(* row that sales, edits and the trash of Vouchers write too.              *)
(*                                                                         *)
(* A command to a router may be refused, lost, or executed with its answer *)
(* lost.  The hotspot profile of the package, which is refreshed first, is *)
(* left out but for its failure.  Names of hotspot users are codes, of any *)
(* voucher or none.                                                        *)
(***************************************************************************)
EXTENDS VoucherStock

CONSTANT RouterOwner  \* [Router -> Tenant]

ASSUME RouterAssumption == RouterOwner \in [Router -> Tenant]

VARIABLES
  users,   \* names of the hotspot users on each router
  active,  \* names of the users logged in on each router
  poll     \* the router the poller has asked, and the names it answered

pvars == <<row, nextId, call, claimed, users, active, poll>>
NoPoll == [router |-> NoRouter, names |-> {}]

PInit ==
  /\ Init
  /\ users = [r \in Router |-> {}]
  /\ active = [r \in Router |-> {}]
  /\ poll = NoPoll

(* Seeded fault: what the sale asked for, a package perhaps, is the name. *)
NameOfWant(s) == call[s].want

(* The user name: of the copy of a voucher, or the name asked for. *)
NameOf(s) == IF call[s].copy = NoRow THEN call[s].want ELSE call[s].copy.code

(* A sold voucher's request finds provisioning switched off, or the router *)
(* unknown or inactive, or its profile refused; or it goes on.             *)
Provision(s) ==
  /\ call[s].pc = "sold" /\ call[s].router # NoRouter
  /\ \/ Done(s)
     \/ /\ RouterOwner[call[s].router] = call[s].owner
        /\ call' = [call EXCEPT ![s].pc = "remove"]
  /\ UNCHANGED <<row, nextId, claimed, users, active, poll>>

(* POST /router/:id/hotspot/users with a voucher code: the first live row  *)
(* with that code, unless it is provisioned already.  The request may ask  *)
(* for a user of another name, which the copy carries for the code.        *)
ProvisionUser(s, t, v, name, r) ==
  /\ ~Busy(s)
  /\ RouterOwner[r] = t /\ Owned(t, v) /\ Live(v)
  /\ v = Oldest({w \in Id : Owned(t, w) /\ Live(w) /\ row[w].code = row[v].code})
  /\ ~row[v].provisioned
  /\ call' = [call EXCEPT ![s] =
       [pc |-> "remove", owner |-> t, want |-> row[v].pkg, seen |-> {}, id |-> v,
        copy |-> [row[v] EXCEPT !.code = name], router |-> r]]
  /\ UNCHANGED <<row, nextId, claimed, users, active, poll>>

(* The same route without a voucher: a user of any name. *)
ProvisionName(s, t, name, r) ==
  /\ ~Busy(s)
  /\ RouterOwner[r] = t
  /\ call' = [call EXCEPT ![s] =
       [pc |-> "remove", owner |-> t, want |-> name, seen |-> {}, id |-> 0,
        copy |-> NoRow, router |-> r]]
  /\ UNCHANGED <<row, nextId, claimed, users, active, poll>>

(* ProvisionHotspotUser removes a user of the same name; its error is      *)
(* ignored.                                                                *)
RemoveStale(s) ==
  /\ call[s].pc = "remove"
  /\ \/ users' = [users EXCEPT ![call[s].router] = @ \ {NameOf(s)}]
     \/ UNCHANGED users
  /\ call' = [call EXCEPT ![s].pc = "add"]
  /\ UNCHANGED <<row, nextId, claimed, active, poll>>

(* It then adds the user: accepted, accepted with the answer lost, or not. *)
AddUser(s) ==
  /\ call[s].pc = "add"
  /\ \/ /\ NameOf(s) \notin users[call[s].router]
        /\ users' = [users EXCEPT ![call[s].router] = @ \cup {NameOf(s)}]
        /\ \/ call[s].id # 0 /\ call' = [call EXCEPT ![s].pc = "record"]
           \/ Done(s)
     \/ Done(s) /\ UNCHANGED users
  /\ UNCHANGED <<row, nextId, claimed, active, poll>>

(* Seeded fault: the struct read before the router was asked is saved. *)
RecordSave(s) ==
  /\ call[s].pc = "record"
  /\ ~Locked(call[s].id)
  /\ row' = [row EXCEPT ![call[s].id] =
               [call[s].copy EXCEPT !.provisioned = TRUE, !.router = call[s].router]]
  /\ Done(s)
  /\ UNCHANGED <<nextId, claimed, users, active, poll>>

(* Seeded fault: recording waits for a row that is not in the trash. *)
RecordLive(s) ==
  /\ call[s].pc = "record"
  /\ ~Locked(call[s].id) /\ Live(call[s].id)
  /\ row' = [row EXCEPT ![call[s].id].provisioned = TRUE,
                        ![call[s].id].router = call[s].router]
  /\ Done(s)
  /\ UNCHANGED <<nextId, claimed, users, active, poll>>

(* UPDATE of provisioned and router_id, of a live row only. *)
Record(s) ==
  /\ call[s].pc = "record"
  /\ ~Locked(call[s].id)
  /\ row' = IF Live(call[s].id)
            THEN [row EXCEPT ![call[s].id].provisioned = TRUE,
                             ![call[s].id].router = call[s].router]
            ELSE row
  /\ Done(s)
  /\ UNCHANGED <<nextId, claimed, users, active, poll>>

(* DELETE /router/:id/hotspot/users/:username; without an answer from the  *)
(* router the request ends there.                                          *)
RemoveUser(s, t, r, code) ==
  /\ ~Busy(s)
  /\ RouterOwner[r] = t /\ code \in users[r]
  /\ users' = [users EXCEPT ![r] = @ \ {code}]
  /\ \/ call' = [call EXCEPT ![s] =
          [pc |-> "unrecord", owner |-> t, want |-> code, seen |-> {}, id |-> 0,
           copy |-> NoRow, router |-> r]]
     \/ UNCHANGED call
  /\ UNCHANGED <<row, nextId, claimed, active, poll>>

(* ... and every live voucher of the tenant with that code is taken for    *)
(* not provisioned.                                                        *)
Unrecord(s) ==
  /\ call[s].pc = "unrecord"
  /\ LET named == {v \in Id : /\ Owned(call[s].owner, v) /\ Live(v)
                              /\ row[v].code = call[s].want}
     IN /\ \A v \in named : ~Locked(v)
        /\ row' = [v \in Id |-> IF v \in named
                                THEN [row[v] EXCEPT !.provisioned = FALSE,
                                                    !.router = NoRouter]
                                ELSE row[v]]
  /\ Done(s)
  /\ UNCHANGED <<nextId, claimed, users, active, poll>>

(* A customer logs in with a code the router knows, and leaves. *)
Login(r, code) ==
  /\ code \in users[r]
  /\ active' = [active EXCEPT ![r] = @ \cup {code}]
  /\ UNCHANGED <<row, nextId, call, claimed, users, poll>>

Logout(r, code) ==
  /\ code \in active[r]
  /\ active' = [active EXCEPT ![r] = @ \ {code}]
  /\ UNCHANGED <<row, nextId, call, claimed, users, poll>>

(* The poller asks one router after the other for its sessions ... *)
Poll(r) ==
  /\ poll = NoPoll
  /\ poll' = [router |-> r, names |-> active[r]]
  /\ UNCHANGED <<row, nextId, call, claimed, users, active>>

(* Seeded fault: only vouchers recorded as on that router are looked for. *)
FreshHere(v) ==
  /\ Live(v) /\ row[v].code \in poll.names /\ ~row[v].firstLogin
  /\ row[v].router = poll.router

Fresh(v) == Live(v) /\ row[v].code \in poll.names /\ ~row[v].firstLogin

(* ... and stamps the vouchers it sees for the first time. *)
MarkFirstLogins ==
  /\ poll # NoPoll
  /\ \A v \in Id : Fresh(v) => ~Locked(v)
  /\ row' = [v \in Id |-> IF Fresh(v)
                          THEN [row[v] EXCEPT !.firstLogin = TRUE, !.router = poll.router]
                          ELSE row[v]]
  /\ poll' = NoPoll
  /\ UNCHANGED <<nextId, call, claimed, users, active>>

DeviceStep(s) ==
  Provision(s) \/ RemoveStale(s) \/ AddUser(s) \/ Record(s) \/ Unrecord(s)

PNext ==
  \/ Next /\ UNCHANGED <<users, active, poll>>
  \/ \E s \in Slot, t \in Tenant, want \in Package \cup Code, r \in Router :
       Sell(s, t, want, r) /\ UNCHANGED <<users, active, poll>>
  \/ \E s \in Slot, t \in Tenant, v \in Id, name \in Code, r \in Router :
       ProvisionUser(s, t, v, name, r)
  \/ \E s \in Slot, t \in Tenant, r \in Router, code \in Code :
       ProvisionName(s, t, code, r) \/ RemoveUser(s, t, r, code)
  \/ \E s \in Slot : DeviceStep(s)
  \/ \E r \in Router, code \in Code : Login(r, code) \/ Logout(r, code)
  \/ \E r \in Router : Poll(r)
  \/ MarkFirstLogins

PSpec == PInit /\ [][PNext]_pvars

(* The poller goes round the routers for ever; an UPDATE gets its turn in  *)
(* the queue of every row lock it waits for.                               *)
Rounds == (\A r \in Router : SF_pvars(Poll(r))) /\ SF_pvars(MarkFirstLogins)
Answers ==
  \A s \in Slot :
    SF_pvars(DeviceStep(s) \/ (Statement(s) /\ UNCHANGED <<users, active, poll>>))

PFairSpec == PSpec /\ Rounds /\ Answers

-----------------------------------------------------------------------------
(* Every variable has its type. *)
PTypeOK ==
  /\ TypeOK
  /\ users \in [Router -> SUBSET Code]
  /\ active \in [Router -> SUBSET Code]
  /\ poll \in [router : Router \cup {NoRouter}, names : SUBSET Code]

(* Every request comes to its answer, also when its voucher is trashed     *)
(* while the router is asked, and however sales queue for one row.         *)
RequestsAnswered == \A s \in Slot : Busy(s) ~> ~Busy(s)

(* A customer who stays logged in is seen: the voucher's first login is    *)
(* stamped in the end (vouchers/models.go 119-122), on whatever router of  *)
(* whatever record it was.                                                 *)
FirstLoginSeen ==
  \A v \in Id, r \in Router :
    (Live(v) /\ row[v].code \in active[r])
      ~> (~Live(v) \/ row[v].firstLogin \/ row[v].code \notin active[r])

(* router/crud.go 491: between requests a voucher recorded as provisioned  *)
(* is a user of some router.                                               *)
ProvisionedInSync ==
  (\A s \in Slot : ~Busy(s)) =>
    \A v \in Id : (Live(v) /\ row[v].provisioned) =>
      \E r \in Router : row[v].code \in users[r]
=============================================================================
