------------------------------- MODULE Fleet -------------------------------
(***************************************************************************)
(* The routers of all tenants on the VPN: their VPN rows in the database,  *)
(* the peers of the server's WireGuard interface in kernel memory, and the *)
(* devices themselves.  A router is created with an address, its device    *)
(* downloads a script, imports it and reports its public key; the key      *)
(* becomes a peer and is stored.  Credentials are rotated, routers are     *)
(* deleted, the process restarts, and every restart and every sale that    *)
(* provisions a router pushes the stored peers again.                      *)
(*                                                                         *)
(* gorm's Save writes every column of a VPN row from the copy read         *)
(* earlier, and brings back a row deleted meanwhile.  Rows are numbered by *)
(* their ids; a read takes the live row of a router with the lowest one.   *)
(* Keys and passwords are numbers in the order they came up, 0 none.       *)
(***************************************************************************)
EXTENDS Naturals, Sequences

CONSTANTS
  Slot,          \* connections the requests and the pushes run on
  Router,
  Address,       \* pool of VPN addresses, smallest first
  Bare,          \* routers that may have been left without a VPN row
  Early,         \* sequence of routers connected before credentials and LANs
  NoRouter,
  MaxRows, MaxKeys, MaxPasswords

ASSUME FleetAssumption ==
  /\ Address \subseteq Nat \ {0} /\ NoRouter \notin Router
  /\ Bare \subseteq Router
  /\ Early \in Seq(Router \ Bare) /\ DOMAIN Early \subseteq Address
  /\ \A i, j \in DOMAIN Early : Early[i] = Early[j] => i = j
  /\ MaxRows \in Nat /\ MaxKeys \in Nat /\ MaxPasswords \in Nat
  /\ Len(Early) <= MaxRows /\ Len(Early) <= MaxKeys

VARIABLES
  site,       \* what the database says of a router: none, live or gone
  vpn,        \* VPN rows by id
  route,      \* key of the peer an address is routed to
  device,     \* what the router itself is configured with
  script,     \* script a device has downloaded and not imported
  report,     \* key a device is reporting to the server
  handed,     \* passwords handed to the operator to be applied by hand
  call,
  up,         \* the server accepts requests
  keys,       \* how many were generated
  owner,      \* the router each password came up for, in their order
  mixed,      \* history: one was confirmed a password of the other
  renewal     \* history: how far an undisturbed provisioning has come

fvars == <<site, vpn, route, device, script, report, handed, call, up, keys,
           owner, mixed, renewal>>
server == <<site, vpn, route, up>>
field == <<device, script, report, handed, keys, owner, mixed>>

passwords == Len(owner)

Nobody == [key |-> 0, address |-> 0, password |-> 0]
Row == [router : Router, address : Address, connected : BOOLEAN, key : Nat,
        password : Nat, lan : BOOLEAN, deleted : BOOLEAN]
FreshRow(r, a, p) ==
  [router |-> r, address |-> a, connected |-> FALSE, key |-> 0, password |-> p,
   lan |-> FALSE, deleted |-> FALSE]
NoCopy == [router |-> NoRouter, address |-> 0, connected |-> FALSE, key |-> 0,
           password |-> 0, lan |-> FALSE, deleted |-> FALSE]
Idle == [pc |-> "idle", router |-> NoRouter, id |-> 0, copy |-> NoCopy,
         value |-> 0, todo |-> {}]

LiveIds(r) == {i \in DOMAIN vpn : vpn[i].router = r /\ ~vpn[i].deleted}
Least(S) == CHOOSE i \in S : \A j \in S : i <= j

(* Seeded fault: the read forgets which router it is for. *)
FirstOfAll(r) == Least({i \in DOMAIN vpn : ~vpn[i].deleted})

First(r) == Least(LiveIds(r))
Connected(r) == LiveIds(r) # {} /\ vpn[First(r)].connected

(* A command to an address with a password is answered by a device that    *)
(* the address is routed to, that has the address, and knows the password. *)
Answering(a, p) ==
  {d \in Router : /\ route[a] # 0 /\ device[d].key = route[a]
                  /\ device[d].address = a
                  /\ p # 0 /\ device[d].password = p}

UnderWay(r) ==
  \/ script[r] # Nobody \/ report[r] # 0
  \/ \E s \in Slot : call[s].router = r

(* A provisioning is undisturbed from the script that is fetched while     *)
(* nothing is under way, as long as nothing but its report follows.        *)
Renewal(r, pc) ==
  IF pc = "peer" THEN renewal[r]
  ELSE IF pc = "script" /\ ~UnderWay(r) THEN "begun" ELSE "none"

Start(s, pc, r, i, value) ==
  /\ up /\ call[s].pc = "idle"
  /\ call' = [call EXCEPT ![s] =
       [pc |-> pc, router |-> r, id |-> i,
        copy |-> IF i = 0 THEN NoCopy ELSE vpn[i], value |-> value, todo |-> {}]]
  /\ renewal' = [renewal EXCEPT ![r] = Renewal(r, pc)]
Goto(s, pc) == call' = [call EXCEPT ![s].pc = pc]
End(s) == call' = [call EXCEPT ![s] = Idle]

(* Save writes the whole copy, over whatever became of the row. *)
SaveRow(s, copy) == vpn' = [vpn EXCEPT ![call[s].id] = copy]

(* The i-th early router has row i, address i and key i; a bare one may be *)
(* there, without a row, or be created later.                              *)
Begun(r) == \E i \in DOMAIN Early : Early[i] = r
Init ==
  /\ \E B \in SUBSET Bare :
       site = [r \in Router |-> IF r \in B \/ Begun(r) THEN "live" ELSE "none"]
  /\ vpn = [i \in DOMAIN Early |-> [FreshRow(Early[i], i, 0) EXCEPT
                                     !.connected = TRUE, !.key = i]]
  /\ route = [a \in Address |-> IF a \in DOMAIN Early THEN a ELSE 0]
  /\ device = [r \in Router |-> IF ~Begun(r) THEN Nobody
       ELSE LET i == CHOOSE i \in DOMAIN Early : Early[i] = r
            IN  [key |-> i, address |-> i, password |-> 0]]
  /\ script = [r \in Router |-> Nobody]
  /\ report = [r \in Router |-> 0]
  /\ handed = [r \in Router |-> {}]
  /\ call = [s \in Slot |-> Idle]
  /\ up = TRUE
  /\ keys = Len(Early) /\ owner = <<>>
  /\ mixed = {} /\ renewal = [r \in Router |-> "none"]

------------------------------------------------------------------------------
(* Creation.  The first address no live row has is chosen outside any lock *)
(* and inserted later.  A new router is inserted with its row; a bare one  *)
(* gets its row when its owner looks at the status or the dashboard.       *)

Free == {a \in Address : \A i \in DOMAIN vpn :
                           vpn[i].address = a => vpn[i].deleted}

CreateRouter(s, r) ==
  /\ site[r] = "none" /\ ~UnderWay(r) /\ Free # {}
  /\ Start(s, "insert", r, 0, Least(Free))
  /\ UNCHANGED <<server, field>>

CheckStatus(s, r) ==
  /\ site[r] = "live" /\ LiveIds(r) = {}
  /\ Start(s, "pick", r, 0, 0)
  /\ UNCHANGED <<server, field>>

PickAddress(s) ==
  /\ call[s].pc = "pick"
  /\ IF site[call[s].router] = "live" /\ Free # {}
     THEN call' = [call EXCEPT ![s].pc = "insert", ![s].value = Least(Free)]
     ELSE End(s)
  /\ UNCHANGED <<server, field, renewal>>

InsertVPN(s) ==
  LET r == call[s].router IN
  /\ call[s].pc = "insert" /\ Len(vpn) < MaxRows /\ passwords < MaxPasswords
  /\ owner' = Append(owner, r)
  /\ vpn' = Append(vpn, FreshRow(r, call[s].value, passwords'))
  /\ site' = [site EXCEPT ![r] = IF @ = "none" THEN "live" ELSE @]
  /\ End(s)
  /\ UNCHANGED <<route, up, device, script, report, handed, keys, mixed, renewal>>

------------------------------------------------------------------------------
(* Bootstrap.  GetVPNScript fills in what a row lacks, one Save each, and  *)
(* sends the script; a script or a report may get lost on its way.         *)

FetchScript(s, r) ==
  /\ site[r] = "live" /\ LiveIds(r) # {}
  /\ Start(s, "script", r, First(r), 0)
  /\ UNCHANGED <<server, field>>

Upgrade(s) ==
  LET c == call[s].copy IN
  /\ call[s].pc = "script"
  /\ \/ /\ c.password = 0 /\ passwords < MaxPasswords
        /\ owner' = Append(owner, call[s].router)
        /\ call' = [call EXCEPT ![s].copy.password = passwords']
     \/ /\ c.password # 0 /\ ~c.lan
        /\ call' = [call EXCEPT ![s].copy.lan = TRUE]
        /\ UNCHANGED owner
  /\ SaveRow(s, call'[s].copy)
  /\ UNCHANGED <<site, route, up, device, script, report, handed, keys, mixed, renewal>>

(* Seeded fault: the script is sent with what the row has. *)
SendBare(s) ==
  LET c == call[s].copy IN
  /\ call[s].pc = "script"
  /\ script' = [script EXCEPT ![call[s].router] =
                  [Nobody EXCEPT !.address = c.address, !.password = c.password]]
  /\ End(s)
  /\ UNCHANGED <<server, device, report, handed, keys, owner, mixed, renewal>>

SendScript(s) ==
  LET c == call[s].copy IN
  /\ call[s].pc = "script" /\ c.password # 0 /\ c.lan
  /\ script' = [script EXCEPT ![call[s].router] =
                  [Nobody EXCEPT !.address = c.address, !.password = c.password]]
  /\ End(s)
  /\ UNCHANGED <<server, device, report, handed, keys, owner, mixed, renewal>>

(* Seeded fault: an API user the device already has keeps its password. *)
ImportKeepingUser(r) ==
  /\ script[r] # Nobody /\ keys < MaxKeys
  /\ keys' = keys + 1
  /\ device' = [device EXCEPT ![r] = [script[r] EXCEPT !.key = keys',
                    !.password = IF device[r].password = 0 THEN @ ELSE device[r].password]]
  /\ report' = [report EXCEPT ![r] = keys']
  /\ script' = [script EXCEPT ![r] = Nobody]
  /\ renewal' = [renewal EXCEPT ![r] = IF @ = "begun" THEN "imported" ELSE "none"]
  /\ UNCHANGED <<server, handed, call, owner, mixed>>

(* The import replaces the WireGuard interface, with a key of its own, and *)
(* the API user; the device then reports the key.                          *)
Import(r) ==
  /\ script[r] # Nobody /\ keys < MaxKeys
  /\ keys' = keys + 1
  /\ device' = [device EXCEPT ![r] = [script[r] EXCEPT !.key = keys']]
  /\ report' = [report EXCEPT ![r] = keys']
  /\ script' = [script EXCEPT ![r] = Nobody]
  /\ renewal' = [renewal EXCEPT ![r] = IF @ = "begun" THEN "imported" ELSE "none"]
  /\ UNCHANGED <<server, handed, call, owner, mixed>>

LoseMessage(r) ==
  /\ \/ script[r] # Nobody /\ script' = [script EXCEPT ![r] = Nobody]
        /\ UNCHANGED report
     \/ report[r] # 0 /\ report' = [report EXCEPT ![r] = 0] /\ UNCHANGED script
  /\ UNCHANGED <<server, device, handed, call, keys, owner, mixed, renewal>>

(* CompleteVPN reads the row, adds the peer, and saves the row it read. *)
Report(s, r) ==
  /\ report[r] # 0 /\ LiveIds(r) # {}
  /\ Start(s, "peer", r, First(r), report[r])
  /\ report' = [report EXCEPT ![r] = 0]
  /\ UNCHANGED <<server, device, script, handed, keys, owner, mixed>>

(* Seeded fault: configuring a peer replaces all the peers. *)
RoutedAlone(key, a) == [b \in Address |-> IF b = a THEN key ELSE 0]

(* A peer has one address and an address one peer: the kernel moves both. *)
Routed(key, a) ==
  [b \in Address |-> IF b = a THEN key ELSE IF route[b] = key THEN 0 ELSE route[b]]

AddPeer(s) ==
  /\ call[s].pc = "peer"
  /\ route' = Routed(call[s].value, call[s].copy.address)
  /\ Goto(s, "connect")
  /\ UNCHANGED <<site, vpn, up, field, renewal>>

Connect(s) ==
  /\ call[s].pc = "connect"
  /\ SaveRow(s, [call[s].copy EXCEPT !.key = call[s].value, !.connected = TRUE])
  /\ renewal' = [renewal EXCEPT ![call[s].router] =
                   IF @ = "imported" THEN "whole" ELSE @]
  /\ End(s)
  /\ UNCHANGED <<site, route, up, field>>

------------------------------------------------------------------------------
(* Deletion.  The peer stays on the interface. *)

Delete(s, r) ==
  /\ site[r] = "live"
  /\ Start(s, "delete", r, 0, 0)
  /\ UNCHANGED <<server, field>>

DeleteRows(s) ==
  LET r == call[s].router IN
  /\ call[s].pc = "delete"
  /\ vpn' = [i \in DOMAIN vpn |->
       IF vpn[i].router = r THEN [vpn[i] EXCEPT !.deleted = TRUE] ELSE vpn[i]]
  /\ site' = [site EXCEPT ![r] = "gone"]
  /\ End(s)
  /\ UNCHANGED <<route, up, field, renewal>>

------------------------------------------------------------------------------
(* Rehydration, at boot and at every sale that provisions a router: the    *)
(* connected rows are read once and pushed one by one, skipping failures.  *)

Stored == {[key |-> vpn[i].key, address |-> vpn[i].address] :
             i \in {j \in DOMAIN vpn : ~vpn[j].deleted /\ vpn[j].connected
                                       /\ vpn[j].key # 0}}
Rehydration == [Idle EXCEPT !.pc = "push", !.todo = Stored]

Rehydrate(s) ==
  /\ up /\ call[s].pc = "idle" /\ Stored # {}
  /\ call' = [call EXCEPT ![s] = Rehydration]
  /\ UNCHANGED <<server, field, renewal>>

(* One peer is pushed or skipped; the last one lets a booting server serve.*)
Pushing(s, peer, done) ==
  /\ call[s].pc = "push" /\ peer \in call[s].todo
  /\ route' = IF done THEN Routed(peer.key, peer.address) ELSE route
  /\ LET rest == call[s].todo \ {peer} IN
       /\ call' = [call EXCEPT ![s] = IF rest = {} THEN Idle ELSE [@ EXCEPT !.todo = rest]]
       /\ up' = (up \/ rest = {})
  /\ UNCHANGED <<site, vpn, field, renewal>>
Push(s, peer) == Pushing(s, peer, TRUE)
SkipPeer(s, peer) == Pushing(s, peer, FALSE)

(* The process restarts, the interface surviving or not. *)
Restart(s) ==
  /\ up
  /\ call' = [t \in Slot |-> IF t = s /\ Stored # {} THEN Rehydration ELSE Idle]
  /\ up' = (Stored = {})
  /\ report' = [r \in Router |-> 0]
  /\ route' \in {route, [a \in Address |-> 0]}
  /\ UNCHANGED <<site, vpn, device, script, handed, keys, owner, mixed, renewal>>

------------------------------------------------------------------------------
(* Credentials.  A rotation gives a connected device the new password with *)
(* the stored one, tries the new one out, and stores it; for a router that *)
(* never connected it hands the password out and waits to be confirmed.    *)

Rotate(s, r) ==
  /\ site[r] = "live" /\ LiveIds(r) # {} /\ passwords < MaxPasswords
  /\ owner' = Append(owner, r)
  /\ IF Connected(r)
     THEN Start(s, "set", r, First(r), passwords') /\ UNCHANGED handed
     ELSE /\ up /\ handed' = [handed EXCEPT ![r] = @ \cup {passwords'}]
          /\ renewal' = [renewal EXCEPT ![r] = "none"]
          /\ UNCHANGED call
  /\ UNCHANGED <<server, device, script, report, keys, mixed>>

(* The device takes the password, and the answer may be lost. *)
SetPassword(s) ==
  LET r == call[s].router IN
  /\ call[s].pc = "set"
  /\ Connected(r)
  /\ \E d \in Answering(vpn[First(r)].address, vpn[First(r)].password) :
       device' = [device EXCEPT ![d].password = call[s].value]
  /\ Goto(s, "verify") \/ End(s)
  /\ UNCHANGED <<server, script, report, handed, keys, owner, mixed, renewal>>

Verify(s) ==
  /\ call[s].pc = "verify"
  /\ Answering(call[s].copy.address, call[s].value) # {}
  /\ Goto(s, "confirm")
  /\ UNCHANGED <<server, field, renewal>>

ApplyByHand(r, p) ==
  /\ p \in handed[r]
  /\ device' = [device EXCEPT ![r].password = p]
  /\ renewal' = [renewal EXCEPT ![r] = "none"]
  /\ UNCHANGED <<server, script, report, handed, call, keys, owner, mixed>>

(* The operator confirms whatever password the request carries: one that   *)
(* came up before, for this router or another, or a new one.               *)
ConfirmRotation(s, r, p) ==
  /\ site[r] = "live"
  /\ \/ p \in 1..passwords /\ UNCHANGED owner
     \/ p = passwords + 1 /\ p <= MaxPasswords /\ owner' = Append(owner, r)
  /\ mixed' = IF owner'[p] = r THEN mixed ELSE mixed \cup {r, owner'[p]}
  /\ Start(s, "confirm", r, 0, p)
  /\ UNCHANGED <<server, device, script, report, handed, keys>>

Confirm(s) ==
  LET r == call[s].router IN
  /\ call[s].pc = "confirm"
  /\ IF LiveIds(r) = {} THEN End(s)
     ELSE call' = [call EXCEPT ![s].pc = "store", ![s].id = First(r),
                               ![s].copy = vpn[First(r)]]
  /\ UNCHANGED <<server, field, renewal>>

Store(s) ==
  /\ call[s].pc = "store"
  /\ SaveRow(s, [call[s].copy EXCEPT !.password = call[s].value])
  /\ End(s)
  /\ UNCHANGED <<site, route, up, field, renewal>>

(* Any request may end between two steps: refused or failed commands and   *)
(* statements, lost connections.  Only a push goes on, whatever fails.      *)
Die(s) ==
  /\ up /\ call[s].pc \notin {"idle", "push"}
  /\ End(s)
  /\ UNCHANGED <<server, field, renewal>>

------------------------------------------------------------------------------
Open(s) ==
  \/ \E r \in Router : \/ CreateRouter(s, r) \/ CheckStatus(s, r) \/ FetchScript(s, r)
                       \/ Report(s, r) \/ Delete(s, r) \/ Rotate(s, r)
                       \/ \E p \in 1..MaxPasswords : ConfirmRotation(s, r, p)
  \/ Rehydrate(s)
Step(s) ==
  \/ PickAddress(s) \/ InsertVPN(s) \/ Upgrade(s) \/ SendScript(s)
  \/ AddPeer(s) \/ Connect(s) \/ DeleteRows(s)
  \/ \E peer \in call[s].todo : Push(s, peer) \/ SkipPeer(s, peer)
  \/ SetPassword(s) \/ Verify(s) \/ Confirm(s) \/ Store(s)
Field(r) ==
  Import(r) \/ LoseMessage(r) \/ \E p \in handed[r] : ApplyByHand(r, p)
Next ==
  \/ \E s \in Slot : Open(s) \/ Step(s) \/ Restart(s) \/ Die(s)
  \/ \E r \in Router : Field(r)

Spec == Init /\ [][Next]_fvars

(* A request and a push go on; the process schedules every goroutine.      *)
FairSpec == Spec /\ \A s \in Slot : WF_fvars(Step(s))

------------------------------------------------------------------------------
Pcs == {"idle", "pick", "insert", "script", "peer", "connect", "delete", "push",
        "set", "verify", "confirm", "store"}
Known == 0..passwords
Peer == [key : 1..keys, address : Address]
Call == [pc : Pcs, router : Router \cup {NoRouter}, id : 0..Len(vpn),
         copy : Row \cup {NoCopy}, value : Nat, todo : SUBSET Peer]
Device == [key : 0..keys, address : Address \cup {0}, password : Known]
Script == {Nobody} \cup [key : {0}, address : Address, password : Known \ {0}]

RowsTyped ==
  /\ vpn \in Seq(Row) /\ Len(vpn) <= MaxRows
  /\ \A i \in DOMAIN vpn : vpn[i].key <= keys /\ vpn[i].password <= passwords
FieldTyped ==
  /\ route \in [Address -> 0..keys]
  /\ device \in [Router -> Device] /\ script \in [Router -> Script]
  /\ report \in [Router -> 0..keys]
  /\ handed \in [Router -> SUBSET (Known \ {0})]
  /\ owner \in Seq(Router)
  /\ mixed \in SUBSET Router

Typed ==
  /\ site \in [Router -> {"none", "live", "gone"}] /\ up \in BOOLEAN
  /\ RowsTyped /\ FieldTyped
  /\ call \in [Slot -> Call]
  /\ keys \in 0..MaxKeys /\ passwords \in 0..MaxPasswords

(* Rows, devices, scripts and requests keep their types: a key or password *)
(* in use came up before, and a script always carries a password.          *)
FTypeOK ==
  Typed /\ renewal \in [Router -> {"none", "begun", "imported", "whole"}]

(* A command is sent to the address in a router's row with the password of *)
(* the row.  Addresses are handed on while peers stay behind, two rows may *)
(* share one, a late push may move one back: still no other router than    *)
(* the row's ever executes the command, unless somebody confirmed one of   *)
(* its passwords for another router or another's for it.                   *)
OwnDevice ==
  \A i \in DOMAIN vpn : vpn[i].router \notin mixed =>
    Answering(vpn[i].address, vpn[i].password) \subseteq {vpn[i].router}

(* Whatever interrupted rotations, stale saves, lost messages and restarts *)
(* left of a router, provisioning it again repairs it: when a script that  *)
(* was fetched with nothing else under way is imported, the device has the *)
(* address and the password that are stored, and when its report arrives   *)
(* the key as well, until the next request or command about the router.    *)
Renewed ==
  \A r \in Router \ mixed :
    /\ renewal[r] \in {"imported", "whole"} =>
         /\ LiveIds(r) # {}
         /\ device[r].address = vpn[First(r)].address
         /\ device[r].password = vpn[First(r)].password
    /\ renewal[r] = "whole" =>
         vpn[First(r)].connected /\ vpn[First(r)].key = device[r].key

(* router/services.go 1146-1148: "the DB is not updated until the router   *)
(* has actually accepted the new password, so a failed/interrupted rotation*)
(* never leaves the stored credential out of sync with the device": when a *)
(* rotation ends and the device has the new password, it is stored.        *)
RotationKeepsInSync ==
  [][\A s \in Slot, r \in Router :
       (/\ call[s].pc \in {"set", "verify"} /\ call[s].router = r
        /\ call'[s].pc = "idle" /\ LiveIds(r)' # {} /\ device'[r].password = call[s].value)
       => (vpn[First(r)].password)' = call[s].value]_fvars

(* If pushes eventually do not fail, sales keep provisioning routers and   *)
(* operators stop confirming rotations, then, whatever late or stale       *)
(* pushes did, every stored peer whose address is its own is in the end    *)
(* routed for good.  Confirmations that overlap for ever could pass an old *)
(* key on, each saving the row it read before the other.                   *)
Alone(i) == \A j \in DOMAIN vpn \ {i} : vpn[j].address = vpn[i].address => vpn[j].deleted
Settled ==
  \A i \in DOMAIN vpn :
    (~vpn[i].deleted /\ vpn[i].connected /\ Alone(i)) => route[vpn[i].address] = vpn[i].key
Skips == \E s \in Slot : \E peer \in call[s].todo : SkipPeer(s, peer)
Sales == \E s \in Slot : Rehydrate(s)
Confirmations == \E s \in Slot, r \in Router, p \in 1..MaxPasswords : ConfirmRotation(s, r, p)
RoutesSettle ==
  (<>[][~Skips /\ ~Confirmations]_fvars /\ []<><<Sales>>_fvars) => <>[](up => Settled)
==============================================================================
