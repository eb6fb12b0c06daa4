---------------------------- MODULE TenantProofs ----------------------------
(* Proofs about roles, accounts and packages, for any names, addresses,    *)
(* users, durations and number of connections: type invariants, that names *)
(* and addresses stay apart, that built-in roles stay, that credentials    *)
(* are kept, and that no router cuts a sold code short.                    *)
EXTENDS Roles, Accounts, Plans, FiniteSetTheorems, TLAPS

-----------------------------------------------------------------------------
(* Roles.                                                                  *)

RoleRow == [name : RoleName \cup {""}, perms : SUBSET Full, system : BOOLEAN,
            deleted : BOOLEAN, renamed : BOOLEAN]

Request == [pc : {"none", "seed", "plant", "create", "update", "delete"},
            todo : Seq(RoleName), name : RoleName \cup {""},
            perms : Body \cup {{}}, id : Nat]

(* What a request under way has seen of the rows, as far as it still holds *)
(* when others have run since.                                             *)
Recalls(c) ==
  /\ c.pc = "plant" => c.todo # <<>>
  /\ c.pc = "create" => c.name \in RoleName
  /\ c.pc \in {"update", "delete"} => c.id \in DOMAIN role
  /\ c.pc = "delete" => ~role[c.id].system

Plain(name) == {i \in Named(name) : ~role[i].renamed}

RoleTyped ==
  /\ role \in Seq(RoleRow)
  /\ asking \in [Asker -> Request]
  /\ \A s \in Asker : Recalls(asking[s])
  /\ \A i \in LiveRoles : role[i].name \in RoleName
  /\ BuiltInStays

(* Unless two found a name unused at once, it has one role or one          *)
(* connection that is about to insert it, or none of either.               *)
NameHeld(name) ==
  \/ name \in raced
  \/ /\ \A i, j \in Plain(name) : i = j
     /\ \A s, t \in Making(name) : s = t
     /\ Plain(name) = {} \/ Making(name) = {}
NamesHeld == \A name \in RoleName : NameHeld(name)

RoleInv == RoleTyped /\ NamesHeld

-----------------------------------------------------------------------------
(* Accounts.                                                               *)

UserRow == [email : Email \cup {Elsewhere}, password : BOOLEAN, google : BOOLEAN]

Visit == [pc : {"none", "register", "company", "save", "invite", "attach"},
          row : UserRow, id : Nat, owner : Nat]

(* What a request under way knows of the tables: a company still to be     *)
(* founded is its user's first, a copy of a row has that row's password    *)
(* and, unless it was edited, its address, an owner has a company.         *)
Knows(c) ==
  /\ c.pc = "company" => c.id \in DOMAIN user /\ companies[c.id] = 0
  /\ c.pc \in {"save", "attach"} => c.id \in DOMAIN user
  /\ c.pc = "save" => c.row.password = user[c.id].password
  /\ c.pc = "save" /\ c.id \notin edited => c.row.email = user[c.id].email
  /\ c.pc \in {"invite", "attach"} => c.owner \in DOMAIN user /\ companies[c.owner] = 1

OneFounder ==
  \A v, w \in Visitor :
    (visit[v].pc = "company" /\ visit[w].pc = "company" /\ visit[v].id = visit[w].id) => v = w

AccountTyped ==
  /\ user \in Seq(UserRow)
  /\ companies \in Seq(0..1) /\ Len(companies) = Len(user)
  /\ \A m \in members : m[1] \in DOMAIN user /\ m[2] \in DOMAIN user /\ companies[m[1]] = 1
  /\ visit \in [Visitor -> Visit]
  /\ \A v \in Visitor : Knows(visit[v])
  /\ OneFounder

Unedited(email) == WithEmail(email) \ edited

(* As NameHeld, for addresses. *)
AddressHeld(email) ==
  \/ email \in unsure
  \/ /\ \A i, j \in Unedited(email) : i = j
     /\ \A v, w \in Adding(email) : v = w
     /\ Unedited(email) = {} \/ Adding(email) = {}
AddressesHeld == \A email \in Email : AddressHeld(email)

AccountInv == AccountTyped /\ AddressesHeld

-----------------------------------------------------------------------------
LEMMA NoRequestType ==
  NoRequest \in Request /\ NoRequest.pc = "none" /\ NoRequest.todo = <<>>
  BY DEF NoRequest, Request

LEMMA RequestIs ==
  \A c \in Request :
    /\ c.pc \in {"none", "seed", "plant", "create", "update", "delete"}
    /\ c.todo \in Seq(RoleName) /\ c.name \in RoleName \cup {""} /\ c.id \in Nat
  BY DEF Request

LEMMA DefaultRoles == DefaultRole \in Seq(RoleName)
  BY RolesAssumption DEF RoleName

LEMMA RequestSeeds ==
  \A c \in Request, t \in Seq(RoleName) :
    /\ LET d == [c EXCEPT !.pc = "seed", !.todo = t] IN d \in Request /\ d.pc = "seed"
    /\ LET d == [c EXCEPT !.todo = t] IN d \in Request /\ d.pc = c.pc
  BY DEF Request

LEMMA RequestPlants ==
  \A c \in Request :
    LET d == [c EXCEPT !.pc = "plant"] IN d \in Request /\ d.pc = "plant" /\ d.todo = c.todo
  BY DEF Request

Creating(c, n, p) == [c EXCEPT !.pc = "create", !.name = n, !.perms = p]
Updating(c, i, p, n) == [c EXCEPT !.pc = "update", !.id = i, !.perms = p, !.name = n]
Updated(r, n, p, m) ==
  [r EXCEPT !.name = n, !.perms = SanitizePermissions(p), !.renamed = @ \/ m # ""]

LEMMA RequestCreates ==
  ASSUME NEW c \in Request, NEW n \in RoleName, NEW p \in Body
  PROVE  /\ Creating(c, n, p) \in Request
         /\ Creating(c, n, p).pc = "create" /\ Creating(c, n, p).name = n
  BY DEF Request, Creating

LEMMA RequestUpdates ==
  ASSUME NEW c \in Request, NEW i \in Nat, NEW p \in Body, NEW n \in RoleName \cup {""}
  PROVE  /\ Updating(c, i, p, n) \in Request
         /\ Updating(c, i, p, n).pc = "update" /\ Updating(c, i, p, n).id = i
  BY DEF Request, Updating

LEMMA RequestDeletes ==
  \A c \in Request, i \in Nat :
    LET d == [c EXCEPT !.pc = "delete", !.id = i] IN
    d \in Request /\ d.pc = "delete" /\ d.id = i
  BY DEF Request

LEMMA RoleRowIs ==
  \A r \in RoleRow :
    /\ r.name \in RoleName \cup {""} /\ r.perms \subseteq Full
    /\ r.system \in BOOLEAN /\ r.deleted \in BOOLEAN /\ r.renamed \in BOOLEAN
  BY DEF RoleRow

LEMMA NewRoleType ==
  \A n \in RoleName \cup {""}, p \in SUBSET Full, b \in BOOLEAN :
    LET r == NewRole(n, p, b) IN
    r \in RoleRow /\ r.name = n /\ r.system = b /\ r.deleted = FALSE /\ r.renamed = FALSE
  BY DEF NewRole, RoleRow

LEMMA GoneType ==
  \A r \in RoleRow : Gone(r) \in RoleRow /\ Gone(r).deleted = TRUE /\ Gone(r).system = r.system
<1>1. \A r \in RoleRow : [r EXCEPT !.deleted = TRUE] \in RoleRow
        /\ [r EXCEPT !.deleted = TRUE].deleted = TRUE
        /\ [r EXCEPT !.deleted = TRUE].system = r.system
  BY DEF RoleRow
<1> QED
  <2> TAKE r \in RoleRow
  <2> DEFINE n == NewRole("", {}, r.system)
  <2>1. n \in RoleRow /\ n.system = r.system
    BY NewRoleType, RoleRowIs
  <2>2. Gone(r) = [n EXCEPT !.deleted = TRUE]
    BY DEF Gone
  <2> HIDE DEF n
  <2>3. QED
    BY <1>1, <2>1, <2>2

(* A request changes and the rows keep what the others recall. *)
LEMMA RolesMove ==
  ASSUME RoleTyped, NEW s \in Asker, NEW c \in Request, asking' = [asking EXCEPT ![s] = c],
         role' \in Seq(RoleRow), Recalls(c)',
         DOMAIN role \subseteq DOMAIN role',
         \A i \in DOMAIN role : role'[i].system = role[i].system,
         (\A i \in LiveRoles : role[i].name \in RoleName)', BuiltInStays'
  PROVE  RoleTyped'
<1>1. asking' \in [Asker -> Request] /\ asking'[s] = c
      /\ \A o \in Asker \ {s} : asking'[o] = asking[o]
  BY DEF RoleTyped
<1>2. ASSUME NEW o \in Asker PROVE Recalls(asking[o])'
  <2>1. CASE o = s
    BY <2>1, <1>1 DEF Recalls
  <2>2. CASE o # s
    BY <2>2, <1>1 DEF Recalls, RoleTyped
  <2>3. QED
    BY <2>1, <2>2
<1>3. QED
  BY <1>1, <1>2 DEF RoleTyped

LEMMA NameMoves ==
  ASSUME RoleTyped, NEW n \in RoleName, NameHeld(n), NEW s \in Asker, NEW c \in Request,
         asking' = [asking EXCEPT ![s] = c], raced \subseteq raced',
         \/ Plain(n)' \subseteq Plain(n) /\ ~Makes(c, n)
         \/ Plain(n)' = {} /\ (Making(n) = {} \/ n \in raced')
         \/ /\ \E x : Plain(n)' \subseteq Plain(n) \cup {x}
            /\ Makes(asking[s], n) /\ ~Makes(c, n)
  PROVE  NameHeld(n)'
<1>1. asking'[s] = c /\ \A o \in Asker \ {s} : asking'[o] = asking[o]
  BY DEF RoleTyped
<1>2. Making(n)' \subseteq Making(n) \cup {s} /\ (~Makes(c, n) => s \notin Making(n)')
  BY <1>1 DEF Making, Makes
<1>3. CASE n \in raced'
  BY <1>3 DEF NameHeld
<1>4. CASE n \notin raced' /\ Plain(n)' \subseteq Plain(n) /\ ~Makes(c, n)
  BY <1>2, <1>4 DEF NameHeld
<1>5. CASE n \notin raced' /\ Plain(n)' = {} /\ Making(n) = {}
  BY <1>2, <1>5 DEF NameHeld
<1>6. CASE /\ n \notin raced' /\ \E x : Plain(n)' \subseteq Plain(n) \cup {x}
           /\ Makes(asking[s], n) /\ ~Makes(c, n)
  <2>1. s \in Making(n)
    BY <1>6 DEF Making
  <2>2. Plain(n) = {} /\ Making(n) = {s}
    BY <1>6, <2>1 DEF NameHeld
  <2>3. Making(n)' = {} /\ \A i, j \in Plain(n)' : i = j
    BY <1>2, <1>6, <2>2
  <2>4. QED
    BY <2>3 DEF NameHeld
<1>7. QED
  BY <1>3, <1>4, <1>5, <1>6

(* A request is begun, goes on or ends without touching a row. *)
LEMMA RolesAsk ==
  ASSUME RoleInv, NEW s \in Asker, NEW c \in Request, asking' = [asking EXCEPT ![s] = c],
         UNCHANGED role, raced \subseteq raced', Recalls(c),
         \A n \in RoleName :
           Makes(c, n) => Named(n) = {} /\ (Making(n) = {} \/ n \in raced')
  PROVE  RoleInv'
<1>1. LiveRoles' = LiveRoles /\ \A n : Plain(n)' = Plain(n) /\ Named(n)' = Named(n)
  BY DEF LiveRoles, Plain, Named
<1>2. RoleTyped'
  <2>1. Recalls(c)'
    BY DEF Recalls
  <2>2. BuiltInStays' /\ \A i \in LiveRoles' : role'[i].name \in RoleName
    BY <1>1 DEF RoleInv, RoleTyped, BuiltInStays
  <2>3. QED
    BY <2>1, <2>2, RolesMove DEF RoleInv, RoleTyped
<1>3. ASSUME NEW n \in RoleName PROVE NameHeld(n)'
  <2>1. NameHeld(n)
    BY DEF RoleInv, NamesHeld
  <2>2. Named(n) = {} => Plain(n) = {}
    BY DEF Plain
  <2>3. QED
    BY <1>1, <2>1, <2>2, NameMoves DEF RoleInv
<1>4. QED
  BY <1>2, <1>3 DEF RoleInv, NamesHeld

(* A role is inserted by a connection that was about to make its name. *)
LEMMA RolesInsert ==
  ASSUME RoleInv, NEW s \in Asker, NEW c \in Request, asking' = [asking EXCEPT ![s] = c],
         c.pc \in {"none", "seed"}, NEW r \in RoleRow, role' = Append(role, r), raced' = raced,
         ~r.deleted, r.name \in RoleName, Makes(asking[s], r.name)
  PROVE  RoleInv'
<1>1. /\ role' \in Seq(RoleRow) /\ Len(role) \in Nat /\ Len(role') = Len(role) + 1
      /\ role'[Len(role) + 1] = r /\ \A i \in DOMAIN role : role'[i] = role[i]
      /\ DOMAIN role = 1..Len(role) /\ DOMAIN role' = DOMAIN role \cup {Len(role) + 1}
  BY DEF RoleInv, RoleTyped
<1>2. RoleTyped'
  <2>1. Recalls(c)'
    BY DEF Recalls
  <2>2. BuiltInStays' /\ \A i \in LiveRoles' : role'[i].name \in RoleName
    BY <1>1 DEF RoleInv, RoleTyped, BuiltInStays, LiveRoles
  <2>3. QED
    BY <1>1, <2>1, <2>2, RolesMove DEF RoleInv
<1>3. ASSUME NEW n \in RoleName PROVE NameHeld(n)'
  <2>1. NameHeld(n) /\ ~Makes(c, n)
    BY DEF RoleInv, NamesHeld, Makes
  <2>2. CASE n = r.name
    <3>1. Plain(n)' \subseteq Plain(n) \cup {Len(role) + 1}
      BY <1>1 DEF Plain, Named, LiveRoles
    <3>2. QED
      BY <2>1, <2>2, <3>1, NameMoves DEF RoleInv
  <2>3. CASE n # r.name
    <3>1. Plain(n)' \subseteq Plain(n)
      BY <1>1, <2>3 DEF Plain, Named, LiveRoles
    <3>2. QED
      BY <2>1, <3>1, NameMoves DEF RoleInv
  <2>4. QED
    BY <2>2, <2>3
<1>4. QED
  BY <1>2, <1>3 DEF RoleInv, NamesHeld

(* Rows change in place: each is deleted, renamed or keeps its name. *)
KeepsName(r, old) ==
  /\ r.system = old.system
  /\ r.system => ~r.deleted
  /\ ~r.deleted => r.name \in RoleName
  /\ \/ r.deleted \/ r.renamed
     \/ r.name = old.name /\ r.renamed = old.renamed /\ r.deleted = old.deleted

LEMMA RolesChange ==
  ASSUME RoleInv, NEW s \in Asker, NEW c \in Request, asking' = [asking EXCEPT ![s] = c],
         role' \in Seq(RoleRow), DOMAIN role' = DOMAIN role, Recalls(c)',
         \A n \in RoleName : ~Makes(c, n), raced' = raced,
         \A i \in DOMAIN role : KeepsName(role'[i], role[i])
  PROVE  RoleInv'
<1>1. RoleTyped'
  <2>1. BuiltInStays' /\ \A i \in LiveRoles' : role'[i].name \in RoleName
    BY DEF KeepsName, BuiltInStays, LiveRoles
  <2>2. \A i \in DOMAIN role : role'[i].system = role[i].system
    BY DEF KeepsName
  <2>3. QED
    BY <2>1, <2>2, RolesMove DEF RoleInv
<1>2. ASSUME NEW n \in RoleName PROVE NameHeld(n)'
  <2>1. NameHeld(n)
    BY DEF RoleInv, NamesHeld
  <2>2. Plain(n)' \subseteq Plain(n)
    BY DEF Plain, Named, LiveRoles, KeepsName
  <2>3. QED
    BY <2>1, <2>2, NameMoves DEF RoleInv
<1>3. QED
  BY <1>1, <1>2 DEF RoleInv, NamesHeld

LEMMA RolesEnd ==
  ASSUME RoleInv, NEW s \in Asker, Finish(s), UNCHANGED <<role, raced>>
  PROVE  RoleInv'
<1>1. Recalls(NoRequest) /\ \A n \in RoleName : ~Makes(NoRequest, n)
  BY NoRequestType DEF Recalls, Makes
<1>2. QED
  BY <1>1, NoRequestType, RolesAsk DEF Finish

LEMMA ListRolesInv ==
  ASSUME RoleInv, NEW s \in Asker, ListRoles(s)
  PROVE  RoleInv'
<1>1. PICK c \in Request : /\ c.pc = "seed" /\ asking' = [asking EXCEPT ![s] = c]
                           /\ UNCHANGED <<role, raced>>
  BY NoRequestType, DefaultRoles, RequestSeeds DEF ListRoles, Begin
<1>2. Recalls(c) /\ \A n \in RoleName : ~Makes(c, n)
  BY <1>1 DEF Recalls, Makes
<1>3. QED
  BY <1>1, <1>2, RolesAsk

LEMMA CountDefaultInv ==
  ASSUME RoleInv, NEW s \in Asker, CountDefault(s)
  PROVE  RoleInv'
<1>1. PICK b \in Request : b = asking[s]
  BY DEF RoleInv, RoleTyped
<1>2. b.todo \in Seq(RoleName) /\ b.todo # <<>> /\ b.pc = "seed" /\ UNCHANGED role
  BY <1>1, RequestIs DEF CountDefault
<1> DEFINE name == Head(b.todo)
<1>3. CASE Named(name) = {}
  <2>1. PICK c \in Request : /\ c.pc = "plant" /\ c.todo = b.todo
                             /\ asking' = [asking EXCEPT ![s] = c]
    BY <1>1, <1>3, RequestPlants DEF CountDefault
  <2>2. raced \subseteq raced' /\ (Making(name) = {} \/ name \in raced')
    BY <1>1, <1>3 DEF CountDefault, Join
  <2>3. Recalls(c) /\ \A n \in RoleName : Makes(c, n) => n = name
    BY <1>2, <2>1 DEF Recalls, Makes
  <2>4. QED
    BY <1>2, <1>3, <2>1, <2>2, <2>3, RolesAsk
<1>4. CASE Named(name) # {}
  <2>1. Tail(b.todo) \in Seq(RoleName)
    BY <1>2
  <2>2. asking' = [asking EXCEPT ![s] = [b EXCEPT !.todo = Tail(b.todo)]] /\ raced' = raced
    BY <1>1, <1>4 DEF CountDefault
  <2>3. PICK c \in Request : c.pc = "seed" /\ asking' = [asking EXCEPT ![s] = c]
    BY <1>2, <2>1, <2>2, RequestSeeds
  <2>4. Recalls(c) /\ \A n \in RoleName : ~Makes(c, n)
    BY <2>3 DEF Recalls, Makes
  <2>5. QED
    BY <1>2, <2>2, <2>3, <2>4, RolesAsk
<1>5. QED
  BY <1>3, <1>4

LEMMA PlantInv ==
  ASSUME RoleInv, NEW s \in Asker, Plant(s)
  PROVE  RoleInv'
<1>1. PICK b \in Request : b = asking[s]
  BY DEF RoleInv, RoleTyped
<1>2. b.pc = "plant" /\ b.todo \in Seq(RoleName) /\ b.todo # <<>>
  BY <1>1, RequestIs DEF Plant, RoleInv, RoleTyped, Recalls
<1>3. Head(b.todo) \in RoleName /\ Tail(b.todo) \in Seq(RoleName) /\ Makes(b, Head(b.todo))
  BY <1>2 DEF Makes
<1>4. asking' = [asking EXCEPT ![s] = [b EXCEPT !.pc = "seed", !.todo = Tail(b.todo)]]
  BY <1>1 DEF Plant
<1>5. PICK c \in Request : c.pc = "seed" /\ asking' = [asking EXCEPT ![s] = c]
  BY <1>3, <1>4, RequestSeeds
<1>6. PICK r \in RoleRow : r = NewRole(Head(b.todo), Full, TRUE) /\ ~r.deleted /\ r.name = Head(b.todo)
  BY <1>3, NewRoleType
<1>7. role' = Append(role, r) /\ raced' = raced
  BY <1>1, <1>6 DEF Plant
<1>8. QED
  BY <1>1, <1>3, <1>5, <1>6, <1>7, RolesInsert

LEMMA CreateRoleInv ==
  ASSUME RoleInv, NEW s \in Asker, NEW n \in RoleName, NEW p \in Body, CreateRole(s, n, p)
  PROVE  RoleInv'
<1>1. PICK c \in Request : /\ c.pc = "create" /\ c.name = n /\ UNCHANGED role
                           /\ asking' = [asking EXCEPT ![s] = c]
  <2>1. asking' = [asking EXCEPT ![s] = Creating(NoRequest, n, p)] /\ UNCHANGED role
    BY DEF CreateRole, Begin, Creating
  <2>2. QED
    BY <2>1, NoRequestType, RequestCreates
<1>2. raced \subseteq raced' /\ (Making(n) = {} \/ n \in raced') /\ Named(n) = {}
  BY DEF CreateRole, Join
<1>3. Recalls(c) /\ \A m \in RoleName : Makes(c, m) => m = n
  BY <1>1 DEF Recalls, Makes
<1>4. QED
  BY <1>1, <1>2, <1>3, RolesAsk

LEMMA InsertRoleInv ==
  ASSUME RoleInv, NEW s \in Asker, InsertRole(s)
  PROVE  RoleInv'
<1>1. PICK b \in Request : b = asking[s]
  BY DEF RoleInv, RoleTyped
<1>2. b.pc = "create" /\ b.name \in RoleName
  BY <1>1 DEF InsertRole, RoleInv, RoleTyped, Recalls
<1>3. SanitizePermissions(b.perms) \in SUBSET Full
  BY DEF SanitizePermissions
<1>4. PICK r \in RoleRow : /\ r = NewRole(b.name, SanitizePermissions(b.perms), FALSE)
                           /\ ~r.deleted /\ r.name = b.name
  BY <1>2, <1>3, NewRoleType
<1>5. /\ role' = Append(role, r) /\ raced' = raced /\ Makes(b, r.name)
      /\ asking' = [asking EXCEPT ![s] = NoRequest]
  BY <1>1, <1>2, <1>4 DEF InsertRole, Finish, Makes
<1>6. QED
  BY <1>1, <1>2, <1>4, <1>5, NoRequestType, RolesInsert

LEMMA UpdateRoleInv ==
  ASSUME RoleInv, NEW s \in Asker, NEW i \in LiveRoles, NEW n \in RoleName, NEW p \in Body,
         UpdateRole(s, i, n, p)
  PROVE  RoleInv'
<1>1. i \in DOMAIN role /\ i \in Nat
  BY DEF LiveRoles, RoleInv, RoleTyped
<1>2. PICK m \in RoleName \cup {""} : m = IF n = role[i].name THEN "" ELSE n
  OBVIOUS
<1>3. UNCHANGED <<role, raced>> /\ asking' = [asking EXCEPT ![s] = Updating(NoRequest, i, p, m)]
  BY <1>2 DEF UpdateRole, Begin, Updating
<1>4. PICK c \in Request : c.pc = "update" /\ c.id = i /\ asking' = [asking EXCEPT ![s] = c]
  BY <1>1, <1>3, NoRequestType, RequestUpdates
<1>5. Recalls(c) /\ \A q \in RoleName : ~Makes(c, q)
  BY <1>1, <1>4 DEF Recalls, Makes
<1>6. QED
  BY <1>3, <1>4, <1>5, RolesAsk

LEMMA RowKept ==
  ASSUME RoleInv, NEW i \in DOMAIN role
  PROVE  KeepsName(role[i], role[i])
  BY DEF RoleInv, RoleTyped, BuiltInStays, LiveRoles, KeepsName

LEMMA ChangeRow ==
  ASSUME RoleInv, NEW s \in Asker, NEW i \in DOMAIN role, NEW r \in RoleRow,
         KeepsName(r, role[i]), Change(i, r), Finish(s), raced' = raced
  PROVE  RoleInv'
<1>1. role \in Seq(RoleRow) /\ DOMAIN role = 1..Len(role) /\ Len(role) \in Nat
  BY DEF RoleInv, RoleTyped
<1>2. /\ role' \in Seq(RoleRow) /\ DOMAIN role' = DOMAIN role
      /\ role'[i] = r /\ \A j \in DOMAIN role \ {i} : role'[j] = role[j]
  BY <1>1 DEF Change
<1>3. \A j \in DOMAIN role : KeepsName(role'[j], role[j])
  BY <1>2, RowKept
<1>4. Recalls(NoRequest)' /\ \A n \in RoleName : ~Makes(NoRequest, n)
  BY NoRequestType DEF Recalls, Makes
<1>5. asking' = [asking EXCEPT ![s] = NoRequest]
  BY DEF Finish
<1>6. QED
  BY <1>2, <1>3, <1>4, <1>5, NoRequestType, RolesChange

LEMMA ApplyUpdateInv ==
  ASSUME RoleInv, NEW s \in Asker, ApplyUpdate(s)
  PROVE  RoleInv'
<1>1. PICK b \in Request : b = asking[s]
  BY DEF RoleInv, RoleTyped
<1>2. b.name \in RoleName \cup {""} /\ Finish(s) /\ raced' = raced
  BY <1>1, RequestIs DEF ApplyUpdate
<1>3. CASE b.id \in LiveRoles
  <2>1. b.id \in DOMAIN role
    BY <1>3 DEF LiveRoles
  <2>2. PICK old \in RoleRow : old = role[b.id]
    BY <2>1 DEF RoleInv, RoleTyped
  <2>3. KeepsName(old, old) /\ ~old.deleted /\ old.name \in RoleName /\ old.renamed \in BOOLEAN
    BY <1>3, <2>1, <2>2, RowKept, RoleRowIs DEF LiveRoles, RoleInv, RoleTyped
  <2>4. PICK n \in RoleName : n = IF b.name = "" THEN old.name ELSE b.name
    BY <1>2, <2>3
  <2>5. PICK r \in RoleRow : /\ r = Updated(old, n, b.perms, b.name) /\ r.name = n
                             /\ b.name # "" => r.renamed
                             /\ b.name = "" => r.renamed = old.renamed
                             /\ r.deleted = old.deleted /\ r.system = old.system
    <3> DEFINE u == Updated(old, n, b.perms, b.name)
    <3>1. u \in RoleRow
      BY DEF RoleRow, Updated, SanitizePermissions
    <3>2. u.name = n
      BY DEF RoleRow, Updated
    <3>3. (b.name # "" => u.renamed) /\ (b.name = "" => u.renamed = old.renamed)
      BY DEF RoleRow, Updated
    <3>4. u.deleted = old.deleted
      BY DEF RoleRow, Updated
    <3>5. u.system = old.system
      BY DEF RoleRow, Updated
    <3> HIDE DEF u
    <3>6. QED
      BY <3>1, <3>2, <3>3, <3>4, <3>5 DEF u
  <2>6. Change(b.id, r)
    BY <1>1, <1>3, <2>2, <2>4, <2>5 DEF ApplyUpdate, Updated
  <2>7. KeepsName(r, old)
    BY <2>3, <2>4, <2>5 DEF KeepsName
  <2>8. QED
    BY <1>2, <2>1, <2>2, <2>6, <2>7, ChangeRow
<1>4. CASE b.id \notin LiveRoles
  <2>1. UNCHANGED role
    BY <1>1, <1>4 DEF ApplyUpdate
  <2>2. QED
    BY <1>2, <2>1, RolesEnd
<1>5. QED
  BY <1>3, <1>4

LEMMA DeleteRoleInv ==
  ASSUME RoleInv, NEW s \in Asker, NEW i \in LiveRoles, DeleteRole(s, i)
  PROVE  RoleInv'
<1>1. i \in DOMAIN role /\ i \in Nat
  BY DEF LiveRoles, RoleInv, RoleTyped
<1>2. PICK c \in Request : /\ c.pc = "delete" /\ c.id = i /\ UNCHANGED <<role, raced>>
                           /\ asking' = [asking EXCEPT ![s] = c]
  BY <1>1, NoRequestType, RequestDeletes DEF DeleteRole, Begin
<1>3. Recalls(c) /\ \A q \in RoleName : ~Makes(c, q)
  BY <1>1, <1>2 DEF Recalls, Makes, DeleteRole
<1>4. QED
  BY <1>2, <1>3, RolesAsk

LEMMA ApplyDeleteInv ==
  ASSUME RoleInv, NEW s \in Asker, ApplyDelete(s)
  PROVE  RoleInv'
<1>1. PICK i \in DOMAIN role : i = asking[s].id /\ ~role[i].system
  BY DEF ApplyDelete, RoleInv, RoleTyped, Recalls
<1>2. PICK old \in RoleRow : old = role[i]
  BY DEF RoleInv, RoleTyped
<1>3. Gone(old) \in RoleRow /\ KeepsName(Gone(old), old)
  BY <1>1, <1>2, GoneType DEF KeepsName
<1>4. Change(i, Gone(old)) /\ Finish(s) /\ raced' = raced
  BY <1>1, <1>2 DEF ApplyDelete
<1>5. QED
  BY <1>2, <1>3, <1>4, ChangeRow

LEMMA DeleteRolesInv ==
  ASSUME RoleInv, NEW ids \in SUBSET LiveRoles, DeleteRoles(ids)
  PROVE  RoleInv'
<1>1. role \in Seq(RoleRow) /\ DOMAIN role = 1..Len(role) /\ Len(role) \in Nat
  BY DEF RoleInv, RoleTyped
<1>2. \A i \in DOMAIN role : Gone(role[i]) \in RoleRow
        /\ (~role[i].system => KeepsName(Gone(role[i]), role[i]))
  BY <1>1, GoneType DEF KeepsName
<1>3. DOMAIN role' = DOMAIN role /\ \A i \in DOMAIN role :
        role'[i] = IF i \in ids /\ ~role[i].system THEN Gone(role[i]) ELSE role[i]
  BY DEF DeleteRoles
<1>4. \A i \in DOMAIN role : role'[i] \in RoleRow /\ KeepsName(role'[i], role[i])
  BY <1>1, <1>2, <1>3, RowKept
<1>5. role' \in Seq(RoleRow)
  BY <1>1, <1>3, <1>4 DEF DeleteRoles
<1>6. BuiltInStays' /\ \A i \in LiveRoles' : role'[i].name \in RoleName
  BY <1>3, <1>4 DEF KeepsName, BuiltInStays, LiveRoles
<1>7. \A s \in Asker : Recalls(asking[s])'
  BY <1>3, <1>4 DEF DeleteRoles, Recalls, KeepsName, RoleInv, RoleTyped
<1>8. ASSUME NEW n \in RoleName PROVE NameHeld(n)'
  <2>1. Plain(n)' \in SUBSET Plain(n)
    BY <1>3, <1>4 DEF Plain, Named, LiveRoles, KeepsName
  <2>2. Making(n)' = Making(n) /\ raced' = raced
    BY DEF Making, Makes, DeleteRoles
  <2>3. QED
    BY <2>1, <2>2 DEF RoleInv, NamesHeld, NameHeld
<1>9. QED
  BY <1>5, <1>6, <1>7, <1>8 DEF RoleInv, RoleTyped, NamesHeld, DeleteRoles

LEMMA RolesInitInv == RolesInit => RoleInv
<1> SUFFICES ASSUME RolesInit PROVE RoleInv
  OBVIOUS
<1>1. role = <<>> /\ DOMAIN role = {} /\ role \in Seq(RoleRow)
  BY DEF RolesInit
<1>2. \A s \in Asker : asking[s] = NoRequest
  BY DEF RolesInit
<1>3. RoleTyped
  BY <1>1, <1>2, NoRequestType DEF RolesInit, RoleTyped, Recalls, LiveRoles, BuiltInStays
<1>4. ASSUME NEW n \in RoleName PROVE NameHeld(n)
  <2>1. Plain(n) = {} /\ Making(n) = {}
    BY <1>1, <1>2, NoRequestType DEF Plain, Named, LiveRoles, Making, Makes
  <2>2. QED
    BY <2>1 DEF NameHeld
<1>5. QED
  BY <1>3, <1>4 DEF RoleInv, NamesHeld

LEMMA RolesNextInv == RoleInv /\ [RolesNext]_roleVars => RoleInv'
<1> SUFFICES ASSUME RoleInv, [RolesNext]_roleVars PROVE RoleInv'
  OBVIOUS
<1>1. ASSUME NEW s \in Asker,
             \/ ListRoles(s) \/ CountDefault(s) \/ Plant(s) \/ InsertRole(s)
             \/ ApplyUpdate(s) \/ ApplyDelete(s)
      PROVE  RoleInv'
  BY <1>1, ListRolesInv, CountDefaultInv, PlantInv, InsertRoleInv, ApplyUpdateInv, ApplyDeleteInv
<1>2. ASSUME NEW s \in Asker, Listed(s) \/ DropRequest(s)
      PROVE  RoleInv'
  BY <1>2, RolesEnd DEF Listed, DropRequest
<1>3. ASSUME NEW s \in Asker, NEW n \in RoleName, NEW p \in Body, CreateRole(s, n, p)
      PROVE  RoleInv'
  BY <1>3, CreateRoleInv
<1>4. ASSUME NEW s \in Asker, NEW i \in LiveRoles,
             \/ DeleteRole(s, i)
             \/ \E n \in RoleName, p \in Body : UpdateRole(s, i, n, p)
      PROVE  RoleInv'
  BY <1>4, DeleteRoleInv, UpdateRoleInv
<1>5. ASSUME NEW ids \in SUBSET LiveRoles, DeleteRoles(ids)
      PROVE  RoleInv'
  BY <1>5, DeleteRolesInv
<1>6. CASE UNCHANGED roleVars
  <2>1. role' = role /\ asking' = asking /\ raced' = raced
    BY <1>6 DEF roleVars
  <2>2. RoleTyped'
    BY <2>1 DEF RoleInv, RoleTyped, Recalls, LiveRoles, BuiltInStays
  <2>3. NamesHeld'
    BY <2>1 DEF RoleInv, NamesHeld, NameHeld, Plain, Making, Named, LiveRoles, Makes
  <2>4. QED
    BY <2>2, <2>3 DEF RoleInv
<1>7. QED
  BY <1>1, <1>2, <1>3, <1>4, <1>5, <1>6 DEF RolesNext

LEMMA RolesAlwaysInv == RolesInit /\ [][RolesNext]_roleVars => []RoleInv
  BY RolesInitInv, RolesNextInv, PTL

(* Whatever requests overlap or die, a live role has a name somebody gave  *)
(* it and only permissions of the catalogue.                               *)
THEOREM RolesTyped == RolesInit /\ [][RolesNext]_roleVars => []RolesTypeOK
<1>1. RoleInv => RolesTypeOK
  <2> SUFFICES ASSUME RoleInv, NEW i \in LiveRoles
               PROVE  role[i].name \in RoleName /\ role[i].perms \subseteq Full
    BY DEF RolesTypeOK
  <2>1. role[i] \in RoleRow
    BY DEF RoleInv, RoleTyped, LiveRoles
  <2>2. QED
    BY <2>1, RoleRowIs DEF RoleInv, RoleTyped
<1>2. QED
  BY <1>1, RolesAlwaysInv, PTL

(* No request and no overlap of requests deletes a built-in role. *)
THEOREM BuiltInRolesStay == RolesInit /\ [][RolesNext]_roleVars => []BuiltInStays
<1>1. RoleInv => BuiltInStays
  BY DEF RoleInv, RoleTyped
<1>2. QED
  BY <1>1, RolesAlwaysInv, PTL

(* Seeding and creating give a name one role, whatever is renamed, deleted *)
(* or dies in between, as long as no two requests found it unused at once. *)
THEOREM NamesAreApart == RolesInit /\ [][RolesNext]_roleVars => []NamesStayApart
<1>1. RoleInv => NamesStayApart
  <2> SUFFICES ASSUME RoleInv, NEW n \in RoleName \ raced
               PROVE  \A i, j \in Plain(n) : i = j
    BY DEF NamesStayApart, Plain
  <2>1. QED
    BY DEF RoleInv, NamesHeld, NameHeld
<1>2. QED
  BY <1>1, RolesAlwaysInv, PTL

-----------------------------------------------------------------------------
(* Accounts.                                                               *)

LEMMA VisitIs ==
  \A c \in Visit : /\ c.pc \in {"none", "register", "company", "save", "invite", "attach"}
                   /\ c.row \in UserRow /\ c.id \in Nat /\ c.owner \in Nat
  BY DEF Visit

Registering(c, row) == [c EXCEPT !.pc = "register", !.row = row]
Founding(c, id) == [c EXCEPT !.pc = "company", !.id = id]
Saving(c, id, row) == [c EXCEPT !.pc = "save", !.id = id, !.row = row]
Inviting(c, owner, row) == [c EXCEPT !.pc = "invite", !.owner = owner, !.row = row]
Attaching(c, owner, id) == [c EXCEPT !.pc = "attach", !.owner = owner, !.id = id]
Joining(c, id, owner) == [c EXCEPT !.pc = "attach", !.id = id, !.owner = owner]

LEMMA RegisteringType ==
  ASSUME NEW c \in Visit, NEW row \in UserRow
  PROVE  LET d == Registering(c, row) IN d \in Visit /\ d.pc = "register" /\ d.row = row
  BY DEF Visit, Registering

LEMMA FoundingType ==
  ASSUME NEW c \in Visit, NEW id \in Nat
  PROVE  LET d == Founding(c, id) IN d \in Visit /\ d.pc = "company" /\ d.id = id
  BY DEF Visit, Founding

LEMMA SavingType ==
  ASSUME NEW c \in Visit, NEW id \in Nat, NEW row \in UserRow
  PROVE  LET d == Saving(c, id, row) IN
         d \in Visit /\ d.pc = "save" /\ d.id = id /\ d.row = row
  BY DEF Visit, Saving

LEMMA InvitingType ==
  ASSUME NEW c \in Visit, NEW owner \in Nat, NEW row \in UserRow
  PROVE  LET d == Inviting(c, owner, row) IN
         d \in Visit /\ d.pc = "invite" /\ d.owner = owner /\ d.row = row
  BY DEF Visit, Inviting

LEMMA AttachingType ==
  ASSUME NEW c \in Visit, NEW owner \in Nat, NEW id \in Nat
  PROVE  LET d == Attaching(c, owner, id) IN
         d \in Visit /\ d.pc = "attach" /\ d.owner = owner /\ d.id = id
  BY DEF Visit, Attaching

LEMMA JoiningType ==
  ASSUME NEW c \in Visit, NEW owner \in Nat, NEW id \in Nat
  PROVE  LET d == Joining(c, id, owner) IN
         d \in Visit /\ d.pc = "attach" /\ d.owner = owner /\ d.id = id
  BY DEF Visit, Joining

LEMMA UserRowIs ==
  \A r \in UserRow : /\ r.email \in Email \cup {Elsewhere} /\ r.password \in BOOLEAN
                     /\ r.google \in BOOLEAN
  BY DEF UserRow

LEMMA NewUserType ==
  ASSUME NEW e \in Email \cup {Elsewhere}, NEW p \in BOOLEAN, NEW g \in BOOLEAN
  PROVE  NewUser(e, p, g) \in UserRow /\ NewUser(e, p, g).email = e
  BY DEF NewUser, UserRow

LEMMA NoVisitType == NoVisit \in Visit /\ NoVisit.pc = "none"
<1>1. NoUser \in UserRow
  BY NewUserType DEF NoUser
<1>2. QED
  BY <1>1 DEF NoVisit, Visit

(* Linking sets the Google account, editing the address. *)
LEMMA LinkedRow ==
  ASSUME NEW r \in UserRow
  PROVE  LET u == [r EXCEPT !.google = TRUE] IN
         u \in UserRow /\ u.email = r.email /\ u.password = r.password
  BY DEF UserRow

LEMMA EditedRow ==
  ASSUME NEW r \in UserRow, NEW e \in Email \cup {Elsewhere}
  PROVE  LET u == [r EXCEPT !.email = e] IN
         u \in UserRow /\ u.password = r.password
  BY DEF UserRow

(* The first row with an address, if there is one. *)
LEMMA FirstIs ==
  ASSUME AccountTyped, NEW e, WithEmail(e) # {}
  PROVE  FirstWith(e) \in WithEmail(e)
<1> DEFINE ids == WithEmail(e)
           T == {1..i : i \in ids}
<1>1. \A i \in ids : i \in Nat \ {0}
  BY DEF WithEmail, AccountTyped
<1>2. \A i \in ids : IsFiniteSet(1..i) /\ 1..i \in SUBSET Nat
  <2> TAKE i \in ids
  <2>1. i \in Int
    BY <1>1
  <2>2. IsFiniteSet(1..i)
    BY <2>1, FS_Interval
  <2>3. QED
    BY <2>1, <2>2
<1>3. T \subseteq FiniteSubsetsOf(Nat) /\ T # {}
  BY <1>2 DEF FiniteSubsetsOf
<1>4. \E x \in T : \A y \in T : <<y, x>> \notin StrictSubsetOrdering(Nat)
  <2> HIDE DEF T
  <2> QED
    BY <1>3, FS_StrictSubsetOrderingWellFounded, WFMin
<1>5. PICK i \in ids : \A j \in ids : <<1..j, 1..i>> \notin StrictSubsetOrdering(Nat)
  BY <1>4
<1>6. \A j \in ids : i <= j
  <2> SUFFICES ASSUME NEW j \in ids, j < i PROVE FALSE
    BY <1>1
  <2>1. i \in Nat /\ j \in Nat
    BY <1>1
  <2>2. 1..j \subseteq 1..i /\ i \in 1..i /\ i \notin 1..j
    BY <1>1, <2>1
  <2>3. QED
    BY <1>2, <1>5, <2>2 DEF StrictSubsetOrdering
<1>7. QED
  BY <1>5, <1>6 DEF FirstWith

-----------------------------------------------------------------------------
(* A request changes; rows are added or written over with their passwords, *)
(* and a company is founded only by the one connection about to do it.     *)
LEMMA AccountsMove ==
  ASSUME AccountTyped, NEW v \in Visitor, NEW c \in Visit,
         visit' = [visit EXCEPT ![v] = c],
         user' \in Seq(UserRow), companies' \in Seq(0..1), Len(companies') = Len(user'),
         DOMAIN user \subseteq DOMAIN user',
         edited \subseteq edited',
         \A i \in DOMAIN user : user'[i].password = user[i].password,
         \A i \in DOMAIN user \ edited' : user'[i].email = user[i].email,
         \A i \in DOMAIN user :
           \/ companies'[i] = companies[i]
           \/ /\ companies[i] = 0
              /\ \A w \in Visitor \ {v} : ~(visit[w].pc = "company" /\ visit[w].id = i),
         \A m \in members' \ members :
           m[1] \in DOMAIN user /\ m[2] \in DOMAIN user /\ companies[m[1]] = 1,
         Knows(c)',
         c.pc = "company" =>
           \A w \in Visitor \ {v} : visit[w].pc = "company" => visit[w].id # c.id
  PROVE  AccountTyped'
<1>1. visit' \in [Visitor -> Visit] /\ visit'[v] = c
      /\ \A w \in Visitor \ {v} : visit'[w] = visit[w]
  BY DEF AccountTyped
<1>2. ASSUME NEW w \in Visitor PROVE Knows(visit[w])'
  <2>1. CASE w = v
    BY <1>1, <2>1 DEF Knows
  <2>2. CASE w # v
    <3>1. Knows(visit[w]) /\ visit'[w] = visit[w]
      BY <1>1, <2>2 DEF AccountTyped
    <3>2. visit[w].pc = "company" => visit[w].id \in DOMAIN user' /\ companies'[visit[w].id] = 0
      BY <2>2, <3>1 DEF Knows
    <3>3. visit[w].pc \in {"save", "attach"} => visit[w].id \in DOMAIN user'
      BY <3>1 DEF Knows
    <3>4. visit[w].pc = "save" => visit[w].row.password = user'[visit[w].id].password
      BY <3>1 DEF Knows
    <3>5. visit[w].pc \in {"invite", "attach"} =>
            visit[w].owner \in DOMAIN user' /\ companies'[visit[w].owner] = 1
      BY <3>1 DEF Knows
    <3>6. visit[w].pc = "save" /\ visit[w].id \notin edited' =>
            visit[w].row.email = user'[visit[w].id].email
      BY <3>1 DEF Knows
    <3>7. QED
      BY <3>1, <3>2, <3>3, <3>4, <3>5, <3>6 DEF Knows
  <2>3. QED
    BY <2>1, <2>2
<1>3. OneFounder'
  BY <1>1 DEF OneFounder, AccountTyped
<1>4. ASSUME NEW m \in members'
      PROVE  m[1] \in DOMAIN user' /\ m[2] \in DOMAIN user' /\ companies'[m[1]] = 1
  <2>1. m[1] \in DOMAIN user /\ m[2] \in DOMAIN user /\ companies[m[1]] = 1
    BY DEF AccountTyped
  <2>2. QED
    BY <2>1
<1>5. QED
  BY <1>1, <1>2, <1>3, <1>4 DEF AccountTyped

LEMMA AddressMoves ==
  ASSUME AccountTyped, NEW e \in Email, AddressHeld(e), NEW v \in Visitor, NEW c \in Visit,
         visit' = [visit EXCEPT ![v] = c], unsure \subseteq unsure',
         \/ Unedited(e)' \subseteq Unedited(e) /\ ~Adds(c, e)
         \/ Unedited(e)' = {} /\ (Adding(e) = {} \/ e \in unsure')
         \/ e \in unsure'
         \/ /\ \E x : Unedited(e)' \subseteq Unedited(e) \cup {x}
            /\ Adds(visit[v], e) /\ ~Adds(c, e)
  PROVE  AddressHeld(e)'
<1>1. visit'[v] = c /\ \A w \in Visitor \ {v} : visit'[w] = visit[w]
  BY DEF AccountTyped
<1>2. Adding(e)' \subseteq Adding(e) \cup {v} /\ (~Adds(c, e) => v \notin Adding(e)')
  BY <1>1 DEF Adding, Adds
<1>3. CASE e \in unsure'
  BY <1>3 DEF AddressHeld
<1>4. CASE e \notin unsure' /\ Unedited(e)' \subseteq Unedited(e) /\ ~Adds(c, e)
  BY <1>2, <1>4 DEF AddressHeld
<1>5. CASE e \notin unsure' /\ Unedited(e)' = {} /\ Adding(e) = {}
  BY <1>2, <1>5 DEF AddressHeld
<1>6. CASE /\ e \notin unsure' /\ \E x : Unedited(e)' \subseteq Unedited(e) \cup {x}
           /\ Adds(visit[v], e) /\ ~Adds(c, e)
  <2>1. v \in Adding(e)
    BY <1>6 DEF Adding
  <2>2. Unedited(e) = {} /\ Adding(e) = {v}
    BY <1>6, <2>1 DEF AddressHeld
  <2>3. Adding(e)' = {} /\ \A i, j \in Unedited(e)' : i = j
    BY <1>2, <1>6, <2>2
  <2>4. QED
    BY <2>3 DEF AddressHeld
<1>7. QED
  BY <1>3, <1>4, <1>5, <1>6

(* A request is begun, goes on or ends without touching a row. *)
LEMMA AccountsAsk ==
  ASSUME AccountInv, NEW v \in Visitor, NEW c \in Visit,
         visit' = [visit EXCEPT ![v] = c], UNCHANGED <<user, companies>>,
         edited \subseteq edited', unsure \subseteq unsure',
         \A m \in members' \ members :
           m[1] \in DOMAIN user /\ m[2] \in DOMAIN user /\ companies[m[1]] = 1,
         Knows(c)', c.pc # "company",
         \A e \in Email :
           Adds(c, e) => (WithEmail(e) = {} /\ Adding(e) = {}) \/ e \in unsure'
  PROVE  AccountInv'
<1>1. AccountTyped'
  BY AccountsMove DEF AccountInv, AccountTyped
<1>2. ASSUME NEW e \in Email PROVE AddressHeld(e)'
  <2>1. AddressHeld(e) /\ Unedited(e)' \subseteq Unedited(e)
    BY DEF AccountInv, AddressesHeld, Unedited, WithEmail
  <2>2. WithEmail(e) = {} => Unedited(e) = {}
    BY DEF Unedited
  <2>3. QED
    BY <2>1, <2>2, AddressMoves DEF AccountInv
<1>3. QED
  BY <1>1, <1>2 DEF AccountInv, AddressesHeld

LEMMA QuietVisit ==
  /\ NoVisit \in Visit /\ Knows(NoVisit) /\ Knows(NoVisit)' /\ NoVisit.pc = "none"
  /\ \A e \in Email : ~Adds(NoVisit, e)
  BY NoVisitType DEF Knows, Adds

(* The address of a request is inserted without a doubt only if nobody     *)
(* else has it or inserts it.                                              *)
LEMMA AddIs ==
  ASSUME NEW v \in Visitor, NEW c \in Visit, NEW failed \in BOOLEAN, Add(v, c, failed),
         failed \/ WithEmail(c.row.email) = {}
  PROVE  /\ visit' = [visit EXCEPT ![v] = c] /\ UNCHANGED <<user, companies, members, edited>>
         /\ unsure \subseteq unsure'
         /\ \A e \in Email :
              Adds(c, e) => (WithEmail(e) = {} /\ Adding(e) = {}) \/ e \in unsure'
  BY DEF Add, Enter, Adds

(* A row is inserted by a connection that did not find its address. *)
LEMMA AccountsInsert ==
  ASSUME AccountInv, NEW v \in Visitor, NEW c \in Visit, visit' = [visit EXCEPT ![v] = c],
         visit[v].pc \in {"register", "invite"}, NEW r \in UserRow, r = visit[v].row,
         user' = Append(user, r), companies' = Append(companies, 0),
         UNCHANGED <<members, edited, unsure>>,
         c.pc \in {"company", "attach"}, c.id = Len(user) + 1,
         c.pc = "attach" => c.owner \in DOMAIN user /\ companies[c.owner] = 1
  PROVE  AccountInv'
<1>1. /\ user \in Seq(UserRow) /\ Len(user) \in Nat /\ DOMAIN user = 1..Len(user)
      /\ companies \in Seq(0..1) /\ Len(companies) = Len(user) /\ DOMAIN companies = DOMAIN user
  BY DEF AccountInv, AccountTyped
<1>2. /\ user' \in Seq(UserRow) /\ DOMAIN user' = DOMAIN user \cup {Len(user) + 1}
      /\ user'[Len(user) + 1] = r /\ \A i \in DOMAIN user : user'[i] = user[i]
      /\ Len(user') = Len(user) + 1
  BY <1>1
<1>3. /\ companies' \in Seq(0..1) /\ Len(companies') = Len(user')
      /\ companies'[Len(user) + 1] = 0 /\ \A i \in DOMAIN user : companies'[i] = companies[i]
  BY <1>1
<1>4. AccountTyped'
  <2>1. Knows(c)'
    BY <1>2, <1>3 DEF Knows
  <2>2. \A w \in Visitor : visit[w].pc = "company" => visit[w].id # c.id
    BY <1>1 DEF Knows, AccountInv, AccountTyped
  <2>3. QED
    BY <1>2, <1>3, <2>1, <2>2, AccountsMove DEF AccountInv
<1>5. ASSUME NEW e \in Email PROVE AddressHeld(e)'
  <2>1. AddressHeld(e) /\ ~Adds(c, e)
    BY DEF AccountInv, AddressesHeld, Adds
  <2>2. \A i \in Unedited(e)' : i \in Unedited(e) \/ (i = Len(user) + 1 /\ r.email = e)
    BY <1>2 DEF Unedited, WithEmail
  <2>3. CASE r.email = e
    <3>1. Unedited(e)' \subseteq Unedited(e) \cup {Len(user) + 1} /\ Adds(visit[v], e)
      BY <2>2, <2>3 DEF Adds
    <3>2. QED
      BY <2>1, <3>1, AddressMoves DEF AccountInv
  <2>4. CASE r.email # e
    <3>1. Unedited(e)' \subseteq Unedited(e)
      BY <2>2, <2>4
    <3>2. QED
      BY <2>1, <3>1, AddressMoves DEF AccountInv
  <2>5. QED
    BY <2>3, <2>4
<1>6. QED
  BY <1>4, <1>5 DEF AccountInv, AddressesHeld

LEMMA NewAccountIs ==
  ASSUME NEW e \in Email, NEW p \in BOOLEAN, NEW g \in BOOLEAN
  PROVE  LET c == NewAccount(e, p, g) IN
         c \in Visit /\ c.pc = "register" /\ c.row.email = e
<1>1. NewUser(e, p, g) \in UserRow /\ NewUser(e, p, g).email = e
  BY NewUserType
<1>2. NewAccount(e, p, g) = Registering(NoVisit, NewUser(e, p, g))
  BY DEF NewAccount, Registering
<1>3. QED
  BY <1>1, <1>2, NoVisitType, RegisteringType

(* Somebody comes whose address was not found, or not looked for in vain. *)
LEMMA NewAccountInv ==
  ASSUME AccountInv, NEW v \in Visitor, NEW e \in Email, NEW p \in BOOLEAN, NEW g \in BOOLEAN,
         NEW failed \in BOOLEAN, failed \/ WithEmail(e) = {}, Add(v, NewAccount(e, p, g), failed)
  PROVE  AccountInv'
<1>1. PICK c \in Visit : c = NewAccount(e, p, g) /\ c.pc = "register" /\ c.row.email = e
  BY NewAccountIs
<1>2. Knows(c)'
  BY <1>1 DEF Knows
<1>3. QED
  BY <1>1, <1>2, AddIs, AccountsAsk

LEMMA GoogleAuthInv ==
  ASSUME AccountInv, NEW v \in Visitor, NEW e \in Email, NEW failed \in BOOLEAN,
         GoogleAuth(v, e, failed)
  PROVE  AccountInv'
<1>1. CASE (failed \/ WithEmail(e) = {}) /\ Add(v, NewAccount(e, FALSE, TRUE), failed)
  BY <1>1, NewAccountInv
<1>2. CASE /\ WithEmail(e) # {} /\ ~user[FirstWith(e)].google
           /\ Enter(v, [NoVisit EXCEPT !.pc = "save", !.id = FirstWith(e),
                          !.row = [user[FirstWith(e)] EXCEPT !.google = TRUE]])
           /\ UNCHANGED <<edited, unsure>>
  <2>1. PICK i : i = FirstWith(e) /\ i \in WithEmail(e)
    BY <1>2, FirstIs DEF AccountInv
  <2>2. i \in DOMAIN user /\ i \in Nat /\ user[i] \in UserRow
    BY <2>1 DEF WithEmail, AccountInv, AccountTyped
  <2>3. PICK u \in UserRow : /\ u = [user[i] EXCEPT !.google = TRUE]
                             /\ u.email = user[i].email /\ u.password = user[i].password
    BY <2>2, LinkedRow
  <2>4. PICK c \in Visit : c = Saving(NoVisit, i, u)
    BY <2>2, NoVisitType, SavingType
  <2>5. c.pc = "save" /\ c.id = i /\ c.row = u
    BY <2>2, <2>4, NoVisitType, SavingType
  <2>6. visit' = [visit EXCEPT ![v] = c] /\ UNCHANGED <<user, companies, members>>
    BY <1>2, <2>1, <2>3, <2>4 DEF Enter, Saving
  <2>7. Knows(c)'
    BY <2>2, <2>3, <2>5, <2>6 DEF Knows
  <2>8. \A a \in Email : ~Adds(c, a)
    BY <2>5 DEF Adds
  <2>9. QED
    BY <1>2, <2>5, <2>6, <2>7, <2>8, AccountsAsk
<1>3. QED
  BY <1>1, <1>2 DEF GoogleAuth

LEMMA RegisterInv ==
  ASSUME AccountInv, NEW v \in Visitor, Register(v)
  PROVE  AccountInv'
<1>1. PICK i \in Nat : i = Len(user) + 1
  BY DEF AccountInv, AccountTyped
<1>2. PICK c \in Visit : c = Founding(NoVisit, i) /\ c.pc = "company" /\ c.id = i
  BY NoVisitType, FoundingType
<1>3. visit' = [visit EXCEPT ![v] = c]
  BY <1>1, <1>2 DEF Register, Founding
<1>4. PICK r \in UserRow : r = visit[v].row
  BY VisitIs DEF AccountInv, AccountTyped
<1>5. /\ user' = Append(user, r) /\ companies' = Append(companies, 0)
      /\ UNCHANGED <<members, edited, unsure>>
      /\ visit[v].pc = "register"
  BY <1>4 DEF Register
<1>6. QED
  BY <1>1, <1>2, <1>3, <1>4, <1>5, AccountsInsert

LEMMA InviteInv ==
  ASSUME AccountInv, NEW v \in Visitor, Invite(v)
  PROVE  AccountInv'
<1>1. PICK i \in Nat : i = Len(user) + 1
  BY DEF AccountInv, AccountTyped
<1>2. PICK o \in Nat : o = visit[v].owner
  BY VisitIs DEF AccountInv, AccountTyped
<1>3. PICK c \in Visit : c = Joining(NoVisit, i, o) /\ c.pc = "attach" /\ c.id = i /\ c.owner = o
  BY NoVisitType, JoiningType
<1>4. visit' = [visit EXCEPT ![v] = c]
  BY <1>1, <1>2, <1>3 DEF Invite, Joining
<1>5. PICK r \in UserRow : r = visit[v].row
  BY VisitIs DEF AccountInv, AccountTyped
<1>6. /\ user' = Append(user, r) /\ companies' = Append(companies, 0)
      /\ UNCHANGED <<members, edited, unsure>>
      /\ visit[v].pc = "invite"
  BY <1>5 DEF Invite
<1>7. o \in DOMAIN user /\ companies[o] = 1
  BY <1>2, <1>6 DEF AccountInv, AccountTyped, Knows
<1>8. QED
  BY <1>1, <1>3, <1>4, <1>5, <1>6, <1>7, AccountsInsert

LEMMA IncorporateInv ==
  ASSUME AccountInv, NEW v \in Visitor, Incorporate(v)
  PROVE  AccountInv'
<1>1. PICK i : i = visit[v].id /\ i \in DOMAIN user /\ companies[i] = 0
  BY DEF Incorporate, AccountInv, AccountTyped, Knows
<1>2. /\ companies \in Seq(0..1) /\ Len(companies) = Len(user) /\ DOMAIN companies = DOMAIN user
      /\ user' = user /\ members' = members /\ visit' = [visit EXCEPT ![v] = NoVisit]
      /\ edited' = edited /\ unsure' = unsure
      /\ companies' = [companies EXCEPT ![i] = 1]
  BY <1>1 DEF Incorporate, Leave, AccountInv, AccountTyped
<1>3. companies' \in Seq(0..1) /\ Len(companies') = Len(user')
  <2>1. companies' \in Seq(0..1)
    BY <1>1, <1>2
  <2>2. Len(companies') = Len(companies)
    BY <1>1, <1>2
  <2>3. QED
    BY <1>2, <2>1, <2>2
<1>4. AccountTyped'
  <2>1. \A w \in Visitor \ {v} : ~(visit[w].pc = "company" /\ visit[w].id = i)
    BY <1>1 DEF Incorporate, AccountInv, AccountTyped, OneFounder
  <2>2. \A j \in DOMAIN user : companies'[j] = companies[j] \/ j = i
    BY <1>2
  <2>3. Knows(NoVisit)'
    BY NoVisitType DEF Knows
  <2>4. user' \in Seq(UserRow)
    BY <1>2 DEF AccountInv, AccountTyped
  <2>5. QED
    BY <1>1, <1>2, <1>3, <2>1, <2>2, <2>3, <2>4, NoVisitType, AccountsMove DEF AccountInv
<1>5. ASSUME NEW e \in Email PROVE AddressHeld(e)'
  <2>1. Unedited(e)' = Unedited(e)
    BY <1>2 DEF Unedited, WithEmail
  <2>2. QED
    BY <1>2, <2>1, QuietVisit, AddressMoves DEF AccountInv, AddressesHeld
<1>6. QED
  BY <1>4, <1>5 DEF AccountInv, AddressesHeld

LEMMA SaveUserInv ==
  ASSUME AccountInv, NEW v \in Visitor, SaveUser(v)
  PROVE  AccountInv'
<1>1. PICK i : i = visit[v].id /\ i \in DOMAIN user
  BY DEF SaveUser, AccountInv, AccountTyped, Knows
<1>2. PICK r \in UserRow : /\ r = visit[v].row /\ r.password = user[i].password
                           /\ i \notin edited => r.email = user[i].email
  BY <1>1, VisitIs DEF SaveUser, AccountInv, AccountTyped, Knows
<1>3. /\ companies' = companies /\ members' = members /\ visit' = [visit EXCEPT ![v] = NoVisit]
      /\ user' = [user EXCEPT ![i] = r] /\ edited' = edited /\ unsure' = unsure
  BY <1>1, <1>2 DEF SaveUser, Leave
<1>4. /\ user' \in Seq(UserRow) /\ Len(user') = Len(user) /\ DOMAIN user' = DOMAIN user
      /\ user'[i] = r /\ \A j \in DOMAIN user \ {i} : user'[j] = user[j]
  BY <1>1, <1>3 DEF AccountInv, AccountTyped
<1>5. AccountTyped'
  <2>1. Knows(NoVisit)'
    BY NoVisitType DEF Knows
  <2>2. companies' \in Seq(0..1) /\ Len(companies') = Len(user')
    BY <1>3, <1>4 DEF AccountInv, AccountTyped
  <2>3. /\ \A j \in DOMAIN user : user'[j].password = user[j].password
        /\ \A j \in DOMAIN user \ edited' : user'[j].email = user[j].email
    BY <1>2, <1>3, <1>4
  <2>4. QED
    BY <1>3, <1>4, <2>1, <2>2, <2>3, NoVisitType, AccountsMove DEF AccountInv
<1>6. ASSUME NEW e \in Email PROVE AddressHeld(e)'
  <2>1. Unedited(e)' \subseteq Unedited(e)
    BY <1>2, <1>3, <1>4 DEF Unedited, WithEmail
  <2>2. QED
    BY <1>3, <2>1, QuietVisit, AddressMoves DEF AccountInv, AddressesHeld
<1>7. QED
  BY <1>5, <1>6 DEF AccountInv, AddressesHeld

LEMMA AddMemberInv ==
  ASSUME AccountInv, NEW v \in Visitor, NEW o \in Owner \cap DOMAIN user, NEW e \in Email,
         AddMember(v, o, e)
  PROVE  AccountInv'
<1>1. PICK n \in Nat : n = o /\ n \in DOMAIN user /\ companies[n] = 1
  BY DEF AddMember, AccountInv, AccountTyped
<1>2. CASE /\ WithEmail(e) # {}
           /\ Enter(v, [NoVisit EXCEPT !.pc = "attach", !.owner = o, !.id = FirstWith(e)])
           /\ UNCHANGED <<edited, unsure>>
  <2>1. PICK i : i = FirstWith(e) /\ i \in DOMAIN user /\ i \in Nat
    BY <1>2, FirstIs DEF AccountInv, AccountTyped, WithEmail
  <2>2. PICK c \in Visit : c = Attaching(NoVisit, n, i) /\ c.pc = "attach" /\ c.owner = n /\ c.id = i
    <3>1. NoVisit \in Visit /\ i \in Nat
      BY <2>1, NoVisitType
    <3>2. LET d == Attaching(NoVisit, n, i) IN
          d \in Visit /\ d.pc = "attach" /\ d.owner = n /\ d.id = i
      BY <3>1, AttachingType
    <3>3. QED
      BY <3>2
  <2>3. visit' = [visit EXCEPT ![v] = c] /\ UNCHANGED <<user, companies, members>>
    BY <1>1, <1>2, <2>1, <2>2 DEF Enter, Attaching
  <2>4. Knows(c)' /\ \A a \in Email : ~Adds(c, a)
    BY <1>1, <2>1, <2>2, <2>3 DEF Knows, Adds
  <2>5. QED
    BY <1>2, <2>2, <2>3, <2>4, AccountsAsk
<1>3. CASE /\ WithEmail(e) = {}
           /\ Add(v, [NoVisit EXCEPT !.pc = "invite", !.owner = o,
                                     !.row = NewUser(e, FALSE, FALSE)], FALSE)
  <2>1. NewUser(e, FALSE, FALSE) \in UserRow /\ NewUser(e, FALSE, FALSE).email = e
    BY NewUserType
  <2>2. PICK c \in Visit : c = Inviting(NoVisit, n, NewUser(e, FALSE, FALSE))
    BY <1>1, <2>1, NoVisitType, InvitingType
  <2>3. c.pc = "invite" /\ c.owner = n /\ c.row = NewUser(e, FALSE, FALSE)
    <3>1. NoVisit \in Visit
      BY NoVisitType
    <3>2. LET d == Inviting(NoVisit, n, NewUser(e, FALSE, FALSE)) IN
          d.pc = "invite" /\ d.owner = n /\ d.row = NewUser(e, FALSE, FALSE)
      BY <2>1, <3>1, InvitingType
    <3>3. QED
      BY <2>2, <3>2
  <2>4. Add(v, c, FALSE) /\ WithEmail(c.row.email) = {}
    BY <1>1, <1>3, <2>1, <2>2, <2>3 DEF Inviting
  <2>5. UNCHANGED <<user, companies>>
    BY <2>4, AddIs
  <2>6. Knows(c)'
    BY <1>1, <2>3, <2>5 DEF Knows
  <2>7. QED
    BY <2>3, <2>4, <2>6, AddIs, AccountsAsk
<1>4. QED
  BY <1>2, <1>3 DEF AddMember

LEMMA UpdateMemberInv ==
  ASSUME AccountInv, NEW v \in Visitor, NEW o, NEW i \in DOMAIN user,
         NEW e \in Email \cup {Elsewhere}, UpdateMember(v, o, i, e)
  PROVE  AccountInv'
<1>1. i \in Nat /\ user[i] \in UserRow
  BY DEF AccountInv, AccountTyped
<1>2. PICK u \in UserRow : u = [user[i] EXCEPT !.email = e] /\ u.password = user[i].password
  BY <1>1, EditedRow
<1>3. PICK c \in Visit : c = Saving(NoVisit, i, u)
  BY <1>1, NoVisitType, SavingType
<1>4. c.pc = "save" /\ c.id = i /\ c.row = u
  BY <1>1, <1>3, NoVisitType, SavingType
<1>5. /\ visit' = [visit EXCEPT ![v] = c] /\ UNCHANGED <<user, companies, members, unsure>>
      /\ edited' = edited \cup {i}
  BY <1>2, <1>3 DEF UpdateMember, Edit, Enter, Saving
<1>6. Knows(c)' /\ \A a \in Email : ~Adds(c, a)
  BY <1>2, <1>4, <1>5 DEF Knows, Adds
<1>7. QED
  BY <1>4, <1>5, <1>6, AccountsAsk

LEMMA AttachInv ==
  ASSUME AccountInv, NEW v \in Visitor, Attach(v)
  PROVE  AccountInv'
<1>1. /\ visit[v].owner \in DOMAIN user /\ visit[v].id \in DOMAIN user
      /\ companies[visit[v].owner] = 1
  BY DEF Attach, AccountInv, AccountTyped, Knows
<1>2. \A m \in members' \ members :
        m[1] \in DOMAIN user /\ m[2] \in DOMAIN user /\ companies[m[1]] = 1
  BY <1>1 DEF Attach
<1>3. visit' = [visit EXCEPT ![v] = NoVisit] /\ UNCHANGED <<user, companies, edited, unsure>>
  BY DEF Attach, Leave
<1>4. QED
  BY <1>2, <1>3, QuietVisit, AccountsAsk

LEMMA LeaveEarlyInv ==
  ASSUME AccountInv, NEW v \in Visitor, LeaveEarly(v)
  PROVE  AccountInv'
<1>1. /\ visit' = [visit EXCEPT ![v] = NoVisit]
      /\ UNCHANGED <<user, companies, members, edited, unsure>>
  BY DEF LeaveEarly, Leave
<1>2. QED
  BY <1>1, QuietVisit, AccountsAsk

LEMMA AccountsKeepInv ==
  ASSUME AccountInv, members' \subseteq members,
         UNCHANGED <<user, companies, visit, edited, unsure>>
  PROVE  AccountInv'
<1>1. AccountTyped'
  BY DEF AccountInv, AccountTyped, Knows, OneFounder
<1>2. AddressesHeld'
  BY DEF AccountInv, AddressesHeld, AddressHeld, Unedited, WithEmail, Adding, Adds
<1>3. QED
  BY <1>1, <1>2 DEF AccountInv

LEMMA AccountsInitInv == AccountsInit => AccountInv
<1> SUFFICES ASSUME AccountsInit PROVE AccountInv
  OBVIOUS
<1>1. /\ user = <<>> /\ DOMAIN user = {} /\ user \in Seq(UserRow) /\ Len(user) = 0
      /\ companies \in Seq(0..1) /\ Len(companies) = 0 /\ members = {}
      /\ visit \in [Visitor -> Visit] /\ \A v \in Visitor : visit[v] = NoVisit
  BY NoVisitType DEF AccountsInit
<1>2. AccountTyped
  BY <1>1, NoVisitType DEF AccountTyped, Knows, OneFounder
<1>3. ASSUME NEW e \in Email PROVE AddressHeld(e)
  <2>1. Unedited(e) = {} /\ Adding(e) = {}
    BY <1>1, QuietVisit DEF Unedited, WithEmail, Adding
  <2>2. QED
    BY <2>1 DEF AddressHeld
<1>4. QED
  BY <1>2, <1>3 DEF AccountInv, AddressesHeld

LEMMA AccountsNextInv == AccountInv /\ [AccountsNext]_accountVars => AccountInv'
<1> SUFFICES ASSUME AccountInv, [AccountsNext]_accountVars PROVE AccountInv'
  OBVIOUS
<1>1. ASSUME NEW v \in Visitor, NEW e \in Email,
             \/ \E failed \in BOOLEAN : SignUp(v, e, failed) \/ GoogleAuth(v, e, failed)
             \/ \E o \in Owner \cap DOMAIN user : AddMember(v, o, e)
      PROVE  AccountInv'
  BY <1>1, NewAccountInv, GoogleAuthInv, AddMemberInv DEF SignUp
<1>2. ASSUME NEW v \in Visitor, NEW o \in Owner \cap DOMAIN user, NEW i \in DOMAIN user,
             NEW e \in Email \cup {Elsewhere}, UpdateMember(v, o, i, e)
      PROVE  AccountInv'
  BY <1>2, UpdateMemberInv
<1>3. ASSUME NEW v \in Visitor,
             \/ Register(v) \/ Incorporate(v) \/ SaveUser(v) \/ Invite(v) \/ Attach(v)
             \/ LeaveEarly(v)
      PROVE  AccountInv'
  BY <1>3, RegisterInv, IncorporateInv, SaveUserInv, InviteInv, AttachInv, LeaveEarlyInv
<1>4. ASSUME NEW o, NEW ids, RemoveMembers(o, ids)
      PROVE  AccountInv'
  BY <1>4, AccountsKeepInv DEF RemoveMembers
<1>5. CASE UNCHANGED accountVars
  BY <1>5, AccountsKeepInv DEF accountVars
<1>6. QED
  BY <1>1, <1>2, <1>3, <1>4, <1>5 DEF AccountsNext

LEMMA AccountsAlwaysInv == AccountsInit /\ [][AccountsNext]_accountVars => []AccountInv
  BY AccountsInitInv, AccountsNextInv, PTL

(* However sign-ups, Google logins, invitations and failed registrations   *)
(* overlap: no user owns two companies, and members are users of a company *)
(* that was founded.                                                       *)
THEOREM AccountsTyped == AccountsInit /\ [][AccountsNext]_accountVars => []AccountsTypeOK
<1>1. AccountInv => AccountsTypeOK
  <2> SUFFICES ASSUME AccountInv PROVE AccountsTypeOK
    OBVIOUS
  <2>1. DOMAIN companies = DOMAIN user
    BY DEF AccountInv, AccountTyped
  <2>2. \A i \in DOMAIN user : user[i] \in UserRow /\ companies[i] \in 0..1
    BY <2>1 DEF AccountInv, AccountTyped
  <2>3. QED
    BY <2>1, <2>2, UserRowIs DEF AccountsTypeOK, AccountInv, AccountTyped
<1>2. QED
  BY <1>1, AccountsAlwaysInv, PTL

(* Leaving aside users somebody edited, an address has one account, by     *)
(* whatever ways people come and requests die or save stale copies, until  *)
(* a lookup of it fails or two requests are about to insert it at once.    *)
THEOREM AddressesAreApart ==
  AccountsInit /\ [][AccountsNext]_accountVars => []AccountsStayApart
<1>1. AccountInv => AccountsStayApart
  <2> SUFFICES ASSUME AccountInv, NEW e \in Email \ unsure
               PROVE  \A i, j \in Unedited(e) : i = j
    BY DEF AccountsStayApart, Unedited
  <2>1. QED
    BY DEF AccountInv, AddressesHeld, AddressHeld
<1>2. QED
  BY <1>1, AccountsAlwaysInv, PTL

(* Only a save changes a row that is there already. *)
LEMMA RowsChange ==
  ASSUME AccountInv, [AccountsNext]_accountVars, NEW i \in DOMAIN user
  PROVE  user'[i] = user[i] \/ \E v \in Visitor : SaveUser(v) /\ visit[v].id = i
<1>1. user \in Seq(UserRow)
  BY DEF AccountInv, AccountTyped
<1>2. ASSUME NEW r, user' = Append(user, r) PROVE user'[i] = user[i]
  BY <1>1, <1>2
<1>3. ASSUME NEW v \in Visitor, SaveUser(v), visit[v].id # i PROVE user'[i] = user[i]
  BY <1>1, <1>3 DEF SaveUser
<1>4. ASSUME NEW v \in Visitor, Register(v) \/ Invite(v) PROVE user'[i] = user[i]
  BY <1>2, <1>4 DEF Register, Invite
<1>5. ASSUME NEW v \in Visitor, NEW e, NEW failed, SignUp(v, e, failed) \/ GoogleAuth(v, e, failed)
      PROVE  user' = user
  BY <1>5 DEF SignUp, GoogleAuth, Add, Enter
<1>6. ASSUME NEW v \in Visitor, NEW o, NEW e, AddMember(v, o, e) PROVE user' = user
  BY <1>6 DEF AddMember, Add, Enter
<1>7. ASSUME NEW v \in Visitor, NEW o, NEW j, NEW e, UpdateMember(v, o, j, e) PROVE user' = user
  BY <1>7 DEF UpdateMember, Edit, Enter
<1>8. ASSUME NEW v \in Visitor, Incorporate(v) \/ Attach(v) \/ LeaveEarly(v) PROVE user' = user
  BY <1>8 DEF Incorporate, Attach, LeaveEarly
<1>9. ASSUME NEW o, NEW ids, RemoveMembers(o, ids) PROVE user' = user
  BY <1>9 DEF RemoveMembers
<1>10. CASE UNCHANGED accountVars
  BY <1>10 DEF accountVars
<1>11. QED
  BY <1>3, <1>4, <1>5, <1>6, <1>7, <1>8, <1>9, <1>10 DEF AccountsNext

LEMMA CredentialsStep ==
  ASSUME AccountInv, [AccountsNext]_accountVars, NEW i \in DOMAIN user
  PROVE  /\ user[i].password => user'[i].password
         /\ user[i].google => (user'[i].google \/ \E v \in Visitor : Predates(v, i))
<1>1. CASE user'[i] = user[i]
  BY <1>1
<1>2. ASSUME NEW v \in Visitor, SaveUser(v), visit[v].id = i
      PROVE  /\ user[i].password => user'[i].password
             /\ user[i].google => (user'[i].google \/ Predates(v, i))
  <2>1. user'[i] = visit[v].row /\ visit[v].pc = "save"
    BY <1>2 DEF SaveUser
  <2>2. visit[v].row.password = user[i].password
    BY <1>2, <2>1 DEF AccountInv, AccountTyped, Knows
  <2>3. QED
    BY <1>2, <2>1, <2>2 DEF Predates
<1>3. QED
  BY <1>1, <1>2, RowsChange

(* No save of a row as it was read loses a password, and none loses a      *)
(* Google account but one that was read before the account was linked.     *)
THEOREM CredentialsAreKept ==
  AccountsInit /\ [][AccountsNext]_accountVars => CredentialsKept
<1>1. AccountInv /\ [AccountsNext]_accountVars =>
        [\A i \in DOMAIN user :
           /\ user[i].password => user'[i].password
           /\ user[i].google => (user'[i].google \/ \E v \in Visitor : Predates(v, i))]_accountVars
  BY CredentialsStep
<1>2. QED
  BY <1>1, AccountsAlwaysInv, PTL DEF CredentialsKept

-----------------------------------------------------------------------------
(* Packages.                                                               *)

PlanRow == [text : Duration, deleted : BOOLEAN]
EditRow == [id : Nat, text : Duration]
CodeRow == [plan : Nat, madeFor : Duration, expires : Nat, sold : BOOLEAN, soldAt : Nat,
            soldFor : Duration, given : BOOLEAN, limit : Nat, givenFor : Duration]

(* A code that is not sold expires after what its generation read, counted *)
(* from a time that is past; a sold one after what the sale read, or, when *)
(* it read nothing, still after what the generation did.  A router has the *)
(* limit provisioning read.                                                *)
CodeKept(x, now) ==
  /\ ~x.sold => x.expires <= now + DurationFromPackage(x.madeFor)
  /\ x.sold => \/ x.expires = x.soldAt + ParseDuration(x.soldFor)
               \/ x.expires <= x.soldAt + DurationFromPackage(x.madeFor)
  /\ x.limit = NoLimit \/ x.limit = RouterOSDuration(x.givenFor)

PlansInv ==
  /\ plan \in Seq(PlanRow) /\ clock \in Nat
  /\ editing \in [Clerk -> EditRow]
  /\ \A c \in Clerk : editing[c] = NoPlan \/ editing[c].id \in DOMAIN plan
  /\ code \in Seq(CodeRow)
  /\ \A v \in DOMAIN code : code[v].plan \in DOMAIN plan /\ CodeKept(code[v], clock)

(* A text one reader matches is a single amount, which the others read in  *)
(* full or, at a blank, not at all.                                        *)
LEMMA ReadersAgree ==
  ASSUME NEW text \in Duration
  PROVE  /\ Total(text) \in Nat /\ ParseDuration(text) \in Nat
         /\ DurationFromPackage(text) \in Nat /\ RouterOSDuration(text) \in Nat
         /\ ParseDuration(text) <= Total(text)
         /\ RouterOSDuration(text) # NoLimit =>
              RouterOSDuration(text) = Total(text) /\ DurationFromPackage(text) = Total(text)
<1>1. text.D \in Nat /\ text.H \in Nat /\ text.M \in Nat
  BY DEF Duration
<1>2. /\ Read(text, "D") \in Nat /\ Read(text, "D") <= text.D
      /\ Read(text, "H") \in Nat /\ Read(text, "H") <= text.H
      /\ Read(text, "M") \in Nat /\ Read(text, "M") <= text.M
  BY <1>1 DEF Read
<1>3. Total(text) \in Nat /\ ParseDuration(text) \in Nat /\ ParseDuration(text) <= Total(text)
  BY <1>1, <1>2 DEF Total, ParseDuration, Worth
<1>4. DurationFromPackage(text) \in Nat /\ RouterOSDuration(text) \in Nat
  BY <1>3 DEF DurationFromPackage, RouterOSDuration, NoLimit
<1>5. RouterOSDuration(text) # NoLimit =>
        RouterOSDuration(text) = Total(text) /\ DurationFromPackage(text) = Total(text)
  BY DEF DurationFromPackage, RouterOSDuration
<1>6. QED
  BY <1>3, <1>4, <1>5

LEMMA NoTextType == NoText \in Duration
  BY DEF NoText, Duration

LEMMA NoPlanType == NoPlan \in EditRow
  BY NoTextType DEF NoPlan, EditRow

Generated(i, text, e) ==
  [plan |-> i, madeFor |-> text, expires |-> e, sold |-> FALSE, soldAt |-> 0,
   soldFor |-> NoText, given |-> FALSE, limit |-> NoLimit, givenFor |-> NoText]
Given(x, text, limit) == [x EXCEPT !.given = TRUE, !.givenFor = text, !.limit = limit]
Sold(x, text, when, until) ==
  [x EXCEPT !.sold = TRUE, !.soldAt = when, !.soldFor = text, !.expires = until]

LEMMA GivenIs ==
  ASSUME NEW x \in CodeRow, NEW text \in Duration, NEW limit \in Nat
  PROVE  LET y == Given(x, text, limit) IN
         /\ y \in CodeRow /\ y.plan = x.plan /\ y.limit = limit /\ y.givenFor = text
         /\ y.sold = x.sold /\ y.soldAt = x.soldAt /\ y.soldFor = x.soldFor
         /\ y.expires = x.expires /\ y.madeFor = x.madeFor
  BY DEF Given, CodeRow

(* Rows are added and edited, but none goes; time goes on. *)
LEMMA PlansMove ==
  ASSUME PlansInv, plan' \in Seq(PlanRow), DOMAIN plan \subseteq DOMAIN plan',
         editing' \in [Clerk -> EditRow],
         \A c \in Clerk : editing'[c] = NoPlan \/ editing'[c].id \in DOMAIN plan',
         UNCHANGED code, clock' \in Nat, clock <= clock'
  PROVE  PlansInv'
<1>1. ASSUME NEW v \in DOMAIN code
      PROVE  code[v].plan \in DOMAIN plan' /\ CodeKept(code[v], clock')
  <2>1. code[v] \in CodeRow /\ code[v].plan \in DOMAIN plan /\ CodeKept(code[v], clock)
        /\ clock \in Nat
    BY DEF PlansInv
  <2>2. code[v].madeFor \in Duration /\ code[v].expires \in Nat
    BY <2>1 DEF CodeRow
  <2>3. PICK d \in Nat : d = DurationFromPackage(code[v].madeFor)
    BY <2>2, ReadersAgree
  <2>4. ~code[v].sold => code[v].expires <= clock' + d
    BY <2>1, <2>2, <2>3 DEF CodeKept
  <2>5. QED
    BY <2>1, <2>3, <2>4 DEF CodeKept
<1>2. QED
  BY <1>1 DEF PlansInv

LEMMA CreateInv ==
  ASSUME PlansInv, NEW text \in Text, Create(text)
  PROVE  PlansInv'
<1>1. [text |-> text, deleted |-> FALSE] \in PlanRow
  BY TextAssumption DEF PlanRow
<1>2. plan' \in Seq(PlanRow) /\ DOMAIN plan \subseteq DOMAIN plan'
  BY <1>1 DEF Create, PlansInv
<1>3. UNCHANGED <<editing, code, clock>> /\ clock \in Nat /\ clock <= clock
  BY DEF Create, PlansInv
<1>4. QED
  BY <1>2, <1>3, PlansMove DEF PlansInv

LEMMA EditPlanInv ==
  ASSUME PlansInv, NEW c \in Clerk, NEW i \in DOMAIN plan, NEW text \in Duration,
         EditPlan(c, i, text)
  PROVE  PlansInv'
<1>1. i \in Nat
  BY DEF PlansInv
<1>2. PICK x \in EditRow : x = [id |-> i, text |-> text] /\ x.id = i
  <2>1. [id |-> i, text |-> text] \in EditRow
    BY <1>1 DEF EditRow
  <2>2. QED
    BY <2>1
<1>3. editing' \in [Clerk -> EditRow] /\ editing'[c] = x
      /\ \A d \in Clerk \ {c} : editing'[d] = editing[d]
  BY <1>2 DEF EditPlan, PlansInv
<1>4. UNCHANGED <<plan, code, clock>> /\ clock \in Nat /\ clock <= clock
  BY DEF EditPlan, PlansInv
<1>5. QED
  BY <1>2, <1>3, <1>4, PlansMove DEF PlansInv

LEMMA SavePlanInv ==
  ASSUME PlansInv, NEW c \in Clerk, SavePlan(c) \/ DropEdit(c)
  PROVE  PlansInv'
<1>1. /\ editing' \in [Clerk -> EditRow] /\ editing'[c] = NoPlan
      /\ \A d \in Clerk \ {c} : editing'[d] = editing[d]
  BY NoPlanType DEF SavePlan, DropEdit, PlansInv
<1>2. plan' \in Seq(PlanRow) /\ DOMAIN plan' = DOMAIN plan
  <2>1. CASE SavePlan(c)
    <3>1. PICK i \in DOMAIN plan : i = editing[c].id
      BY <2>1 DEF SavePlan, PlansInv
    <3>2. editing[c] \in EditRow
      BY DEF PlansInv
    <3>3. PICK x \in PlanRow : x = [text |-> editing[c].text, deleted |-> FALSE]
      BY <3>2 DEF EditRow, PlanRow
    <3>4. plan' = [plan EXCEPT ![i] = x]
      BY <2>1, <3>1, <3>3 DEF SavePlan
    <3>5. QED
      BY <3>1, <3>4 DEF PlansInv
  <2>2. CASE DropEdit(c)
    BY <2>2 DEF DropEdit, PlansInv
  <2>3. QED
    BY <2>1, <2>2
<1>3. code' = code /\ clock' = clock /\ clock \in Nat /\ clock <= clock
  BY DEF SavePlan, DropEdit, PlansInv
<1>4. QED
  BY <1>1, <1>2, <1>3, PlansMove DEF PlansInv

LEMMA DeletePlansInv ==
  ASSUME PlansInv, NEW ids \in SUBSET DOMAIN plan, DeletePlans(ids)
  PROVE  PlansInv'
<1>1. \A i \in DOMAIN plan : [plan[i] EXCEPT !.deleted = TRUE] \in PlanRow
  <2>1. \A i \in DOMAIN plan : plan[i] \in PlanRow
    BY DEF PlansInv
  <2>2. QED
    BY <2>1 DEF PlanRow
<1>2. PICK n \in Nat : DOMAIN plan = 1..n
  BY DEF PlansInv
<1>3. /\ DOMAIN plan' = 1..n
      /\ plan' = [i \in 1..n |-> IF i \in ids THEN [plan[i] EXCEPT !.deleted = TRUE] ELSE plan[i]]
  BY <1>2 DEF DeletePlans
<1>4. \A i \in 1..n : plan'[i] \in PlanRow
  BY <1>1, <1>2, <1>3 DEF PlansInv
<1>5. plan' \in Seq(PlanRow)
  <2>1. plan' \in [1..n -> PlanRow]
    BY <1>3, <1>4
  <2>2. QED
    BY <2>1
<1>6. UNCHANGED <<editing, code, clock>> /\ clock \in Nat /\ clock <= clock
  BY DEF DeletePlans, PlansInv
<1>7. QED
  BY <1>2, <1>3, <1>5, <1>6, PlansMove DEF PlansInv

LEMMA TickInv ==
  ASSUME PlansInv, Tick
  PROVE  PlansInv'
<1>1. UNCHANGED <<plan, editing, code>> /\ clock' \in Nat /\ clock <= clock'
  BY DEF Tick, PlansInv
<1>2. QED
  BY <1>1, PlansMove DEF PlansInv

-----------------------------------------------------------------------------
LEMMA GenerateInv ==
  ASSUME PlansInv, NEW i \in DOMAIN plan, Generate(i)
  PROVE  PlansInv'
<1>1. PICK text \in Duration : text = plan[i].text /\ i \in Nat
  <2>1. plan[i] \in PlanRow /\ i \in Nat
    BY DEF PlansInv
  <2>2. QED
    BY <2>1 DEF PlanRow
<1>2. PICK d \in Nat : d = DurationFromPackage(text)
  BY ReadersAgree
<1>3. PICK e \in Nat : e = clock + d
  BY DEF PlansInv
<1>4. PICK y : y = Generated(i, text, e)
  OBVIOUS
<1>5. code' = Append(code, y)
  BY <1>1, <1>2, <1>3, <1>4 DEF Generate, Generated
<1>6. /\ y \in CodeRow /\ y.plan = i /\ y.limit = NoLimit /\ y.sold = FALSE
      /\ y.madeFor = text /\ y.expires = e
  <2>1. y \in CodeRow
    BY <1>1, <1>4, NoTextType DEF Generated, CodeRow, NoLimit
  <2>2. QED
    BY <1>4, <2>1 DEF Generated
<1>7. CodeKept(y, clock)
  BY <1>2, <1>3, <1>6 DEF CodeKept, PlansInv
<1>8. code' \in Seq(CodeRow)
  BY <1>5, <1>6 DEF PlansInv
<1>9. \A v \in DOMAIN code' : (v \in DOMAIN code /\ code'[v] = code[v]) \/ code'[v] = y
  BY <1>5, <1>6 DEF PlansInv
<1>10. \A v \in DOMAIN code' : code'[v].plan \in DOMAIN plan /\ CodeKept(code'[v], clock)
  BY <1>6, <1>7, <1>9 DEF PlansInv
<1>11. plan' = plan /\ editing' = editing /\ clock' = clock
  BY DEF Generate
<1>12. QED
  BY <1>8, <1>10, <1>11 DEF PlansInv

(* One code changes. *)
LEMMA CodeChanges ==
  ASSUME PlansInv, NEW v \in DOMAIN code, NEW y \in CodeRow, y.plan = code[v].plan,
         CodeKept(y, clock), code' = [code EXCEPT ![v] = y],
         UNCHANGED <<plan, editing, clock>>
  PROVE  PlansInv'
<1>1. code' \in Seq(CodeRow) /\ DOMAIN code' = DOMAIN code
  BY DEF PlansInv
<1>2. \A w \in DOMAIN code : code'[w] = IF w = v THEN y ELSE code[w]
  BY DEF PlansInv
<1>3. \A w \in DOMAIN code' : code'[w].plan \in DOMAIN plan /\ CodeKept(code'[w], clock)
  BY <1>1, <1>2 DEF PlansInv
<1>4. QED
  BY <1>1, <1>3 DEF PlansInv

LEMMA PlanTextIs ==
  ASSUME PlansInv, NEW v \in DOMAIN code
  PROVE  PlanText(v) \in Duration
<1>1. code[v].plan \in DOMAIN plan
  BY DEF PlansInv
<1>2. plan[code[v].plan] \in PlanRow
  BY <1>1 DEF PlansInv
<1>3. QED
  BY <1>2, NoTextType DEF PlanText, PlanRow

LEMMA GiveToRouterInv ==
  ASSUME PlansInv, NEW v \in DOMAIN code, GiveToRouter(v)
  PROVE  PlansInv'
<1>1. code[v] \in CodeRow /\ CodeKept(code[v], clock)
  BY DEF PlansInv
<1>2. PICK text \in Duration : text = PlanText(v)
  BY PlanTextIs
<1>3. PICK limit \in Nat : limit = RouterOSDuration(text)
  BY ReadersAgree
<1>4. PICK y : y = Given(code[v], text, limit)
  OBVIOUS
<1>5. code' = [code EXCEPT ![v] = y]
  BY <1>1, <1>2, <1>3, <1>4 DEF GiveToRouter, Given, PlansInv, CodeRow
<1>6. /\ y \in CodeRow /\ y.plan = code[v].plan /\ y.limit = limit /\ y.givenFor = text
      /\ y.sold = code[v].sold /\ y.soldAt = code[v].soldAt /\ y.soldFor = code[v].soldFor
      /\ y.expires = code[v].expires /\ y.madeFor = code[v].madeFor
  BY <1>1, <1>4, GivenIs
<1>7. CodeKept(y, clock)
  BY <1>1, <1>3, <1>6 DEF CodeKept
<1>8. QED
  BY <1>5, <1>6, <1>7, CodeChanges DEF GiveToRouter

LEMMA SellCodeInv ==
  ASSUME PlansInv, NEW v \in DOMAIN code, SellCode(v)
  PROVE  PlansInv'
<1>1. code[v] \in CodeRow /\ CodeKept(code[v], clock) /\ clock \in Nat
  BY DEF PlansInv
<1>2. PICK text \in Duration : text = PlanText(v)
  BY PlanTextIs
<1>3. PICK until \in Nat :
        /\ until = IF ParseDuration(text) > 0 THEN clock + ParseDuration(text)
                   ELSE code[v].expires
        /\ until = clock + ParseDuration(text) \/ until = code[v].expires
  <2>1. ParseDuration(text) \in Nat /\ code[v].expires \in Nat
    BY <1>1, ReadersAgree DEF CodeRow
  <2>2. QED
    BY <1>1, <2>1
<1>4. PICK y : y = Sold(code[v], text, clock, until)
  OBVIOUS
<1>5. code' = [code EXCEPT ![v] = y] /\ ~code[v].sold
  BY <1>1, <1>2, <1>3, <1>4 DEF SellCode, Sold, PlansInv, CodeRow
<1>6. /\ y \in CodeRow /\ y.plan = code[v].plan /\ y.limit = code[v].limit /\ y.sold = TRUE
      /\ y.givenFor = code[v].givenFor /\ y.soldAt = clock /\ y.madeFor = code[v].madeFor
      /\ y.soldFor = text /\ y.expires = until
  <2>1. PICK x \in CodeRow : x = code[v]
    BY <1>1
  <2>2. y \in CodeRow
    BY <1>1, <1>4, <2>1 DEF Sold, CodeRow
  <2>3. /\ y.plan = x.plan /\ y.limit = x.limit /\ y.sold = TRUE
        /\ y.givenFor = x.givenFor /\ y.madeFor = x.madeFor
    BY <1>4, <2>1 DEF Sold, CodeRow
  <2>4. y.soldAt = clock /\ y.soldFor = text /\ y.expires = until
    BY <1>4, <2>1 DEF Sold, CodeRow
  <2>5. QED
    BY <2>1, <2>2, <2>3, <2>4
<1>7. CodeKept(y, clock)
  BY <1>1, <1>3, <1>5, <1>6 DEF CodeKept
<1>8. QED
  BY <1>5, <1>6, <1>7, CodeChanges DEF SellCode

-----------------------------------------------------------------------------
LEMMA PlansAlwaysInv == PlansSpec => []PlansInv
<1>1. PlansInit => PlansInv
  BY NoPlanType DEF PlansInit, PlansInv
<1>2. PlansInv /\ [PlansNext]_planVars => PlansInv'
  <2> SUFFICES ASSUME PlansInv, [PlansNext]_planVars PROVE PlansInv'
    OBVIOUS
  <2>1. ASSUME NEW c \in Clerk, NEW i \in DOMAIN plan, ToggleActive(c, i)
        PROVE  PlansInv'
    <3>1. plan[i] \in PlanRow
      BY DEF PlansInv
    <3>2. plan[i].text \in Duration
      BY <3>1 DEF PlanRow
    <3>3. QED
      BY <2>1, <3>2, EditPlanInv DEF ToggleActive
  <2>2. ASSUME NEW c \in Clerk, NEW i \in DOMAIN plan, NEW text \in Text, UpdatePlan(c, i, text)
        PROVE  PlansInv'
    BY <2>2, TextAssumption, EditPlanInv DEF UpdatePlan
  <2>3. CASE UNCHANGED planVars
    BY <2>3 DEF planVars, PlansInv
  <2>4. QED
    BY <2>1, <2>2, <2>3, CreateInv, SavePlanInv, DeletePlansInv, GenerateInv,
       GiveToRouterInv, SellCodeInv, TickInv DEF PlansNext
<1>3. QED
  BY <1>1, <1>2, PTL DEF PlansSpec

(* Generating, provisioning and selling a code read its package's text in  *)
(* three ways and at three times: as long as they find the same text, also *)
(* one with a blank, the router's limit reaches from the sale to the       *)
(* expiry of the row, whatever was edited, deleted or toggled meanwhile.   *)
THEOREM CodesNotCutShort == PlansSpec => []NeverCutShort
<1>1. PlansInv => NeverCutShort
  <2> SUFFICES ASSUME PlansInv, NEW v \in DOMAIN code, NEW c, c = code[v],
                      c.sold, c.limit # NoLimit, c.madeFor = c.soldFor, c.givenFor = c.soldFor
               PROVE  c.expires <= c.soldAt + c.limit
    BY DEF NeverCutShort
  <2>1. c \in CodeRow /\ CodeKept(c, clock)
    BY DEF PlansInv
  <2>2. c.soldFor \in Duration /\ c.soldAt \in Nat /\ c.limit \in Nat /\ c.expires \in Nat
    BY <2>1 DEF CodeRow
  <2>3. /\ c.limit = Total(c.soldFor) /\ DurationFromPackage(c.madeFor) = Total(c.soldFor)
        /\ ParseDuration(c.soldFor) <= Total(c.soldFor)
        /\ ParseDuration(c.soldFor) \in Nat /\ Total(c.soldFor) \in Nat
    BY <2>1, <2>2, ReadersAgree DEF CodeKept
  <2>4. QED
    BY <2>1, <2>2, <2>3 DEF CodeKept
<1>2. QED
  BY <1>1, PlansAlwaysInv, PTL
=============================================================================
