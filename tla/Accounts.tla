------------------------------- MODULE Accounts -------------------------------
(***************************************************************************)
(* Users, their companies and the members of companies.  A user signs up   *)
(* with a password, comes with a Google account, or is added to a company  *)
(* by its owner under an email address.  Every handler looks the address   *)
(* up and inserts later; nothing makes addresses unique.  A lookup takes   *)
(* the first row with the address, or fails, which signing up and coming   *)
(* with Google take for an unknown address.  Linking a Google account and  *)
(* editing a member save the whole row as it was read.                     *)
(***************************************************************************)
EXTENDS Naturals, Sequences, FiniteSets

CONSTANTS
  Visitor,    \* connections
  Email,      \* addresses people come with
  Elsewhere,  \* an address members may be given that nobody comes with
  Owner,      \* ids of users who manage members
  MaxUsers,
  MaxEdited   \* bound on members edited

VARIABLES
  user,       \* user rows by id
  companies,  \* how many companies a user owns, by id
  members,    \* pairs of an owner's and a member's id
  visit,      \* what each connection is doing
  edited,     \* history: ids of users an owner set out to edit
  unsure      \* history: addresses inserted after a lookup that failed, or
              \* that another request was about to insert

accountVars == <<user, companies, members, visit, edited, unsure>>

NewUser(email, password, google) ==
  [email |-> email, password |-> password, google |-> google]
NoUser == NewUser(Elsewhere, FALSE, FALSE)
NoVisit == [pc |-> "none", row |-> NoUser, id |-> 0, owner |-> 0]

AccountsInit ==
  /\ user = <<>> /\ companies = <<>> /\ members = {}
  /\ visit = [v \in Visitor |-> NoVisit]
  /\ edited = {} /\ unsure = {}

WithEmail(email) == {i \in DOMAIN user : user[i].email = email}
FirstWith(email) ==
  CHOOSE i \in WithEmail(email) : \A j \in WithEmail(email) : i <= j
Enter(v, request) ==
  /\ visit[v].pc = "none"
  /\ visit' = [visit EXCEPT ![v] = request]
  /\ UNCHANGED <<user, companies, members>>
Leave(v) == visit' = [visit EXCEPT ![v] = NoVisit]

(* The requests about to insert an address, and one more of them.          *)
Adds(c, email) == c.pc \in {"register", "invite"} /\ c.row.email = email
Adding(email) == {v \in Visitor : Adds(visit[v], email)}
Add(v, request, failed) ==
  LET email == request.row.email IN
  /\ Enter(v, request)
  /\ unsure' = IF failed \/ Adding(email) # {} THEN unsure \cup {email} ELSE unsure
  /\ UNCHANGED edited

NewAccount(email, password, google) ==
  [NoVisit EXCEPT !.pc = "register", !.row = NewUser(email, password, google)]

SignUp(v, email, failed) ==
  /\ failed \/ WithEmail(email) = {}
  /\ Add(v, NewAccount(email, TRUE, FALSE), failed)

(* Seeded fault: the address is not looked up. *)
GoogleAuthAnew(v, email, failed) == Add(v, NewAccount(email, FALSE, TRUE), failed)

(* An unknown address gets a row, a row without a Google account is linked *)
(* to it; a linked one is only read.                                       *)
GoogleAuth(v, email, failed) ==
  \/ /\ failed \/ WithEmail(email) = {}
     /\ Add(v, NewAccount(email, FALSE, TRUE), failed)
  \/ /\ ~failed
     /\ WithEmail(email) # {} /\ ~user[FirstWith(email)].google
     /\ Enter(v, [NoVisit EXCEPT !.pc = "save", !.id = FirstWith(email),
                    !.row = [user[FirstWith(email)] EXCEPT !.google = TRUE]])
     /\ UNCHANGED <<edited, unsure>>

Register(v) ==
  LET i == Len(user) + 1 IN
  /\ visit[v].pc = "register" /\ i <= MaxUsers
  /\ user' = Append(user, visit[v].row)
  /\ companies' = Append(companies, 0)
  /\ visit' = [visit EXCEPT ![v] = [NoVisit EXCEPT !.pc = "company", !.id = i]]
  /\ UNCHANGED <<members, edited, unsure>>

Incorporate(v) ==
  /\ visit[v].pc = "company"
  /\ companies' = [companies EXCEPT ![visit[v].id] = @ + 1]
  /\ Leave(v)
  /\ UNCHANGED <<user, members, edited, unsure>>

(* Seeded fault: a member's save also founds a company. *)
SaveAndIncorporate(v) ==
  /\ visit[v].pc = "save"
  /\ user' = [user EXCEPT ![visit[v].id] = visit[v].row]
  /\ companies' = [companies EXCEPT ![visit[v].id] = @ + 1]
  /\ Leave(v)
  /\ UNCHANGED <<members, edited, unsure>>

SaveUser(v) ==
  /\ visit[v].pc = "save"
  /\ user' = [user EXCEPT ![visit[v].id] = visit[v].row]
  /\ Leave(v)
  /\ UNCHANGED <<companies, members, edited, unsure>>

(* POST /users: the row with the address, or a bare new one, becomes a     *)
(* member of the owner's company; a lookup that fails is refused.          *)
AddMember(v, owner, email) ==
  /\ companies[owner] > 0
  /\ \/ /\ WithEmail(email) # {}
        /\ Enter(v, [NoVisit EXCEPT !.pc = "attach", !.owner = owner,
                                    !.id = FirstWith(email)])
        /\ UNCHANGED <<edited, unsure>>
     \/ /\ WithEmail(email) = {}
        /\ Add(v, [NoVisit EXCEPT !.pc = "invite", !.owner = owner,
                                  !.row = NewUser(email, FALSE, FALSE)], FALSE)

Invite(v) ==
  LET i == Len(user) + 1 IN
  /\ visit[v].pc = "invite" /\ i <= MaxUsers
  /\ user' = Append(user, visit[v].row)
  /\ companies' = Append(companies, 0)
  /\ visit' = [visit EXCEPT ![v] =
       [NoVisit EXCEPT !.pc = "attach", !.id = i, !.owner = visit[v].owner]]
  /\ UNCHANGED <<members, edited, unsure>>

Attach(v) ==
  /\ visit[v].pc = "attach"
  /\ members' = members \cup {<<visit[v].owner, visit[v].id>>}
  /\ Leave(v)
  /\ UNCHANGED <<user, companies, edited, unsure>>

(* The owner of a company changes a member's row. *)
Edit(v, owner, i, row) ==
  /\ companies[owner] > 0 /\ <<owner, i>> \in members
  /\ edited' = edited \cup {i} /\ Cardinality(edited') <= MaxEdited
  /\ Enter(v, [NoVisit EXCEPT !.pc = "save", !.id = i, !.row = row])
  /\ UNCHANGED unsure

(* Seeded fault: the row is built from the request. *)
UpdateAfresh(v, owner, i, email) == Edit(v, owner, i, NewUser(email, FALSE, FALSE))

(* PUT /users/:id *)
UpdateMember(v, owner, i, email) ==
  Edit(v, owner, i, [user[i] EXCEPT !.email = email])

(* DELETE /users/:id and POST /users/delete-many detach members. *)
RemoveMembers(owner, ids) ==
  /\ companies[owner] > 0
  /\ members' = members \ {<<owner, i>> : i \in ids}
  /\ UNCHANGED <<user, companies, visit, edited, unsure>>

LeaveEarly(v) ==
  /\ visit[v].pc # "none" /\ Leave(v)
  /\ UNCHANGED <<user, companies, members, edited, unsure>>

AccountsNext ==
  \/ \E v \in Visitor :
       \/ \E email \in Email :
            \/ \E failed \in BOOLEAN : SignUp(v, email, failed) \/ GoogleAuth(v, email, failed)
            \/ \E owner \in Owner \cap DOMAIN user : AddMember(v, owner, email)
       \/ \E owner \in Owner \cap DOMAIN user, i \in DOMAIN user,
             email \in Email \cup {Elsewhere} : UpdateMember(v, owner, i, email)
       \/ Register(v) \/ Incorporate(v) \/ SaveUser(v) \/ Invite(v) \/ Attach(v)
       \/ LeaveEarly(v)
  \/ \E owner \in Owner \cap DOMAIN user : \E ids \in SUBSET DOMAIN user \ {{}} :
       RemoveMembers(owner, ids)

------------------------------------------------------------------------------
(* Every row has an address, no user owns two companies, however links and *)
(* failed registrations mix, and members are users of a founded company.   *)
AccountsTypeOK ==
  /\ DOMAIN companies = DOMAIN user
  /\ \A i \in DOMAIN user : user[i].email \in Email \cup {Elsewhere} /\ companies[i] \in 0..1
  /\ \A m \in members : m[2] \in DOMAIN user /\ companies[m[1]] = 1

(* An address has one account, however people come, by password, with      *)
(* Google or by invitation, requests die half-way and stale copies are     *)
(* saved: unless a lookup failed or overlapping requests found it unused,  *)
(* or an owner gave a member the address of somebody else.  A failed       *)
(* lookup makes the duplicate row that auth/services.go 208-209 rules out. *)
AccountsStayApart ==
  \A email \in Email \ unsure : \A i, j \in WithEmail(email) \ edited : i = j

(* A password is never lost, over saves of stale rows; a Google account    *)
(* only to one read before it was linked, and is then linked again.        *)
Predates(v, i) == visit[v].pc = "save" /\ visit[v].id = i /\ ~visit[v].row.google
CredentialsKept ==
  [][\A i \in DOMAIN user :
       /\ user[i].password => user'[i].password
       /\ user[i].google => (user'[i].google \/ \E v \in Visitor : Predates(v, i))]_accountVars
==============================================================================
