-------------------------------- MODULE Roles --------------------------------
(***************************************************************************)
(* The roles of one tenant.  Listing them first creates the built-in ones  *)
(* that no live role has the name of; creating one refuses a name in use.  *)
(* Both look first and insert later, without a lock or a unique index.     *)
(* Permissions are pairs of a resource and an action.                      *)
(***************************************************************************)
EXTENDS Naturals, Sequences, FiniteSets

CONSTANTS
  Asker,             \* connections
  DefaultRole,       \* names of the built-in roles, in order
  CustomName,        \* other names
  KnownResource, KnownAction,
  Body,              \* permissions a request may ask for
  MaxRoles,
  MaxRenamed         \* bound on roles that are given another name

ASSUME RolesAssumption == DefaultRole \in Seq(STRING)

VARIABLES
  role,     \* rows by id
  asking,   \* what each connection is doing
  raced     \* history: names two requests were about to insert at once

roleVars == <<role, asking, raced>>

RoleName == CustomName \cup {DefaultRole[i] : i \in DOMAIN DefaultRole}
Full == KnownResource \X KnownAction
NoRequest == [pc |-> "none", todo |-> <<>>, name |-> "", perms |-> {}, id |-> 0]

RolesInit ==
  /\ role = <<>>
  /\ asking = [s \in Asker |-> NoRequest]
  /\ raced = {}

(* Seeded fault: only the resource is looked up in the catalogue. *)
SanitizeResources(in) == {p \in in : p[1] \in KnownResource}

(* Unknown resources are dropped, and of known ones the unknown actions.   *)
SanitizePermissions(in) == in \cap Full

LiveRoles == {i \in DOMAIN role : ~role[i].deleted}
Named(name) == {i \in LiveRoles : role[i].name = name}
NewRole(name, perms, system) ==
  [name |-> name, perms |-> perms, system |-> system, deleted |-> FALSE,
   renamed |-> FALSE]
(* What else a deleted row says is read by nobody. *)
Gone(r) == [NewRole("", {}, r.system) EXCEPT !.deleted = TRUE]
Change(i, r) == role' = [role EXCEPT ![i] = r]
Begin(s, request) ==
  /\ asking[s].pc = "none"
  /\ asking' = [asking EXCEPT ![s] = request]
  /\ UNCHANGED role

(* The connections that found no role of a name and are about to insert it;*)
(* one more makes it a race.                                               *)
Makes(c, name) ==
  \/ c.pc = "plant" /\ Head(c.todo) = name
  \/ c.pc = "create" /\ c.name = name
Making(name) == {s \in Asker : Makes(asking[s], name)}
Join(name) == raced' = IF Making(name) = {} THEN raced ELSE raced \cup {name}

Finish(s) == asking' = [asking EXCEPT ![s] = NoRequest]

(* GET /roles/list: seed counts the roles of each built-in name in turn... *)
ListRoles(s) ==
  /\ Begin(s, [NoRequest EXCEPT !.pc = "seed", !.todo = DefaultRole])
  /\ UNCHANGED raced

CountDefault(s) ==
  LET c == asking[s] IN
  /\ c.pc = "seed" /\ c.todo # <<>>
  /\ IF Named(Head(c.todo)) = {}
     THEN asking' = [asking EXCEPT ![s].pc = "plant"] /\ Join(Head(c.todo))
     ELSE asking' = [asking EXCEPT ![s].todo = Tail(@)] /\ UNCHANGED raced
  /\ UNCHANGED role

(* ...and inserts the role if there was none. *)
Plant(s) ==
  LET c == asking[s] IN
  /\ c.pc = "plant" /\ Len(role) < MaxRoles
  /\ role' = Append(role, NewRole(Head(c.todo), Full, TRUE))
  /\ asking' = [asking EXCEPT ![s] = [c EXCEPT !.pc = "seed", !.todo = Tail(@)]]
  /\ UNCHANGED raced

Listed(s) ==
  /\ asking[s].pc = "seed" /\ asking[s].todo = <<>>
  /\ Finish(s) /\ UNCHANGED <<role, raced>>

(* Seeded fault: the name is not looked for before the insertion. *)
CreateAnyway(s, name, perms) ==
  /\ Begin(s, [NoRequest EXCEPT !.pc = "create", !.name = name, !.perms = perms])
  /\ Join(name)

CreateRole(s, name, perms) ==
  /\ Named(name) = {}
  /\ Begin(s, [NoRequest EXCEPT !.pc = "create", !.name = name, !.perms = perms])
  /\ Join(name)

InsertRole(s) ==
  LET c == asking[s] IN
  /\ c.pc = "create" /\ Len(role) < MaxRoles
  /\ role' = Append(role, NewRole(c.name, SanitizePermissions(c.perms), FALSE))
  /\ Finish(s) /\ UNCHANGED raced

(* PUT: permissions, and a name other than the one read, are set on the    *)
(* row if it is still live.                                                *)
MayRename == Cardinality({i \in LiveRoles : role[i].renamed}) < MaxRenamed
UpdateRole(s, i, name, perms) ==
  /\ i \in LiveRoles
  /\ name = role[i].name \/ MayRename
  /\ Begin(s, [NoRequest EXCEPT !.pc = "update", !.id = i, !.perms = perms,
                 !.name = IF name = role[i].name THEN "" ELSE name])
  /\ UNCHANGED raced

ApplyUpdate(s) ==
  LET c == asking[s] IN
  /\ c.pc = "update"
  /\ IF c.id \in LiveRoles
     THEN Change(c.id, [role[c.id] EXCEPT
            !.name = IF c.name = "" THEN @ ELSE c.name,
            !.perms = SanitizePermissions(c.perms),
            !.renamed = @ \/ c.name # ""])
     ELSE UNCHANGED role
  /\ Finish(s) /\ UNCHANGED raced

(* DELETE refuses a built-in role and then deletes by id. *)
DeleteRole(s, i) ==
  /\ i \in LiveRoles /\ ~role[i].system
  /\ Begin(s, [NoRequest EXCEPT !.pc = "delete", !.id = i]) /\ UNCHANGED raced

ApplyDelete(s) ==
  /\ asking[s].pc = "delete"
  /\ Change(asking[s].id, Gone(role[asking[s].id]))
  /\ Finish(s) /\ UNCHANGED raced

(* Seeded fault: the bulk deletion forgets the built-in roles. *)
DeleteAnyRoles(ids) ==
  /\ role' = [i \in DOMAIN role |->
       IF i \in ids THEN Gone(role[i]) ELSE role[i]]
  /\ UNCHANGED <<asking, raced>>

(* POST /roles/bulk-delete: one statement, which leaves built-in ones out. *)
DeleteRoles(ids) ==
  /\ role' = [i \in DOMAIN role |->
       IF i \in ids /\ ~role[i].system THEN Gone(role[i])
       ELSE role[i]]
  /\ UNCHANGED <<asking, raced>>

DropRequest(s) == asking[s].pc # "none" /\ Finish(s) /\ UNCHANGED <<role, raced>>

RolesNext ==
  \/ \E s \in Asker :
       \/ ListRoles(s) \/ CountDefault(s) \/ Plant(s) \/ Listed(s)
       \/ InsertRole(s) \/ ApplyUpdate(s) \/ ApplyDelete(s) \/ DropRequest(s)
       \/ \E name \in RoleName : \E perms \in Body : CreateRole(s, name, perms)
       \/ \E i \in LiveRoles : \/ DeleteRole(s, i)
                               \/ \E name \in RoleName : \E perms \in Body :
                                    UpdateRole(s, i, name, perms)
  \/ \E ids \in SUBSET LiveRoles \ {{}} : DeleteRoles(ids)

------------------------------------------------------------------------------
(* Rows keep their types; permissions the catalogue does not know never    *)
(* reach a row.                                                            *)
RolesTypeOK ==
  \A i \in LiveRoles :
    role[i].name \in RoleName /\ role[i].perms \subseteq Full

(* A built-in role stays: its id may be in a request that runs late, in a  *)
(* bulk selection, or be renamed first.                                    *)
BuiltInStays == \A i \in DOMAIN role : role[i].system => ~role[i].deleted

(* Seeding and creating look for the name before they insert it: a name    *)
(* has one role, whatever was deleted, or died in between, unless one was  *)
(* renamed to it or two requests found it unused at once: services.go      *)
(* 40-41 calls seeding idempotent, which it is but for those.              *)
NamesStayApart ==
  \A name \in RoleName \ raced :
    \A i, j \in Named(name) : (~role[i].renamed /\ ~role[j].renamed) => i = j
==============================================================================
