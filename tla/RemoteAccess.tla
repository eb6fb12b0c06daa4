---------------------------- MODULE RemoteAccess ----------------------------
(***************************************************************************)
(* Opening and closing the management ports of one router.  A request      *)
(* lists the firewall rules, works out from that list which to remove and  *)
(* which to add, sends the commands one by one, and then records the new   *)
(* state on the router's row.  A command may be refused, lost, or executed *)
(* with its answer lost; each of these ends the request where it is.       *)
(* Rules that the module neither adds nor removes are left out.            *)
(***************************************************************************)
EXTENDS Naturals, Sequences

CONSTANTS
  Operator,    \* connections
  Nobody,      \* no connection
  MaxChanges   \* bound on requests to open, and on imports of the script

ASSUME RemoteAssumption == Nobody \notin Operator

VARIABLES
  rules,       \* firewall rules of the device; ids are drawn in their order
  flag,        \* remote_access of the router's row
  lastId,
  request,     \* of each connection: enabled or not, what is left to send
  alone,       \* the connection whose request nothing has disturbed
  exact,       \* nothing happened since an undisturbed request was recorded
  changes

remoteVars == <<rules, flag, lastId, request, alone, exact, changes>>

Port == {"8291", "8728"}
None == [enabled |-> FALSE, remove |-> {}, add |-> <<>>, busy |-> FALSE]
Rule(id, kind) == [id |-> id, kind |-> kind]
IsRemoteAccessRule(r) == r.kind \in Port
IsWanBlockRule(r) == r.kind = "block"
Others(s) == \E t \in Operator \ {s} : request[t].busy

RemoteInit ==
  /\ rules = {Rule(1, "block")} /\ lastId = 1 /\ flag = FALSE
  /\ request = [s \in Operator |-> None]
  /\ alone = Nobody /\ exact = TRUE /\ changes = 0

(* Seeded fault: a router that has its block rule needs no closing. *)
PlanIfOpen(enabled, seen) ==
  LET blocked == \E r \in seen : IsWanBlockRule(r) IN
  [enabled |-> enabled, busy |-> TRUE,
   remove |-> {r \in seen : IF enabled THEN IsRemoteAccessRule(r) \/ IsWanBlockRule(r)
                            ELSE IsRemoteAccessRule(r) /\ ~blocked},
   add |-> IF enabled THEN <<"8291", "8728">> ELSE IF blocked THEN <<>> ELSE <<"block">>]

(* Seeded fault: what an earlier run left is cleared only when closing. *)
PlanOver(enabled, seen) ==
  LET blocked == \E r \in seen : IsWanBlockRule(r) IN
  [enabled |-> enabled, busy |-> TRUE,
   remove |-> {r \in seen : IF enabled THEN IsWanBlockRule(r) ELSE IsRemoteAccessRule(r)},
   add |-> IF enabled THEN <<"8291", "8728">> ELSE IF blocked THEN <<>> ELSE <<"block">>]

(* What SetRemoteAccess does with the list it has seen. *)
Plan(enabled, seen) ==
  LET blocked == \E r \in seen : IsWanBlockRule(r) IN
  [enabled |-> enabled, busy |-> TRUE,
   remove |-> {r \in seen : IsRemoteAccessRule(r) \/ (enabled /\ IsWanBlockRule(r))},
   add |-> IF enabled THEN <<"8291", "8728">> ELSE IF blocked THEN <<>> ELSE <<"block">>]

Ask(s, enabled) ==
  /\ ~request[s].busy
  /\ enabled => changes < MaxChanges
  /\ changes' = IF enabled THEN changes + 1 ELSE changes
  /\ request' = [request EXCEPT ![s] = Plan(enabled, rules)]
  /\ alone' = IF Others(s) THEN Nobody ELSE s
  /\ UNCHANGED <<rules, flag, lastId, exact>>

(* Open ports are removed before block rules, each in the order of the list. *)
Before(r, q) ==
  \/ IsRemoteAccessRule(r) /\ IsWanBlockRule(q)
  \/ IsRemoteAccessRule(r) = IsRemoteAccessRule(q) /\ r.id < q.id

Removed(s, r) ==
  /\ \A q \in request[s].remove \ {r} : Before(r, q)
  /\ r \in rules   \* an unknown id is an error
  /\ rules' = rules \ {r}
  /\ UNCHANGED lastId

Added(s) ==
  /\ request[s].remove = {} /\ request[s].add # <<>>
  /\ lastId' = lastId + 1
  /\ rules' = rules \cup {Rule(lastId', Head(request[s].add))}

Keep(s) == alone' = IF alone = s THEN s ELSE Nobody

Send(s) ==
  /\ \/ \E r \in request[s].remove :
          Removed(s, r) /\ request' = [request EXCEPT ![s].remove = @ \ {r}]
     \/ Added(s) /\ request' = [request EXCEPT ![s].add = Tail(@)]
  /\ Keep(s) /\ exact' = FALSE
  /\ UNCHANGED <<flag, changes>>

SendUnanswered(s) ==
  /\ Added(s) \/ \E r \in request[s].remove : Removed(s, r)
  /\ request' = [request EXCEPT ![s] = None]
  /\ alone' = Nobody /\ exact' = FALSE
  /\ UNCHANGED <<flag, changes>>

(* The rules are read once more for the answer, and the row is updated.    *)
Record(s) ==
  /\ request[s].busy /\ request[s].remove = {} /\ request[s].add = <<>>
  /\ flag' = request[s].enabled
  /\ request' = [request EXCEPT ![s] = None]
  /\ exact' = (alone = s) /\ alone' = Nobody
  /\ UNCHANGED <<rules, lastId, changes>>

Fail(s) ==
  /\ request[s].busy
  /\ request' = [request EXCEPT ![s] = None]
  /\ alone' = Nobody
  /\ UNCHANGED <<rules, flag, lastId, exact, changes>>

(* PUT /router/:id sets the recorded state without telling the device. *)
Update(enabled) ==
  /\ enabled => changes < MaxChanges
  /\ changes' = IF enabled THEN changes + 1 ELSE changes
  /\ flag' = enabled
  /\ alone' = Nobody /\ exact' = FALSE
  /\ UNCHANGED <<rules, lastId, request>>

(* Importing the provisioning script again renews the block rule and       *)
(* leaves the rules that open the ports.                                   *)
Reimport ==
  /\ changes < MaxChanges /\ changes' = changes + 1
  /\ lastId' = lastId + 1
  /\ rules' = {r \in rules : IsRemoteAccessRule(r)} \cup {Rule(lastId', "block")}
  /\ alone' = Nobody /\ exact' = FALSE
  /\ UNCHANGED <<flag, request>>

RemoteNext ==
  \/ \E s \in Operator :
       \/ \E enabled \in BOOLEAN : Ask(s, enabled)
       \/ Send(s) \/ SendUnanswered(s) \/ Record(s) \/ Fail(s)
  \/ \E enabled \in BOOLEAN : Update(enabled)
  \/ Reimport

(* The link is fair: of commands sent again and again some are answered. *)
RemoteFair == \A s \in Operator : SF_remoteVars(Send(s)) /\ SF_remoteVars(Record(s))

------------------------------------------------------------------------------
IsOpen ==
  /\ {r.kind : r \in rules} = Port
  /\ \A q, r \in rules : q.kind = r.kind => q = r
IsClosed == rules # {} /\ \A r \in rules : IsWanBlockRule(r)

(* What GET answers while the device does. *)
GetRemoteAccess == flag \/ \E r \in rules : IsRemoteAccessRule(r)

(* Whatever failed requests, imports and overlapping requests left behind, *)
(* one request that nothing disturbs puts it right: open means exactly the *)
(* two ports and no block, closed means no port and a block.               *)
OneRunRepairs ==
  exact => /\ IF flag THEN IsOpen ELSE IsClosed
           /\ GetRemoteAccess = flag

(* "It can be closed again at any time": once nobody opens any more, an    *)
(* operator who keeps asking to close it gets it closed, for good, and     *)
(* reported as closed, over lost commands and colliding requests.          *)
Opens == (\E s \in Operator : Ask(s, TRUE)) \/ Update(TRUE)
Closes == \E s \in Operator : Ask(s, FALSE)
CloseSucceeds ==
  (RemoteFair /\ <>[][~Opens]_remoteVars /\ []<><<Closes>>_remoteVars) => <>[](IsClosed /\ ~GetRemoteAccess)
==============================================================================
