------------------------------- MODULE MCParts -------------------------------
(***************************************************************************)
(* Parts of the system that share no state, explored in turn: `part` says  *)
(* which of them is at work.                                               *)
(***************************************************************************)
EXTENDS Settings, Roles, Accounts, Plans, RemoteAccess, Lan, Telemetry

CONSTANTS s1, s2, k1, k2, v1, v2, e1, e2

VARIABLE part

TwoSlots == {s1, s2}
TwoKeys == {k1, k2}
TwoValues == {v1, v2}
Defaults == <<"Agent">>
Custom == {"Cashier"}
Resources == {"Users"}
Actions == {"read"}
Bodies == {{<<"Users", "read">>, <<"Users", "own">>, <<"Safe", "read">>}}
OneEmail == {e1}
FirstUser == {1}
(* "2 HRS", "1DAYS" and "1H 30M" *)
Texts == {[NoText EXCEPT !.H = 2, !.long = TRUE, !.blank = {"H"}],
          [NoText EXCEPT !.D = 1, !.long = TRUE],
          [NoText EXCEPT !.H = 1, !.M = 30]}

Ids == {1, 255, 256, 2558, 2559, 65534, 65535, 65536, 65790}
Chosen == {"settings", "roles", "accounts", "plans", "remote", "lan", "telemetry"}

allVars == <<settingVars, roleVars, accountVars, planVars, remoteVars, lanVars, teleVars>>

Init ==
  /\ part \in Chosen
  /\ SettingsInit /\ RolesInit /\ AccountsInit /\ PlansInit
  /\ RemoteInit /\ LanInit /\ TelemetryInit

Next ==
  /\ UNCHANGED part
  /\ \/ /\ part = "settings" /\ SettingsNext
        /\ UNCHANGED <<roleVars, accountVars, planVars, remoteVars, lanVars, teleVars>>
     \/ /\ part = "roles" /\ RolesNext
        /\ UNCHANGED <<settingVars, accountVars, planVars, remoteVars, lanVars, teleVars>>
     \/ /\ part = "accounts" /\ AccountsNext
        /\ UNCHANGED <<settingVars, roleVars, planVars, remoteVars, lanVars, teleVars>>
     \/ /\ part = "plans" /\ PlansNext
        /\ UNCHANGED <<settingVars, roleVars, accountVars, remoteVars, lanVars, teleVars>>
     \/ /\ part = "remote" /\ RemoteNext
        /\ UNCHANGED <<settingVars, roleVars, accountVars, planVars, lanVars, teleVars>>
     \/ /\ part = "lan" /\ LanNext
        /\ UNCHANGED <<settingVars, roleVars, accountVars, planVars, remoteVars, teleVars>>
     \/ /\ part = "telemetry" /\ TelemetryNext
        /\ UNCHANGED <<settingVars, roleVars, accountVars, planVars, remoteVars, lanVars>>

(* The two liveness properties state the fairness of their parts. *)
Spec == Init /\ [][Next]_<<allVars, part>>
==============================================================================
