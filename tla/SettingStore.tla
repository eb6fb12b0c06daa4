----------------------------- MODULE SettingStore -----------------------------
(***************************************************************************)
(* What the settings of a tenant promise: every request to save, one value *)
(* or a whole tab, takes effect at once and as a whole, or not at all; a   *)
(* removed setting shows its default.                                      *)
(***************************************************************************)
CONSTANTS
  Slot, Key, Value,
  Unset,       \* the catalogue's default is shown
  NoSave       \* nothing asked for

VARIABLES
  value,  \* what the settings page shows for each key
  asked   \* what each connection has asked to save: a function on some keys

svars == <<value, asked>>
Saves == UNION {[K -> Value] : K \in SUBSET Key \ {{}}}

Init ==
  /\ value \in [Key -> Value \cup {Unset}]
  /\ asked = [s \in Slot |-> NoSave]

Ask(s, w) ==
  /\ asked[s] = NoSave
  /\ asked' = [asked EXCEPT ![s] = w]
  /\ UNCHANGED value

Save(s) ==
  /\ asked[s] # NoSave
  /\ value' = [k \in Key |-> IF k \in DOMAIN asked[s] THEN asked[s][k] ELSE value[k]]
  /\ asked' = [asked EXCEPT ![s] = NoSave]

Refuse(s) ==
  /\ asked' = [asked EXCEPT ![s] = NoSave]
  /\ UNCHANGED value

Remove(k) ==
  /\ value' = [value EXCEPT ![k] = Unset]
  /\ UNCHANGED asked

Next ==
  \/ \E s \in Slot : (\E w \in Saves : Ask(s, w)) \/ Save(s) \/ Refuse(s)
  \/ \E k \in Key : Remove(k)

Spec == Init /\ [][Next]_svars
================================================================================
