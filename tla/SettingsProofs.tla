--------------------------- MODULE SettingsProofs ---------------------------
(* Proofs about Settings, for any keys, values and number of connections:  *)
(* its type invariant and that it implements SettingStore.                 *)
EXTENDS Settings, TLAPS

Tab == UNION {[K -> Value] : K \in SUBSET Key}

(* What a connection remembers: the tab it was asked to save, the key it   *)
(* has looked up, and what it has written of the tab so far.               *)
Progress == [todo : Tab \cup {NoSave}, key : Key \cup {NoKey}, found : BOOLEAN,
             written : Tab]

(* A row is locked only for a tab that has its key, with the tab's value.  *)
PartOf(c) ==
  IF c.todo = NoSave THEN c = Quiet
  ELSE /\ DOMAIN c.written \subseteq DOMAIN c.todo
       /\ \A k \in DOMAIN c.written : c.written[k] = c.todo[k]
       /\ c.key # NoKey => c.key \in DOMAIN c.todo \ DOMAIN c.written

LocksApart == \A s, t \in Slot : s # t => Locked(s) \cap Locked(t) = {}

Inv ==
  /\ setting \in [Key -> Rows]
  /\ saving \in [Slot -> Progress]
  /\ \A s \in Slot : PartOf(saving[s])
  /\ LocksApart

-----------------------------------------------------------------------------
LEMMA TabIs == \A w : w \in Tab <=> (DOMAIN w \subseteq Key /\ w \in [DOMAIN w -> Value])
  BY DEF Tab

LEMMA QuietType == Quiet \in Progress /\ PartOf(Quiet) /\ Quiet.todo = NoSave
                   /\ DOMAIN Quiet.written = {} /\ Quiet.key = NoKey
<1>1. <<>> \in [{} -> Value] /\ DOMAIN <<>> = {}
  OBVIOUS
<1>2. <<>> \in Tab
  BY <1>1 DEF Tab
<1>3. QED
  BY <1>1, <1>2 DEF Quiet, Progress, PartOf

LEMMA ProgressIs ==
  \A c \in Progress :
    /\ c.todo \in Tab \cup {NoSave} /\ c.key \in Key \cup {NoKey}
    /\ c.found \in BOOLEAN /\ c.written \in Tab
  BY DEF Progress

(* A connection's record changes; what it has locked is locked by nobody   *)
(* else.                                                                   *)
LEMMA GiveStep ==
  ASSUME Inv, NEW s \in Slot, NEW c \in Progress, PartOf(c), Give(s, c),
         \A t \in Slot \ {s} : DOMAIN c.written \cap Locked(t) = {},
         setting' \in [Key -> Rows]
  PROVE  Inv'
<1>1. /\ saving' \in [Slot -> Progress] /\ saving'[s] = c
      /\ \A t \in Slot \ {s} : saving'[t] = saving[t]
  BY DEF Give, Inv
<1>2. \A t \in Slot : PartOf(saving'[t])
  BY <1>1 DEF Inv
<1>3. LocksApart'
  BY <1>1 DEF Inv, LocksApart, Locked
<1>4. QED
  BY <1>1, <1>2, <1>3 DEF Inv, PartOf

LEMMA QuietStep ==
  ASSUME Inv, NEW s \in Slot, Give(s, Quiet), setting' \in [Key -> Rows]
  PROVE  Inv'
  BY QuietType, GiveStep

LEMMA InvInit == SettingsInit => Inv
  BY QuietType DEF SettingsInit, Inv, Rows, LocksApart, Locked

LEMMA UpsertType ==
  ASSUME Inv, NEW s \in Slot, NEW K \in SUBSET Key, NEW w \in [K -> Value]
  PROVE  /\ w \in Tab /\ [Quiet EXCEPT !.todo = w] \in Progress
         /\ PartOf([Quiet EXCEPT !.todo = w])
         /\ [Quiet EXCEPT !.todo = w].todo = w
         /\ DOMAIN [Quiet EXCEPT !.todo = w].written = {}
<1>1. w \in Tab /\ w # NoSave
  BY SettingAssumption DEF Tab
<1>2. \A c \in Progress : LET d == [c EXCEPT !.todo = w] IN
        d \in Progress /\ d.todo = w /\ d.key = c.key /\ d.written = c.written
  BY <1>1 DEF Progress
<1>3. QED
  BY <1>1, <1>2, QuietType DEF PartOf

(* Looking a key up and writing it leave the tab what it is. *)
LEMMA LookType ==
  ASSUME NEW c \in Progress, PartOf(c), c.todo # NoSave,
         NEW k \in DOMAIN c.todo \ DOMAIN c.written, NEW found \in BOOLEAN
  PROVE  LET d == [c EXCEPT !.key = k, !.found = found] IN
         /\ d \in Progress /\ PartOf(d) /\ d.todo = c.todo /\ d.written = c.written
<1>1. k \in Key
  BY TabIs, ProgressIs
<1>2. \A e \in Progress : LET d == [e EXCEPT !.key = k, !.found = found] IN
        d \in Progress /\ d.todo = e.todo /\ d.key = k /\ d.written = e.written
  BY <1>1 DEF Progress
<1>3. QED
  BY <1>2 DEF PartOf

LEMMA WriteType ==
  ASSUME NEW c \in Progress, PartOf(c), c.key # NoKey
  PROVE  LET d == [c EXCEPT !.key = NoKey, !.found = FALSE,
                            !.written = Put(@, c.key, c.todo[c.key])] IN
         /\ c.todo # NoSave /\ d \in Progress /\ PartOf(d) /\ d.todo = c.todo
         /\ DOMAIN d.written = DOMAIN c.written \cup {c.key}
<1> DEFINE k == c.key
           w == Put(c.written, k, c.todo[k])
<1>1. c.todo # NoSave /\ k \in DOMAIN c.todo \ DOMAIN c.written
  BY QuietType DEF PartOf
<1>2. c.todo \in Tab /\ c.written \in Tab
  BY <1>1, ProgressIs
<1>3. k \in Key /\ c.todo[k] \in Value
  BY <1>1, <1>2, TabIs
<1>4. /\ DOMAIN w = DOMAIN c.written \cup {k} /\ w[k] = c.todo[k]
      /\ \A j \in DOMAIN c.written : w[j] = c.written[j]
      /\ w = [j \in DOMAIN w |-> w[j]]
  BY <1>1 DEF Put
<1>5. w \in Tab
  <2> HIDE DEF w, k
  <2>1. \A j \in DOMAIN w : w[j] \in Value
    BY <1>2, <1>3, <1>4, TabIs
  <2>2. DOMAIN w \subseteq Key
    BY <1>2, <1>3, <1>4, TabIs
  <2>3. QED
    BY <1>4, <2>1, <2>2, TabIs
<1>6. \A e \in Progress, v \in Tab :
        LET d == [e EXCEPT !.key = NoKey, !.found = FALSE, !.written = v] IN
        d \in Progress /\ d.todo = e.todo /\ d.key = NoKey /\ d.written = v
  BY DEF Progress
<1> DEFINE d == [c EXCEPT !.key = NoKey, !.found = FALSE, !.written = w]
<1>7. d \in Progress /\ d.todo = c.todo /\ d.key = NoKey /\ d.written = w
  BY <1>5, <1>6
<1> HIDE DEF d, w, k
<1>8. PartOf(d)
  BY <1>1, <1>4, <1>7 DEF PartOf
<1>9. [c EXCEPT !.key = NoKey, !.found = FALSE, !.written = Put(@, c.key, c.todo[c.key])] = d
  BY DEF d, w, k
<1>10. QED
  BY <1>1, <1>4, <1>7, <1>8, <1>9 DEF k

-----------------------------------------------------------------------------
LEMMA LookStep ==
  ASSUME Inv, NEW s \in Slot, NEW k \in Key, Look(s, k)
  PROVE  Inv' /\ saving'[s].todo = saving[s].todo
<1> DEFINE found == setting[k].state = "live"
           d == [saving[s] EXCEPT !.key = k, !.found = found]
<1>1. /\ saving[s] \in Progress /\ PartOf(saving[s]) /\ saving[s].todo # NoSave
      /\ k \in DOMAIN saving[s].todo \ DOMAIN saving[s].written
  BY DEF Look, Inv, IsSaving, Locked
<1>2. found \in BOOLEAN
  OBVIOUS
<1> HIDE DEF found
<1>3. d \in Progress /\ PartOf(d) /\ d.todo = saving[s].todo /\ d.written = saving[s].written
  BY <1>1, <1>2, LookType
<1>4. Give(s, d) /\ setting' = setting
  BY DEF Look, found
<1> HIDE DEF d
<1>5. \A t \in Slot \ {s} : DOMAIN d.written \cap Locked(t) = {}
  BY <1>3 DEF Inv, LocksApart, Locked
<1>6. Inv'
  BY <1>3, <1>4, <1>5, GiveStep DEF Inv
<1>7. QED
  BY <1>3, <1>4, <1>6 DEF Give, Inv

LEMMA WriteStep ==
  ASSUME Inv, NEW s \in Slot, Write(s)
  PROVE  Inv' /\ saving'[s].todo = saving[s].todo
<1> DEFINE c == saving[s]
           d == [c EXCEPT !.key = NoKey, !.found = FALSE,
                          !.written = Put(@, c.key, c.todo[c.key])]
<1>1. c \in Progress /\ PartOf(c) /\ c.key # NoKey /\ Free(s, c.key)
  BY DEF Write, Inv
<1>2. /\ d \in Progress /\ PartOf(d) /\ d.todo = c.todo
      /\ DOMAIN d.written = DOMAIN c.written \cup {c.key}
  BY <1>1, WriteType
<1>3. Give(s, d) /\ setting' = setting
  BY DEF Write
<1> HIDE DEF d
<1>4. \A t \in Slot \ {s} : DOMAIN d.written \cap Locked(t) = {}
  BY <1>1, <1>2 DEF Inv, LocksApart, Locked, Free, Holds
<1>5. Inv'
  BY <1>2, <1>3, <1>4, GiveStep DEF Inv
<1>6. QED
  BY <1>2, <1>3, <1>5 DEF Give, Inv

(* COMMIT writes the rows of the whole tab. *)
LEMMA CommitStep ==
  ASSUME Inv, NEW s \in Slot, Commit(s)
  PROVE  /\ Inv' /\ saving'[s] = Quiet
         /\ setting' = [k \in Key |->
              IF k \in DOMAIN saving[s].todo
              THEN [state |-> "live", value |-> saving[s].todo[k]] ELSE setting[k]]
<1> DEFINE c == saving[s]
<1>1. /\ c \in Progress /\ PartOf(c) /\ c.todo # NoSave
      /\ DOMAIN c.written = DOMAIN c.todo
  BY DEF Commit, Inv, IsSaving, Locked
<1>2. c.todo \in Tab /\ \A k \in DOMAIN c.todo : c.written[k] = c.todo[k]
  BY <1>1, ProgressIs DEF PartOf
<1>3. setting' = [k \in Key |->
         IF k \in DOMAIN c.todo THEN [state |-> "live", value |-> c.todo[k]] ELSE setting[k]]
  BY <1>1, <1>2 DEF Commit, Locked
<1>4. \A k \in DOMAIN c.todo : [state |-> "live", value |-> c.todo[k]] \in Rows
  BY <1>2, TabIs DEF Rows
<1>5. setting' \in [Key -> Rows]
  BY <1>3, <1>4 DEF Inv
<1>6. Give(s, Quiet)
  BY DEF Commit
<1>7. Inv'
  BY <1>5, <1>6, QuietStep
<1>8. QED
  BY <1>3, <1>6, <1>7 DEF Give, Inv

LEMMA InvStep == Inv /\ [SettingsNext]_settingVars => Inv'
<1> SUFFICES ASSUME Inv, [SettingsNext]_settingVars PROVE Inv'
  OBVIOUS
<1>1. ASSUME NEW s \in Slot, NEW K \in SUBSET Key \ {{}}, NEW w \in [K -> Value],
             Upsert(s, w)
      PROVE  Inv'
  <2> DEFINE d == [Quiet EXCEPT !.todo = w]
  <2>1. d \in Progress /\ PartOf(d) /\ DOMAIN d.written = {}
    BY UpsertType
  <2>2. Give(s, d) /\ setting' = setting
    BY <1>1 DEF Upsert
  <2> HIDE DEF d
  <2>3. QED
    BY <2>1, <2>2, GiveStep DEF Inv
<1>2. ASSUME NEW s \in Slot, Clash(s) \/ Victim(s) \/ Abandon(s) PROVE Inv'
  BY <1>2, QuietStep DEF Clash, Victim, Abandon, Inv
<1>3. ASSUME NEW k \in Key, DeleteSetting(k) PROVE Inv'
  BY <1>3 DEF DeleteSetting, Inv, Rows, LocksApart, Locked, PartOf
<1>4. CASE UNCHANGED settingVars
  BY <1>4 DEF settingVars, Inv, LocksApart, Locked, PartOf
<1>5. QED
  BY <1>1, <1>2, <1>3, <1>4, LookStep, WriteStep, CommitStep DEF SettingsNext, SettingsStep

LEMMA InvAlways == SettingsInit /\ [][SettingsNext]_settingVars => []Inv
  BY InvInit, InvStep, PTL

(* Rows keep their types, a transaction writes what it was asked to and    *)
(* no two of them hold one row.                                            *)
THEOREM SettingsTyped == SettingsInit /\ [][SettingsNext]_settingVars => []SettingsTypeOK
<1>1. Inv => SettingsTypeOK
  <2> SUFFICES ASSUME Inv PROVE SettingsTypeOK
    OBVIOUS
  <2>1. ASSUME NEW s \in Slot
        PROVE  /\ saving[s].key \in Key \cup {NoKey} /\ saving[s].found \in BOOLEAN
               /\ \A k \in Locked(s) : saving[s].written[k] = saving[s].todo[k]
               /\ \A t \in Slot \ {s} : Locked(s) \cap Locked(t) = {}
    <3>1. saving[s] \in Progress /\ PartOf(saving[s])
      BY DEF Inv
    <3>2. \A k \in Locked(s) : saving[s].written[k] = saving[s].todo[k]
      BY <3>1, QuietType DEF PartOf, Locked
    <3>3. QED
      BY <3>1, <3>2, ProgressIs DEF Inv, LocksApart
  <2>2. QED
    BY <2>1 DEF SettingsTypeOK, Inv
<1>2. QED
  BY <1>1, InvAlways, PTL

-----------------------------------------------------------------------------
(* What SettingStore sees: the values shown and the tabs asked for. *)
LEMMA StoreInit == SettingsInit => Store!Init
  BY QuietType DEF SettingsInit, Store!Init, Shown, Absent

(* One connection's tab changes and no value. *)
LEMMA AskedIs ==
  ASSUME Inv, NEW s \in Slot, NEW c \in Progress, Give(s, c)
  PROVE  [t \in Slot |-> saving[t].todo]'
           = [[t \in Slot |-> saving[t].todo] EXCEPT ![s] = c.todo]
  BY DEF Inv, Give

LEMMA StoreStep == Inv /\ [SettingsNext]_settingVars => [Store!Next]_Store!svars
<1> SUFFICES ASSUME Inv, [SettingsNext]_settingVars
             PROVE  Store!Next \/ UNCHANGED Store!svars
  OBVIOUS
<1> DEFINE value == Shown
           asked == [t \in Slot |-> saving[t].todo]
<1>1. setting' = setting => value' = value
  BY DEF Shown
<1>2. ASSUME NEW s \in Slot, NEW K \in SUBSET Key \ {{}}, NEW w \in [K -> Value],
             Upsert(s, w)
      PROVE  Store!Next
  <2> DEFINE d == [Quiet EXCEPT !.todo = w]
  <2>1. d \in Progress /\ d.todo = w
    BY UpsertType
  <2>2. Give(s, d) /\ setting' = setting /\ asked[s] = NoSave
    BY <1>2 DEF Upsert, IsSaving
  <2> HIDE DEF d
  <2>3. asked' = [asked EXCEPT ![s] = w]
    BY <2>1, <2>2, AskedIs
  <2>4. Store!Ask(s, w)
    BY <1>1, <2>2, <2>3 DEF Store!Ask
  <2>5. w \in Store!Saves
    BY DEF Store!Saves
  <2>6. QED
    BY <2>4, <2>5 DEF Store!Next
<1>3. ASSUME NEW s \in Slot, Clash(s) \/ Victim(s) \/ Abandon(s) PROVE Store!Next
  <2>1. Give(s, Quiet) /\ setting' = setting
    BY <1>3 DEF Clash, Victim, Abandon
  <2>2. asked' = [asked EXCEPT ![s] = NoSave]
    BY <2>1, QuietType, AskedIs
  <2>3. QED
    BY <1>1, <2>1, <2>2 DEF Store!Refuse, Store!Next
<1>4. ASSUME NEW s \in Slot, (\E k \in Key : Look(s, k)) \/ Write(s)
      PROVE  UNCHANGED Store!svars
  <2>1. /\ saving'[s].todo = saving[s].todo /\ setting' = setting
        /\ \A t \in Slot \ {s} : saving'[t] = saving[t]
    BY <1>4, LookStep, WriteStep DEF Look, Write, Give, Inv
  <2>2. asked' = asked
    BY <2>1
  <2>3. QED
    BY <1>1, <2>1, <2>2 DEF Store!svars
<1>5. ASSUME NEW s \in Slot, Commit(s) PROVE Store!Next
  <2>1. Give(s, Quiet) /\ asked[s] # NoSave
    BY <1>5 DEF Commit, IsSaving
  <2>2. asked' = [asked EXCEPT ![s] = NoSave]
    BY <2>1, QuietType, AskedIs
  <2>3. setting' = [k \in Key |->
          IF k \in DOMAIN saving[s].todo
          THEN [state |-> "live", value |-> saving[s].todo[k]] ELSE setting[k]]
    BY <1>5, CommitStep
  <2>4. value' = [k \in Key |-> IF k \in DOMAIN asked[s] THEN asked[s][k] ELSE value[k]]
    BY <2>3 DEF Shown
  <2>5. QED
    BY <2>1, <2>2, <2>4 DEF Store!Save, Store!Next
<1>6. ASSUME NEW k \in Key, DeleteSetting(k) PROVE Store!Next
  <2>1. setting' = [setting EXCEPT ![k] = Deleted] /\ saving' = saving
    BY <1>6 DEF DeleteSetting
  <2>2. value' = [value EXCEPT ![k] = Unset]
    BY <2>1 DEF Shown, Deleted, Inv
  <2>3. QED
    BY <2>1, <2>2 DEF Store!Remove, Store!Next
<1>7. CASE UNCHANGED settingVars
  BY <1>7 DEF settingVars, Shown, Store!svars
<1>8. QED
  BY <1>2, <1>3, <1>4, <1>5, <1>6, <1>7 DEF SettingsNext, SettingsStep

(* settings/services.go: a save, of one key or of a whole tab, takes       *)
(* effect at once and as a whole or not at all, however saves wait for     *)
(* each other, clash with deleted rows, are aborted or are cut off.        *)
THEOREM SettingsImplementStore ==
  SettingsInit /\ [][SettingsNext]_settingVars => ImplementsStore
  BY StoreInit, StoreStep, InvAlways, PTL DEF ImplementsStore, Store!Spec
=============================================================================
