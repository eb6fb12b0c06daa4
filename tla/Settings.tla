------------------------------ MODULE Settings ------------------------------
(***************************************************************************)
(* The settings of one tenant.  PUT /settings saves one key, POST          *)
(* /settings/bulk a tab of keys in one transaction, in the order Go        *)
(* happens to iterate the map.  Each key is looked up and then saved or    *)
(* inserted; the row lock is kept until the transaction ends, so two tabs  *)
(* saved at once can wait for each other, which the database resolves by   *)
(* aborting one.  Deleted rows stay in the unique index.                   *)
(***************************************************************************)
EXTENDS Naturals, FiniteSets, Functions

CONSTANTS Slot, Key, Value, Unset, NoSave, NoKey

ASSUME SettingAssumption ==
  /\ Unset \notin Value /\ NoKey \notin Key
  /\ NoSave \notin UNION {[K -> Value] : K \in SUBSET Key}

VARIABLES
  setting,  \* rows by key: absent, live or deleted
  saving    \* what each connection is doing

settingVars == <<setting, saving>>

Absent == [state |-> "absent", value |-> Unset]
Deleted == [state |-> "deleted", value |-> Unset]   \* its value is read by nobody
Rows == [state : {"live"}, value : Value] \cup {Absent, Deleted}
Quiet == [todo |-> NoSave, key |-> NoKey, found |-> FALSE, written |-> <<>>]

SettingsInit ==
  /\ setting = [k \in Key |-> Absent]
  /\ saving = [s \in Slot |-> Quiet]

(* The rows a connection's transaction has locked, and who holds a key. *)
Locked(s) == DOMAIN saving[s].written
Holds(t, k) == k \in Locked(t)
Free(s, k) == \A t \in Slot \ {s} : ~Holds(t, k)
IsSaving(s) == saving[s].todo # NoSave
Give(s, c) == saving' = [saving EXCEPT ![s] = c]

Upsert(s, w) ==
  /\ ~IsSaving(s)
  /\ Give(s, [Quiet EXCEPT !.todo = w])
  /\ UNCHANGED setting

(* First: one of the keys left, which the committed rows show or not. *)
Look(s, k) ==
  LET c == saving[s] IN
  /\ IsSaving(s) /\ c.key = NoKey /\ k \in DOMAIN c.todo \ Locked(s)
  /\ Give(s, [c EXCEPT !.key = k, !.found = (setting[k].state = "live")])
  /\ UNCHANGED setting

Put(written, k, v) ==
  [j \in DOMAIN written \cup {k} |-> IF j = k THEN v ELSE written[j]]

(* Seeded fault: the loop writes the value of its first key every time. *)
WriteFirst(s) ==
  LET c == saving[s]
      k == c.key IN
  /\ k # NoKey /\ Free(s, k)
  /\ c.found \/ setting[k].state = "absent"
  /\ Give(s, [c EXCEPT !.key = NoKey, !.found = FALSE,
                      !.written = Put(@, k, c.todo[CHOOSE j \in DOMAIN c.todo : TRUE])])
  /\ UNCHANGED setting

(* Save or Create, once nobody else holds the row: a found row is written, *)
(* live again if it was deleted meanwhile; a new one must be new.          *)
Write(s) ==
  LET c == saving[s]
      k == c.key IN
  /\ k # NoKey /\ Free(s, k)
  /\ c.found \/ setting[k].state = "absent"
  /\ Give(s, [c EXCEPT !.key = NoKey, !.found = FALSE,
                      !.written = Put(@, k, c.todo[k])])
  /\ UNCHANGED setting

(* Seeded fault: a key that turns out to be taken is looked up once more. *)
RetryClash(s) ==
  LET c == saving[s] IN
  /\ c.key # NoKey /\ Free(s, c.key)
  /\ ~c.found /\ setting[c.key].state # "absent"
  /\ Give(s, [c EXCEPT !.key = NoKey])
  /\ UNCHANGED setting

(* A row of that key is in the unique index, deleted or not: all is undone.*)
Clash(s) ==
  LET c == saving[s] IN
  /\ c.key # NoKey /\ Free(s, c.key)
  /\ ~c.found /\ setting[c.key].state # "absent"
  /\ Give(s, Quiet)
  /\ UNCHANGED setting

(* Seeded fault: the loop saves on a connection of its own, key by key. *)
CommitEach(s) ==
  /\ IsSaving(s) /\ Locked(s) # {} /\ saving[s].key = NoKey
  /\ setting' = [k \in Key |->
       IF k \in Locked(s) THEN [state |-> "live", value |-> saving[s].written[k]]
       ELSE setting[k]]
  /\ LET left == DOMAIN saving[s].todo \ Locked(s) IN
     Give(s, IF left = {} THEN Quiet
             ELSE [Quiet EXCEPT !.todo = Restrict(saving[s].todo, left)])

Commit(s) ==
  /\ IsSaving(s) /\ Locked(s) = DOMAIN saving[s].todo
  /\ setting' = [k \in Key |->
       IF k \in Locked(s) THEN [state |-> "live", value |-> saving[s].written[k]]
       ELSE setting[k]]
  /\ Give(s, Quiet)

(* The database aborts one of a circle of transactions waiting in turn. *)
WaitsFor(s, t) == saving[s].key # NoKey /\ Holds(t, saving[s].key) /\ t # s
Victim(s) ==
  /\ \E circle \in SUBSET Slot :
       s \in circle /\ \A t \in circle : \E u \in circle : WaitsFor(t, u)
  /\ Give(s, Quiet)
  /\ UNCHANGED setting

(* A request fails or its connection is lost; its transaction is undone. *)
Abandon(s) ==
  /\ IsSaving(s)
  /\ Give(s, Quiet)
  /\ UNCHANGED setting

(* DELETE /settings/:key, once nobody holds the row. *)
DeleteSetting(k) ==
  /\ setting[k].state = "live" /\ \A s \in Slot : ~Holds(s, k)
  /\ setting' = [setting EXCEPT ![k] = Deleted]
  /\ UNCHANGED saving

SettingsStep(s) ==
  \/ \E k \in Key : Look(s, k)
  \/ Write(s) \/ Clash(s) \/ Commit(s) \/ Victim(s)
SettingsNext ==
  \/ \E s \in Slot :
       \/ \E K \in SUBSET Key \ {{}} : \E w \in [K -> Value] : Upsert(s, w)
       \/ SettingsStep(s) \/ Abandon(s)
  \/ \E k \in Key : DeleteSetting(k)

(* The database detects deadlocks and hands a lock to who waits for it: a  *)
(* statement that keeps becoming possible is executed.                     *)
SettingsFair == \A s \in Slot : SF_settingVars(SettingsStep(s))

------------------------------------------------------------------------------
(* Rows keep their types, and no two transactions hold one row.            *)
SettingsTypeOK ==
  /\ setting \in [Key -> Rows]
  /\ \A s \in Slot :
       /\ saving[s].key \in Key \cup {NoKey} /\ saving[s].found \in BOOLEAN
       /\ \A k \in Locked(s) : saving[s].written[k] = saving[s].todo[k]
       /\ \A t \in Slot \ {s} : Locked(s) \cap Locked(t) = {}

(* List: the stored value of a live row, the default otherwise. *)
Shown == [k \in Key |-> IF setting[k].state = "live" THEN setting[k].value ELSE Unset]

(* A tab is saved as a whole or not at all, under every interleaving of    *)
(* saves, deletions, deadlocks and failures.                               *)
Store == INSTANCE SettingStore WITH value <- Shown,
                                    asked <- [s \in Slot |-> saving[s].todo]
ImplementsStore == Store!Spec

(* Every save is answered: saves that wait for each other are told apart   *)
(* and none goes round for ever.                                           *)
SavesAnswered == SettingsFair => \A s \in Slot : IsSaving(s) ~> ~IsSaving(s)
==============================================================================
