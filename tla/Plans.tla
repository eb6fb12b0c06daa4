-------------------------------- MODULE Plans --------------------------------
(***************************************************************************)
(* The packages a tenant sells, and the time a code of a package is good   *)
(* for.  The duration is a text, and three functions read it: generating a *)
(* code reads it with a pattern, provisioning a router with the same       *)
(* pattern, and a sale character by character.  Editing a package and      *)
(* switching it on or off save the whole row read before, which brings     *)
(* back a row deleted meanwhile.                                           *)
(*                                                                         *)
(* A text gives amounts of days, hours and minutes, in letters ("1H 30M")  *)
(* or in one of the words HRS, MINS and DAYS, which is `long`; `blank` are *)
(* the units with a blank before them, as in "2 HRS".  Time is in minutes. *)
(***************************************************************************)
EXTENDS Naturals, Sequences

CONSTANTS
  Clerk,       \* connections that edit packages
  Text,        \* durations packages are given
  MaxPlans, MaxCodes, MaxClock

Unit == {"D", "H", "M"}
Duration == [D : Nat, H : Nat, M : Nat, long : BOOLEAN, blank : SUBSET Unit]

ASSUME TextAssumption == Text \subseteq Duration

VARIABLES
  plan,        \* package rows by id
  code,        \* vouchers, with what happened to them
  editing,     \* copy of a package a request is about to save
  clock

planVars == <<plan, code, editing, clock>>

NoText == [D |-> 0, H |-> 0, M |-> 0, long |-> FALSE, blank |-> {}]
NoPlan == [id |-> 0, text |-> NoText]
NoLimit == 0

PlansInit ==
  /\ plan = <<>> /\ code = <<>> /\ clock = 0
  /\ editing = [c \in Clerk |-> NoPlan]

Worth(d, h, m) == 1440 * d + 60 * h + m
Total(text) == Worth(text.D, text.H, text.M)

(* ^(\d+)\s*(HRS|MINS|DAYS)$ *)
Matches(text) ==
  text.long /\ \E u \in Unit : text[u] > 0 /\ \A o \in Unit \ {u} : text[o] = 0
DurationFromPackage(text) == IF Matches(text) THEN Total(text) ELSE 1440

(* Seeded fault: days are sent as hours. *)
RouterOSHours(text) ==
  IF Matches(text) THEN Worth(0, text.H + text.D, text.M) ELSE NoLimit
RouterOSDuration(text) == IF Matches(text) THEN Total(text) ELSE NoLimit

(* A character that is neither a digit nor the unit forgets the amount. *)
Read(text, u) == IF u \in text.blank THEN 0 ELSE text[u]
ParseDuration(text) == Worth(Read(text, "D"), Read(text, "H"), Read(text, "M"))

Held(i) == ~plan[i].deleted
Create(text) ==
  /\ Len(plan) < MaxPlans
  /\ plan' = Append(plan, [text |-> text, deleted |-> FALSE])
  /\ UNCHANGED <<code, editing, clock>>

EditPlan(c, i, text) ==
  /\ editing[c] = NoPlan /\ Held(i)
  /\ editing' = [editing EXCEPT ![c] = [id |-> i, text |-> text]]
  /\ UNCHANGED <<plan, code, clock>>
UpdatePlan(c, i, text) == EditPlan(c, i, text)
ToggleActive(c, i) == EditPlan(c, i, plan[i].text)

SavePlan(c) ==
  /\ editing[c] # NoPlan
  /\ plan' = [plan EXCEPT ![editing[c].id] =
                [text |-> editing[c].text, deleted |-> FALSE]]
  /\ editing' = [editing EXCEPT ![c] = NoPlan]
  /\ UNCHANGED <<code, clock>>

DropEdit(c) ==
  /\ editing[c] # NoPlan
  /\ editing' = [editing EXCEPT ![c] = NoPlan]
  /\ UNCHANGED <<plan, code, clock>>

(* DELETE /packages/:id and POST /packages/delete-many *)
DeletePlans(ids) ==
  /\ plan' = [i \in DOMAIN plan |->
       IF i \in ids THEN [plan[i] EXCEPT !.deleted = TRUE] ELSE plan[i]]
  /\ UNCHANGED <<code, editing, clock>>

Generate(i) ==
  /\ Held(i) /\ Len(code) < MaxCodes
  /\ code' = Append(code,
       [plan |-> i, madeFor |-> plan[i].text,
        expires |-> clock + DurationFromPackage(plan[i].text),
        sold |-> FALSE, soldAt |-> 0, soldFor |-> NoText,
        given |-> FALSE, limit |-> NoLimit, givenFor |-> NoText])
  /\ UNCHANGED <<plan, editing, clock>>

(* Provisioning and selling read the package with the code: none is found  *)
(* when it has been deleted.                                               *)
PlanText(v) == IF Held(code[v].plan) THEN plan[code[v].plan].text ELSE NoText
GiveToRouter(v) ==
  /\ ~code[v].given
  /\ code' = [code EXCEPT ![v].given = TRUE, ![v].givenFor = PlanText(v),
                          ![v].limit = RouterOSDuration(PlanText(v))]
  /\ UNCHANGED <<plan, editing, clock>>

SellCode(v) ==
  /\ ~code[v].sold
  /\ code' = [code EXCEPT
       ![v].sold = TRUE, ![v].soldAt = clock, ![v].soldFor = PlanText(v),
       ![v].expires = IF ParseDuration(PlanText(v)) > 0
                      THEN clock + ParseDuration(PlanText(v)) ELSE @]
  /\ UNCHANGED <<plan, editing, clock>>

Tick == clock < MaxClock /\ clock' = clock + 60 /\ UNCHANGED <<plan, code, editing>>

PlansNext ==
  \/ \E text \in Text : Create(text)
  \/ \E c \in Clerk, i \in DOMAIN plan :
       ToggleActive(c, i) \/ \E text \in Text : UpdatePlan(c, i, text)
  \/ \E c \in Clerk : SavePlan(c) \/ DropEdit(c)
  \/ \E ids \in SUBSET DOMAIN plan \ {{}} : DeletePlans(ids)
  \/ \E i \in DOMAIN plan : Generate(i)
  \/ \E v \in DOMAIN code : GiveToRouter(v) \/ SellCode(v)
  \/ Tick

PlansSpec == PlansInit /\ [][PlansNext]_planVars

------------------------------------------------------------------------------
(* What a router limits a code to is never less than the time from its     *)
(* sale to the expiry of its row, though generating, provisioning and      *)
(* selling it read the package's text in three ways and at three times,    *)
(* whatever was edited in between, as long as they found the same text;    *)
(* also one like "2 HRS", of which a sale reads nothing, so that the code  *)
(* keeps the expiry it was generated with.                                 *)
NeverCutShort ==
  \A v \in DOMAIN code :
    LET c == code[v] IN
    (/\ c.sold /\ c.limit # NoLimit
     /\ c.madeFor = c.soldFor /\ c.givenFor = c.soldFor)
    => c.expires <= c.soldAt + c.limit
==============================================================================
