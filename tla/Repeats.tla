------------------------------ MODULE Repeats -------------------------------
(* Repeating tasks.  Whoever looks at their tasks, or the morning job, makes *)
(* the copies that are due; nothing is locked, so several make them at once. *)
(* Days are numbers; 0 is none.                                              *)
EXTENDS Naturals

CONSTANTS
    Maker,      \* requests and jobs that make copies
    Rule,
    Falls,      \* the days each rule falls on
    LastRepeat, \* bound: the last day there is
    Settled     \* bound: a copy's date is moved only once its rule is settled

ASSUME RepeatAssumption ==
    /\ Falls \in [Rule -> SUBSET (Nat \ {0})] /\ LastRepeat \in Nat /\ Settled \in BOOLEAN

VARIABLES
    rules,      \* task_repeats: still on, from what day, and checked_on
    copies,     \* the tasks made of them, the deleted ones too
    makers,     \* what each maker read, and the rules it has still to do
    repeatDay   \* what day it is

repeatVars == <<rules, copies, makers, repeatDay>>

(* A copy's due date may be moved: made is the day it was made for, stood    *)
(* every day it has been due.                                                *)
Copy == [rule : Rule, made : Nat \ {0}, due : Nat, stood : SUBSET Nat, deleted : BOOLEAN]

NewCopy(r, d) == [rule |-> r, made |-> d, due |-> d, stood |-> {d}, deleted |-> FALSE]

NoRule == [state |-> "none", from |-> 0, checked |-> 0]
NotMaking == [called |-> FALSE, todo |-> {}, made |-> {}, read |-> [r \in Rule |-> 0], today |-> 0]

(* A maker with nothing left to do forgets what it read.                     *)
Rested(maker) == IF maker.todo = {} THEN NotMaking ELSE maker

RepeatInit ==
    /\ rules = [r \in Rule |-> NoRule]
    /\ copies = {}
    /\ makers = [m \in Maker |-> NotMaking]
    /\ repeatDay = 1

(* The latest day, up to today, that the rule falls on; 0 when there is none. *)
Latest(r, today) ==
    LET days == {d \in Falls[r] : rules[r].from <= d /\ d <= today}
    IN  IF days = {} THEN 0 ELSE CHOOSE d \in days : \A e \in days : e <= d

(* Mutant: a deleted copy does not keep its day. *)
LiveCopyDue(r, d) == \E c \in copies : c.rule = r /\ c.due = d /\ ~c.deleted

(* tasks_repeat_day_uniq, which takes the deleted copies with the rest.      *)
CopyDue(r, d) == \E c \in copies : c.rule = r /\ c.due = d

-----------------------------------------------------------------------------
(* createRepeat makes what is due straight away, like the list of tasks.     *)
CreateRepeat(m, r) ==
    /\ makers[m].todo = {} /\ ~makers[m].called /\ rules[r].state = "none"
    /\ \E from \in 1 .. LastRepeat :
          rules' = [rules EXCEPT ![r] = [state |-> "on", from |-> from, checked |-> 0]]
    /\ makers' = [makers EXCEPT ![m].called = TRUE]
    /\ UNCHANGED <<copies, repeatDay>>

(* makeDueRepeats reads the rules not checked today, and what day it is.     *)
BeginMaking(m) ==
    /\ makers[m].todo = {}
    /\ makers' = [makers EXCEPT ![m] = Rested(
          [called |-> FALSE, made |-> {}, today |-> repeatDay,
           todo |-> {r \in Rule : rules[r].state = "on" /\ rules[r].checked < repeatDay},
           read |-> [r \in Rule |-> rules[r].checked]])]
    /\ UNCHANGED <<rules, copies, repeatDay>>

(* Mutant: only what falls on this very day is made. *)
JustToday(r, m) == Latest(r, makers[m].today) = makers[m].today

(* Mutant: made from the day it is checked, whether it falls on one or not. *)
FromChecked(r, m) == Latest(r, makers[m].today) >= makers[m].read[r]

(* Missed days make one copy, for the latest of them. *)
ToMake(r, m) == Latest(r, makers[m].today) > makers[m].read[r]

MakeCopy(m, r) ==
    LET day == Latest(r, makers[m].today) IN
    /\ r \in makers[m].todo /\ makers[m].made = {}
    /\ copies' = IF ToMake(r, m) /\ ~CopyDue(r, day) THEN copies \cup {NewCopy(r, day)}
                 ELSE copies
    /\ makers' = [makers EXCEPT ![m].made = {r}]
    /\ UNCHANGED <<rules, repeatDay>>

(* With the day it was looked at, which may be yesterday by now.             *)
MarkChecked(m, r) ==
    /\ r \in makers[m].made
    /\ rules' = [rules EXCEPT ![r].checked = makers[m].today]
    /\ makers' = [makers EXCEPT ![m] = Rested([makers[m] EXCEPT !.todo = @ \ {r}, !.made = {}])]
    /\ UNCHANGED <<copies, repeatDay>>

(* The server stops, or a statement fails.                                   *)
MakerCrash(m) ==
    /\ makers[m].todo # {} \/ makers[m].called
    /\ makers' = [makers EXCEPT ![m] = NotMaking]
    /\ UNCHANGED <<rules, copies, repeatDay>>

(* Copies already made stay on the list.                                     *)
StopRepeat(r) ==
    /\ rules[r].state = "on"
    /\ rules' = [rules EXCEPT ![r].state = "stopped"]
    /\ UNCHANGED <<copies, makers, repeatDay>>

(* updateTask and snoozeTask: the index refuses a day another copy has.      *)
MoveCopy(c, to) ==
    /\ ~c.deleted /\ to # c.due
    /\ to # 0 => ~CopyDue(c.rule, to)
    /\ Settled => /\ rules[c.rule].checked >= c.made
                  /\ \A m \in Maker : c.rule \notin makers[m].todo
    /\ copies' = (copies \ {c}) \cup {[c EXCEPT !.due = to, !.stood = @ \cup {to}]}
    /\ UNCHANGED <<rules, makers, repeatDay>>

DeleteCopy(c) ==
    /\ ~c.deleted
    /\ copies' = (copies \ {c}) \cup {[c EXCEPT !.deleted = TRUE]}
    /\ UNCHANGED <<rules, makers, repeatDay>>

RepeatDayPasses ==
    repeatDay < LastRepeat /\ repeatDay' = repeatDay + 1 /\ UNCHANGED <<rules, copies, makers>>

RepeatNext ==
    \/ \E m \in Maker :
          \/ BeginMaking(m) \/ MakerCrash(m)
          \/ \E r \in Rule : CreateRepeat(m, r) \/ MakeCopy(m, r) \/ MarkChecked(m, r)
    \/ \E r \in Rule : StopRepeat(r)
    \/ \E c \in copies : DeleteCopy(c) \/ \E to \in 0 .. LastRepeat : MoveCopy(c, to)
    \/ RepeatDayPasses

RepeatSpec == RepeatInit /\ [][RepeatNext]_repeatVars

-----------------------------------------------------------------------------
(* Properties                                                                *)

RepeatTypeOK ==
    /\ rules \in [Rule -> [state : {"none", "on", "stopped"}, from : Nat, checked : Nat]]
    /\ copies \subseteq Copy
    /\ makers \in [Maker -> [called : BOOLEAN, todo : SUBSET Rule, made : SUBSET Rule,
                             read : [Rule -> Nat], today : Nat]]
    /\ repeatDay \in Nat

(* A copy of rule r has stood on day d.                                      *)
StoodOn(r, d) == \E c \in copies : c.rule = r /\ d \in c.stood

(* checked_on is never ahead of the work: whatever makers overlapped, fell   *)
(* asleep over midnight or crashed, once a rule is checked for a day the     *)
(* latest day it fell on has had its copy.                                   *)
CheckedMeansMade ==
    \A r \in Rule : LET d == Latest(r, rules[r].checked) IN d # 0 => StoodOn(r, d)

(* Once per rule per day: no two copies are made for the same day, though    *)
(* the copy may since have been deleted, or moved when its rule was settled. *)
OnceADay ==
    \A c, d \in copies : c.rule = d.rule /\ c.made = d.made => c = d
=============================================================================
