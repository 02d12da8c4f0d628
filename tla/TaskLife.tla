------------------------------ MODULE TaskLife ------------------------------
(* One task from the day it is given: moved about, handed in for a check,    *)
(* approved or sent back, put off and given to others, and the points it     *)
(* pays.  Every handler locks the row first (deleting is one update), so     *)
(* each is one step.                                                        *)
(* Days are numbers; 0 is no date.                                           *)
EXTENDS Naturals, Sequences, FiniteSets

CONSTANTS
    Person,     \* the team
    Boss,       \* those who run everybody's tasks
    Nobody,     \* a task of an event may be for whoever is on it
    Priority,   \* how urgent a task may be
    Counting,   \* the point rules that are on (and penalties, when they are)
    LastDay,    \* bound: the last day there is
    MaxHandIns, \* bound: how often the work may be handed in
    MaxMoved    \* bound: how often its date may be moved later

ASSUME TaskAssumption ==
    /\ Boss \subseteq Person /\ Nobody \notin Person
    /\ Priority \subseteq {"low", "normal", "high", "urgent"}
    /\ LastDay \in Nat /\ MaxHandIns \in Nat /\ MaxMoved \in Nat

VARIABLES
    task,       \* the tasks row
    handins,    \* its task_submissions, oldest first: what was decided
    points,     \* points_ledger: what was paid, each thing once
    taskDay     \* what day it is

taskVars == <<task, handins, points, taskDay>>

Active == {"open", "doing", "waiting"}
TaskStatus == Active \cup {"review", "done", "cancelled"}

NoTask == [status |-> "none", giver |-> Nobody, assignee |-> Nobody, priority |-> "none",
           needsCheck |-> FALSE, due |-> 0, completed |-> 0, accepted |-> Nobody,
           revisions |-> 0, moved |-> 0]

TaskInit == task = NoTask /\ handins = <<>> /\ points = {} /\ taskDay = 1

-----------------------------------------------------------------------------
(* Who may do what                                                           *)

Exists == task.status \in TaskStatus
Runs(u) == u \in Boss \/ u = task.giver
Does(u) == task.assignee \in {u, Nobody}

(* Who does a task works it; who gave it, or a boss, checks and cancels. *)
CanMove(u, to) ==
    LET from == task.status IN
    /\ Does(u) \/ Runs(u)
    /\ \/ Runs(u)
       \/ /\ "cancelled" \notin {from, to}
          /\ from = "review" => to = "waiting"
          /\ to = "done" => ~task.needsCheck
          /\ to = "review" => task.needsCheck
          /\ from = "done" => ~task.needsCheck

-----------------------------------------------------------------------------
(* Points                                                                    *)

DoneRule == [low |-> "done_low", normal |-> "done_normal", high |-> "done_high",
             urgent |-> "done_urgent"]

(* Mutant: work that was sent back may still be approved first time. *)
AnyTime(t) == t.needsCheck

FirstTime(t) == t.needsCheck /\ t.revisions = 0

(* Paid to whom the task is for, unless they gave it to themselves. *)
Pay(t, kind, source, rules) ==
    IF t.assignee \in {Nobody, t.giver} THEN {}
    ELSE {[kind |-> kind, source |-> source, rule |-> r, to |-> t.assignee] :
             r \in rules \cap Counting}

Finished(t, late) ==
    Pay(t, "task", 0, {DoneRule[t.priority], IF late THEN "late" ELSE "on_time"}
                      \cup (IF FirstTime(t) THEN {"first_time"} ELSE {}))

(* The clock stops with the first hand-in, or when it is ticked done. *)
Stopped(t) == IF t.completed = 0 THEN taskDay ELSE t.completed

IsLate(t) == t.due # 0 /\ Stopped(t) > t.due

-----------------------------------------------------------------------------
(* Hand-ins                                                                  *)

(* Mutant: the latest hand-in is decided, whether it was or not. *)
AllOfThem == DOMAIN handins

Undecided == {i \in DOMAIN handins : handins[i] = "none"}

(* A decision closes the latest hand-in that has none. *)
Closed == {i \in Undecided : \A j \in Undecided : j <= i}

Decided(decision) == [i \in DOMAIN handins |-> IF i \in Closed THEN decision ELSE handins[i]]

-----------------------------------------------------------------------------
(* createTask: for oneself, or by a boss for anybody. *)
CreateTask(u) ==
    /\ task.status = "none"
    /\ \E a \in (IF u \in Boss THEN Person \cup {Nobody} ELSE {u}), p \in Priority,
          check \in BOOLEAN, due \in 0 .. LastDay :
          task' = [NoTask EXCEPT !.status = "open", !.giver = u, !.assignee = a, !.priority = p,
                                 !.needsCheck = check /\ a # u, !.due = due]
    /\ UNCHANGED <<handins, points, taskDay>>

(* A date moved later is counted while the task is not closed. *)
Later(due) == task.due # 0 /\ (due = 0 \/ due > task.due)

Redated(due) ==
    [task EXCEPT !.due = due,
                 !.moved = IF Later(due) /\ task.status \notin {"done", "cancelled"}
                           THEN @ + 1 ELSE @]

UpdateTask(u) ==
    /\ Exists /\ Runs(u)
    /\ \/ \E due \in 0 .. LastDay : task' = Redated(due)
       \/ \E p \in Priority : task' = [task EXCEPT !.priority = p]
       \/ \E check \in BOOLEAN : task' = [task EXCEPT !.needsCheck = check]
       \/ u \in Boss /\ \E a \in Person \cup {Nobody} : task' = [task EXCEPT !.assignee = a]
    /\ task' # task /\ task'.moved <= MaxMoved
    /\ UNCHANGED <<handins, points, taskDay>>

(* moveTask.  Back to work, or cancelled: it is not finished. *)
Moved(u, to) ==
    [task EXCEPT !.status = to,
                 !.accepted = CASE to = "done" -> u [] to = "review" -> @ [] OTHER -> Nobody,
                 !.completed = CASE to \in {"done", "review"} -> Stopped(task)
                                 [] to = "cancelled" -> @
                                 [] OTHER -> 0]

MoveTask(u, to) ==
    /\ Exists /\ to # task.status /\ CanMove(u, to)
    /\ task' = Moved(u, to)
    /\ handins' = IF task.status = "review" /\ to = "done" THEN Decided("approved") ELSE handins
    /\ points' = IF to = "done" THEN points \cup Finished(task, IsLate(task)) ELSE points
    /\ UNCHANGED taskDay

SubmitTask(u) ==
    /\ Does(u) \/ u \in Boss
    /\ task.status \in Active /\ task.needsCheck
    /\ Len(handins) < MaxHandIns
    /\ task' = [task EXCEPT !.status = "review", !.completed = Stopped(task)]
    /\ handins' = Append(handins, "none")
    /\ UNCHANGED <<points, taskDay>>

(* reviewTask *)
Approve(u) ==
    /\ task.status = "review" /\ Runs(u)
    /\ task' = [task EXCEPT !.status = "done", !.accepted = u]
    /\ handins' = Decided("approved")
    /\ points' = points \cup Finished(task, IsLate(task))
    /\ UNCHANGED taskDay

(* Mutant: work sent back counts as handed in. *)
ClockKept(t) == [t EXCEPT !.status = "doing", !.revisions = @ + 1]

(* The clock runs until it is handed in again. *)
BackToWork(t) == [t EXCEPT !.status = "doing", !.completed = 0, !.revisions = @ + 1]

SendBack(u) ==
    /\ task.status = "review" /\ Runs(u) /\ task.revisions < MaxHandIns
    /\ task' = BackToWork(task)
    /\ handins' = Decided("sent_back")
    /\ points' = points \cup UNION {Pay(task, "submission", i, {"sent_back"}) : i \in Closed}
    /\ UNCHANGED taskDay

(* A later day, and not before today.  Whoever does the task pays for it.    *)
SnoozeTask(u) ==
    /\ Does(u) \/ Runs(u)
    /\ task.status \in Active \cup {"review"}
    /\ \E to \in taskDay .. LastDay :
          /\ to > task.due /\ task' = Redated(to)
    /\ task'.moved <= MaxMoved
    /\ points' = IF task.due # 0 /\ u = task.assignee
                 THEN points \cup Pay(task, "move", task'.moved, {"deadline_moved"}) ELSE points
    /\ UNCHANGED <<handins, taskDay>>

DeleteTask(u) ==
    /\ Exists /\ Runs(u)
    /\ task' = [task EXCEPT !.status = "deleted"]
    /\ UNCHANGED <<handins, points, taskDay>>

TaskDayPasses == taskDay < LastDay /\ taskDay' = taskDay + 1 /\ UNCHANGED <<task, handins, points>>

TaskNext ==
    \/ \E u \in Person :
          \/ CreateTask(u) \/ UpdateTask(u) \/ SubmitTask(u) \/ Approve(u) \/ SendBack(u)
          \/ SnoozeTask(u) \/ DeleteTask(u)
          \/ \E to \in TaskStatus : MoveTask(u, to)
    \/ TaskDayPasses

TaskSpec == TaskInit /\ [][TaskNext]_taskVars

-----------------------------------------------------------------------------
(* Properties                                                                *)

Decision == {"none", "approved", "sent_back"}

TaskTypeOK ==
    /\ task \in [status : TaskStatus \cup {"none", "deleted"}, giver : Person \cup {Nobody},
                 assignee : Person \cup {Nobody}, priority : Priority \cup {"none"},
                 needsCheck : BOOLEAN, due : Nat, completed : Nat, accepted : Person \cup {Nobody},
                 revisions : Nat, moved : Nat]
    /\ handins \in Seq(Decision)
    /\ taskDay \in Nat

(* However a task got there (a hand-in, a tick, a drag across the board, an  *)
(* approval, reopened and finished again), its clock stands while it is      *)
(* handed in or done and runs while it is worked on, and what is done was    *)
(* accepted.  A cancelled task's may do either.                              *)
ClockStops ==
    /\ task.status \in {"review", "done"} => task.completed # 0
    /\ task.status \in Active => task.completed = 0
    /\ task.status = "done" => task.accepted # Nobody

(* "Approved first time" is paid by the word of who gave the task or runs    *)
(* it, never of who only did it, and not for work that was sent back before. *)
BonusOnlyUnreturned ==
    [][(\E e \in points' \ points : e.rule = "first_time")
          => /\ task'.accepted \in Boss \cup {task.giver}
             /\ \A i \in DOMAIN handins' : handins'[i] # "sent_back"]_taskVars

(* What was decided about a hand-in is never decided again.                  *)
DecisionsStand ==
    [][\A i \in DOMAIN handins : handins[i] # "none" => handins'[i] = handins[i]]_taskVars
=============================================================================
