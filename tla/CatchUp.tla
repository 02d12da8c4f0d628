------------------------------ MODULE CatchUp -------------------------------
(* How far the catch-up has read each lead form of a Page.  Meta's webhook   *)
(* may never come, so the forms are listed again and again: one whose lead   *)
(* count changed, one whose last read was capped, and once a day every form, *)
(* is read from an hour before the place the last read got to.  That place,  *)
(* polled_through, is kept in the database; a capped read's cursor only in   *)
(* memory.  What happens to a lead once it is saved is module LeadIntake.    *)
(*                                                                           *)
(* One action is one Graph answer or one statement, with the synchronous     *)
(* code that follows it.  Clock ticks stand for the moments that matter; an  *)
(* hour is Hour of them.                                                     *)
EXTENDS Integers, FiniteSets

CONSTANTS
    Form,         \* the lead forms on the Page
    Lead,         \* the leads people may fill in
    FormOf,       \* the form each lead is filled in on
    Job,          \* catch-ups that may run at once: the timer's, "Check again"
    None,         \* no form, no cursor
    Hour,         \* poller.ts: HOUR_MS, in ticks
    Cap,          \* poller.ts: MAX_READS_PER_FORM result pages, in leads
    MaxTime,      \* bound: ticks
    MaxOns,       \* bound: times the Page is switched on
    MaxTroubles,  \* bound: Graph calls that fail, and leads Meta drops
    MaxFailures,  \* bound: statements that throw, and crashes
    Overlapping,  \* bound: whether an owner switches the Page while a catch-up runs
    Sweeping      \* bound: the catch-ups that sweep whenever they run ("Check again")

ASSUME CatchUpAssumption ==
    /\ IsFiniteSet(Lead)
    /\ FormOf \in [Lead -> Form]
    /\ None \notin Form
    /\ Hour \in Nat
    /\ Cap \in Nat \ {0}
    /\ MaxTime \in Nat \ {0}
    /\ MaxOns \in Nat
    /\ MaxTroubles \in Nat
    /\ MaxFailures \in Nat
    /\ Overlapping \in BOOLEAN
    /\ Sweeping \subseteq Job

VARIABLES
    clock,      \* the time
    filled,     \* when each lead was filled in, or 0
    deleted,    \* leads Meta no longer keeps
    page,       \* the meta_pages row: active, leads_since, swept_at within a day
    poll,       \* and what keeps catch-ups off it: status, paused_until, next_poll_at
    forms,      \* the meta_forms rows: known, polled_through, leads_count
    cursors,    \* poller.ts cursors: where capped reads stopped (memory)
    saved,      \* leads with a row in incoming_leads
    turning,    \* when the setPageOn that is under way read the clock, or 0
    closed,     \* history: leads filled in while the Page was off, before it came on
    job,        \* the catch-ups that are running
    spent       \* bounds used up: switch-ons, troubles, failures

vars == <<clock, filled, deleted, page, poll, forms, cursors, saved, turning, closed, job, spent>>

NoJob == [pc |-> "idle", at |-> 0, floor |-> 0, sweep |-> FALSE, counts |-> [f \in Form |-> 0],
          through |-> [f \in Form |-> 0], due |-> {}, todo |-> {}, cur |-> None, since |-> 0,
          begun |-> 0, left |-> {}, found |-> {}, complete |-> TRUE, capped |-> FALSE]

(* A Page that is off: its status, paused_until and next_poll_at are cleared. *)
(* barred: the status is needs_reconnect or lead_access.                      *)
Cleared == [barred |-> FALSE, paused |-> FALSE, due |-> TRUE]

Init ==
    /\ clock = 1
    /\ filled = [l \in Lead |-> 0]
    /\ deleted = {}
    /\ page = [active |-> FALSE, since |-> 0, swept |-> FALSE]
    /\ poll = Cleared
    /\ forms = [f \in Form |-> [known |-> FALSE, through |-> 0, count |-> 0]]
    /\ cursors = [f \in Form |-> None]
    /\ saved = {}
    /\ turning = 0
    /\ closed = {}
    /\ job = [j \in Job |-> NoJob]
    /\ spent = [on |-> 0, troubles |-> 0, failures |-> 0]

Larger(a, b) == IF a >= b THEN a ELSE b
Smaller(a, b) == IF a <= b THEN a ELSE b

Goto(j, k) == job' = [job EXCEPT ![j] = k]

Spend(what, limit) == spent[what] < limit /\ spent' = [spent EXCEPT ![what] = @ + 1]

(* What Meta may list for a form now: everything filled in an hour ago or    *)
(* earlier, and some of what came after.                                     *)
Listings(f) ==
    LET kept == {l \in Lead \ deleted : FormOf[l] = f /\ filled[l] > 0} IN
    {S \in SUBSET kept : \A l \in kept : filled[l] + Hour <= clock => l \in S}

(* The lead counts listForms may give. *)
Counts == {c \in [Form -> 0..Cardinality(Lead)] :
              \A f \in Form : \E S \in Listings(f) : c[f] = Cardinality(S)}

-----------------------------------------------------------------------------
(* Facebook and time                                                         *)

(* Nobody fills in a form in the last hour of the bounded time. *)
Fill(l) ==
    /\ filled[l] = 0 /\ clock + Hour <= MaxTime
    /\ filled' = [filled EXCEPT ![l] = clock]
    /\ closed' = IF page.active THEN closed ELSE closed \cup {l}
    /\ UNCHANGED <<clock, deleted, page, poll, forms, cursors, saved, turning, job, spent>>

(* setPageOn is over within the hour. *)
Tick ==
    /\ clock < MaxTime
    /\ turning > 0 => clock < turning + Hour
    /\ clock' = clock + 1
    /\ UNCHANGED <<filled, deleted, page, poll, forms, cursors, saved, turning, closed, job, spent>>

DayPasses ==
    /\ page.swept
    /\ page' = [page EXCEPT !.swept = FALSE]
    /\ UNCHANGED <<clock, filled, deleted, poll, forms, cursors, saved, turning, closed, job, spent>>

(* paused_until and next_poll_at come. *)
PauseEnds ==
    /\ poll.paused
    /\ poll' = [poll EXCEPT !.paused = FALSE]
    /\ UNCHANGED <<clock, filled, deleted, page, forms, cursors, saved, turning, closed, job, spent>>

PollTime ==
    /\ page.active /\ ~poll.due
    /\ poll' = [poll EXCEPT !.due = TRUE]
    /\ UNCHANGED <<clock, filled, deleted, page, forms, cursors, saved, turning, closed, job, spent>>

(* After 90 days Meta drops a lead, long since saved; the form's count falls. *)
Drop(l) ==
    /\ Spend("troubles", MaxTroubles)
    /\ l \in saved \ deleted
    /\ deleted' = deleted \cup {l}
    /\ UNCHANGED <<clock, filled, page, poll, forms, cursors, saved, turning, closed, job>>

(* The webhook, when it does come: Meta sends none for a Page that is off. *)
Webhook(l) ==
    /\ filled[l] > 0 /\ page.active /\ l \notin saved \cup closed
    /\ saved' = saved \cup {l}
    /\ UNCHANGED <<clock, filled, deleted, page, poll, forms, cursors, turning, closed, job, spent>>

(* A worker meets a form nobody has saved yet. *)
EnsureForm(f) ==
    /\ page.active /\ ~forms[f].known
    /\ \E l \in saved : FormOf[l] = f
    /\ forms' = [forms EXCEPT ![f] = [known |-> TRUE, through |-> page.since, count |-> 0]]
    /\ UNCHANGED <<clock, filled, deleted, page, poll, cursors, saved, turning, closed, job, spent>>

-----------------------------------------------------------------------------
(* The Page switched on and off                                              *)

Quiet == Overlapping \/ \A j \in Job : job[j].pc = "idle"

StartTurnOn ==
    /\ ~page.active /\ turning = 0
    /\ turning' = clock
    /\ UNCHANGED <<clock, filled, deleted, page, poll, forms, cursors, saved, closed, job, spent>>

(* Every form is read from now on, as far as the forms could be listed. *)
ResetPlaces(listed, counts) ==
    [f \in Form |->
        IF listed THEN [known |-> TRUE, through |-> turning, count |-> counts[f]]
        ELSE IF forms[f].known THEN [forms[f] EXCEPT !.through = turning]
        ELSE forms[f]]

(* Mutant: leads_since is only set the first time. *)
SwitchedOnAgain(p) ==
    [active |-> TRUE, since |-> IF p.since > 0 THEN p.since ELSE turning, swept |-> TRUE]

SwitchedOn(p) == [active |-> TRUE, since |-> turning, swept |-> TRUE]

CommitTurnOn ==
    /\ turning > 0 /\ Quiet
    /\ Spend("on", MaxOns)
    /\ \E listed \in BOOLEAN, counts \in Counts : forms' = ResetPlaces(listed, counts)
    /\ page' = SwitchedOn(page)
    /\ \E blocked \in BOOLEAN : poll' = [barred |-> blocked, paused |-> FALSE, due |-> FALSE]
    /\ closed' = {l \in closed : filled[l] < turning}
    /\ turning' = 0
    /\ UNCHANGED <<clock, filled, deleted, cursors, saved, job>>

(* Facebook refuses, or nobody may switch this Page on: nothing changes. *)
RefuseTurnOn ==
    /\ turning > 0
    /\ turning' = 0
    /\ UNCHANGED <<clock, filled, deleted, page, poll, forms, cursors, saved, closed, job, spent>>

TurnOff ==
    /\ page.active /\ Quiet
    /\ page' = [page EXCEPT !.active = FALSE]
    /\ poll' = Cleared
    /\ UNCHANGED <<clock, filled, deleted, forms, cursors, saved, turning, closed, job, spent>>

-----------------------------------------------------------------------------
(* What keeps catch-ups off a Page                                           *)

GraphErrorKind == {"token", "permission", "lead_access", "rate_limit", "not_found", "transient", "other"}
PageWide == {"token", "rate_limit", "permission"}

(* Leads Access blocks the app: it looks like a missing permission or Page. *)
LeadAccess(kind, blocked) == kind \in {"permission", "not_found"} /\ blocked

(* pageGraphError: the status is written only while the Page is on, and a     *)
(* permission that is missing writes one that bars nothing.                   *)
GraphError(kind, blocked) ==
    IF kind = "rate_limit" THEN [poll EXCEPT !.paused = TRUE]
    ELSE IF ~page.active THEN poll
    ELSE IF kind = "token" \/ LeadAccess(kind, blocked) THEN [poll EXCEPT !.barred = TRUE]
    ELSE IF kind = "permission" THEN [poll EXCEPT !.barred = FALSE]
    ELSE poll

(* The worker or the health check meets trouble. *)
PageProblem ==
    /\ page.active
    /\ Spend("troubles", MaxTroubles)
    /\ \E kind \in GraphErrorKind, blocked \in BOOLEAN : poll' = GraphError(kind, blocked)
    /\ UNCHANGED <<clock, filled, deleted, page, forms, cursors, saved, turning, closed, job>>

(* The owner reconnects or the health check passes, or another problem takes  *)
(* the place of the one that bars it.                                         *)
ClearPageProblem ==
    /\ page.active /\ poll.barred
    /\ poll' = [poll EXCEPT !.barred = FALSE]
    /\ UNCHANGED <<clock, filled, deleted, page, forms, cursors, saved, turning, closed, job, spent>>

-----------------------------------------------------------------------------
(* One catch-up                                                              *)

(* The timer takes a Page that is due and not paused; "Check again" does not *)
(* ask for either.                                                            *)
MayPoll(j) ==
    /\ job[j].pc = "idle" /\ page.active /\ ~poll.barred
    /\ j \in Sweeping \/ (poll.due /\ ~poll.paused)

(* "Check again" always sweeps. *)
Taken(j) == [NoJob EXCEPT !.at = clock, !.floor = page.since,
                          !.sweep = j \in Sweeping \/ ~page.swept]

(* The Page is taken, and Meta lists its forms with their lead counts. *)
StartPoll(j) ==
    /\ MayPoll(j)
    /\ \E counts \in Counts : Goto(j, [Taken(j) EXCEPT !.pc = "save", !.counts = counts])
    /\ UNCHANGED <<clock, filled, deleted, page, poll, forms, cursors, saved, turning, closed, spent>>

(* Mutant: only what Meta's count says is new is read. *)
ChangedOnly(k, stored) == {f \in Form : k.counts[f] # stored[f].count}

DueForms(k, stored) ==
    {f \in Form : k.sweep \/ cursors[f] # None \/ k.counts[f] # stored[f].count}

(* saveForms, and which forms are due: new ones start at the switch-on. *)
SaveForms(j) ==
    LET k == job[j]
        stored == [f \in Form |-> IF forms[f].known THEN forms[f]
                                  ELSE [known |-> TRUE, through |-> k.floor, count |-> 0]]
        due == DueForms(k, stored)
    IN
    /\ k.pc = "save"
    /\ forms' = stored
    /\ Goto(j, IF due = {} THEN [k EXCEPT !.pc = "bring", !.counts = NoJob.counts]
               ELSE [k EXCEPT !.pc = "next", !.due = due, !.todo = due,
                              !.through = [f \in Form |-> stored[f].through]])
    /\ UNCHANGED <<clock, filled, deleted, page, poll, cursors, saved, turning, closed, spent>>

(* Mutant: exactly from where the last read got to. *)
NoOverlap(through, floor) == Larger(through, floor) - 1

(* An hour before where the last read got to, a second before to include it. *)
Since(through, floor) == Larger(through - Hour, floor) - 1

(* The first answer of a form's read, from its cursor if the last was capped. *)
StartForm(j) ==
    LET k == job[j] IN
    /\ k.pc = "next"
    /\ \E f \in k.todo :
        LET resume == cursors[f]
            since == Since(k.through[f], k.floor)
        IN
        IF resume # None
        THEN Goto(j, [k EXCEPT !.pc = "read", !.cur = f, !.since = resume.since,
                               !.begun = resume.begun, !.left = resume.left])
        ELSE \E S \in Listings(f) :
                Goto(j, [k EXCEPT !.pc = "read", !.cur = f, !.since = since, !.begun = k.at,
                                  !.left = {l \in S : filled[l] > since}])
    /\ UNCHANGED <<clock, filled, deleted, page, poll, forms, cursors, saved, turning, closed, spent>>

(* After a form: the next one, or the leads found are brought in. *)
Onward(k, stop, places) ==
    LET todo == IF stop THEN {} ELSE k.todo \ {k.cur}
        rest == [k EXCEPT !.cur = None, !.since = 0, !.begun = 0, !.left = {}]
    IN
    IF todo # {} THEN [rest EXCEPT !.pc = "next", !.todo = todo]
    ELSE [rest EXCEPT !.pc = "bring", !.todo = {}, !.due = {}, !.counts = NoJob.counts,
                      !.through = NoJob.through, !.capped = \E f \in k.due : places[f] # None]

NotBefore(S, floor) == {l \in S : filled[l] >= floor}

(* Mutant: a cursor is kept although there is no more to come. *)
KeptAnyhow(k, rest) == [since |-> k.since, begun |-> k.begun, left |-> rest]

(* Where a capped read stopped. *)
Kept(k, rest) == IF rest = {} THEN None ELSE [since |-> k.since, begun |-> k.begun, left |-> rest]

(* The last answer: up to Cap of the leads, in an order Meta chooses.  With  *)
(* more to come the place is kept in memory and polled_through stays.        *)
ReadForm(j) ==
    LET k == job[j] IN
    /\ k.pc = "read"
    /\ \E S \in SUBSET k.left :
        LET rest == k.left \ S
            got == [k EXCEPT !.left = {}, !.found = @ \cup NotBefore(S \ deleted, k.floor)]
        IN
        /\ Cardinality(S) = Smaller(Cap, Cardinality(k.left))
        /\ cursors' = [cursors EXCEPT ![k.cur] = Kept(k, rest)]
        /\ Goto(j, IF rest = {} THEN [got EXCEPT !.pc = "move"] ELSE Onward(got, FALSE, cursors'))
    /\ UNCHANGED <<clock, filled, deleted, page, poll, forms, saved, turning, closed, spent>>

(* Mutant: the place of a capped read moves to when its last part ran. *)
PlaceNow(k) == k.at

PlaceReached(k) == k.begun

(* polled_through moves to when the read began, leads_count to what was listed. *)
MovePlace(j) ==
    LET k == job[j] IN
    /\ k.pc = "move"
    /\ forms' = [forms EXCEPT ![k.cur].through = PlaceReached(k), ![k.cur].count = k.counts[k.cur]]
    /\ Goto(j, Onward(k, FALSE, cursors))
    /\ UNCHANGED <<clock, filled, deleted, page, poll, cursors, saved, turning, closed, spent>>

(* bringIn: one INSERT of everything found. *)
BringIn(j) ==
    LET k == job[j] IN
    /\ k.pc = "bring"
    /\ saved' = saved \cup k.found
    /\ Goto(j, [k EXCEPT !.pc = "schedule", !.found = {}])
    /\ UNCHANGED <<clock, filled, deleted, page, poll, forms, cursors, turning, closed, spent>>

(* The next poll is in some minutes, or straight away after a capped read.   *)
Schedule(j) ==
    LET k == job[j] IN
    /\ k.pc = "schedule"
    /\ page' = IF k.sweep /\ k.complete /\ ~k.capped THEN [page EXCEPT !.swept = TRUE] ELSE page
    /\ poll' = [poll EXCEPT !.due = k.capped]
    /\ Goto(j, NoJob)
    /\ UNCHANGED <<clock, filled, deleted, forms, cursors, saved, turning, closed, spent>>

-----------------------------------------------------------------------------
(* Meta refuses, statements throw, the process dies                          *)

(* Meta does not list the forms. *)
RefuseList(j) ==
    /\ MayPoll(j)
    /\ Spend("troubles", MaxTroubles)
    /\ Goto(j, [Taken(j) EXCEPT !.pc = "refused", !.complete = FALSE])
    /\ UNCHANGED <<clock, filled, deleted, page, poll, forms, cursors, saved, turning, closed>>

(* Meta does not give a form's leads: a saved place is forgotten. *)
RefuseForm(j) ==
    LET k == job[j] IN
    /\ k.pc = "read"
    /\ Spend("troubles", MaxTroubles)
    /\ cursors' = [cursors EXCEPT ![k.cur] = None]
    /\ Goto(j, [k EXCEPT !.pc = "blame", !.complete = FALSE])
    /\ UNCHANGED <<clock, filled, deleted, page, poll, forms, saved, turning, closed>>

(* What a refusal means for the Page is written down.  Trouble with the whole *)
(* Page ends the reading; what was found so far is still brought in.          *)
Blame(j) ==
    LET k == job[j] IN
    /\ k.pc \in {"refused", "blame"}
    /\ \E kind \in GraphErrorKind, blocked \in BOOLEAN :
        /\ poll' = GraphError(kind, blocked)
        /\ Goto(j, IF k.pc = "refused" THEN [k EXCEPT !.pc = "schedule"]
                   ELSE Onward(k, kind \in PageWide \/ LeadAccess(kind, blocked), cursors))
    /\ UNCHANGED <<clock, filled, deleted, page, forms, cursors, saved, turning, closed, spent>>

(* A statement throws: the run ends there, and the next one is a new run. *)
Throws(j) ==
    /\ job[j].pc \in {"save", "move", "bring", "schedule", "refused", "blame"}
    /\ Spend("failures", MaxFailures)
    /\ Goto(j, NoJob)
    /\ UNCHANGED <<clock, filled, deleted, page, poll, forms, cursors, saved, turning, closed>>

Crash ==
    /\ Spend("failures", MaxFailures)
    /\ job' = [j \in Job |-> NoJob]
    /\ cursors' = [f \in Form |-> None]
    /\ turning' = 0
    /\ UNCHANGED <<clock, filled, deleted, page, poll, forms, saved, closed>>

-----------------------------------------------------------------------------
Works(j) ==
    \/ SaveForms(j) \/ StartForm(j) \/ ReadForm(j) \/ MovePlace(j)
    \/ BringIn(j) \/ Schedule(j) \/ Blame(j)

Next ==
    \/ \E l \in Lead : Fill(l) \/ Drop(l) \/ Webhook(l)
    \/ Tick \/ DayPasses \/ PauseEnds \/ PollTime \/ PageProblem \/ ClearPageProblem
    \/ \E f \in Form : EnsureForm(f)
    \/ StartTurnOn \/ CommitTurnOn \/ RefuseTurnOn \/ TurnOff
    \/ \E j \in Job : StartPoll(j) \/ Works(j) \/ RefuseList(j) \/ RefuseForm(j) \/ Throws(j)
    \/ Crash

Spec == Init /\ [][Next]_vars

(* The timer takes a Page whenever it may (nobody need press "Check again"), *)
(* a running catch-up goes on, and time passes.  Nobody is sure to clear what *)
(* bars the Page.                                                             *)
Fairness ==
    /\ \A j \in Job \ Sweeping : WF_vars(StartPoll(j))
    /\ \A j \in Job : WF_vars(Works(j))
    /\ WF_vars(Tick) /\ WF_vars(DayPasses) /\ WF_vars(PauseEnds) /\ WF_vars(PollTime)

FairSpec == Spec /\ Fairness

-----------------------------------------------------------------------------
(* Properties                                                                *)

Moments == Int
More == {S \in SUBSET Lead : S # {}}
CursorType == [since : Moments, begun : Nat, left : More]
Steps == {"idle", "save", "next", "read", "move", "bring", "schedule", "refused", "blame"}
FormNumbers == [Form -> Nat]
JobType == [pc : Steps, at : Nat, floor : Nat, sweep : BOOLEAN, counts : FormNumbers,
            through : FormNumbers, due : SUBSET Form, todo : SUBSET Form, cur : Form \cup {None},
            since : Moments, begun : Nat, left : SUBSET Lead, found : SUBSET Lead,
            complete : BOOLEAN, capped : BOOLEAN]

TypeOK ==
    /\ clock \in Nat
    /\ filled \in [Lead -> Nat]
    /\ deleted \subseteq Lead /\ saved \subseteq Lead /\ closed \subseteq Lead
    /\ page \in [active : BOOLEAN, since : Nat, swept : BOOLEAN]
    /\ poll \in [barred : BOOLEAN, paused : BOOLEAN, due : BOOLEAN]
    /\ forms \in [Form -> [known : BOOLEAN, through : Nat, count : Nat]]
    /\ cursors \in [Form -> CursorType \cup {None}]
    /\ turning \in Nat
    /\ job \in [Job -> JobType]
    /\ spent \in [on : Nat, troubles : Nat, failures : Nat]

(* The Page should get this lead and has not. *)
Wanted(l) == page.active /\ filled[l] > 0 /\ filled[l] >= page.since /\ l \notin saved

(* A lead the Page should get and that has not been saved is still within    *)
(* reach: the next read of its form asks for it, or a running catch-up has   *)
(* it in hand.  This needs every statement of a catch-up to succeed.         *)
WithinReach(l) ==
    LET f == FormOf[l] IN
    \/ ~forms[f].known
    \/ filled[l] >= forms[f].through - Hour
    \/ \E j \in Job : l \in job[j].found

NothingOutOfReach == \A l \in Lead : Wanted(l) => WithinReach(l)

(* Nothing from before the Page was switched on, or from while it was off,   *)
(* is brought in.                                                            *)
NothingFromWhileOff == page.active => saved \cap closed = {}

(* A lead filled in on a Page that stays on is saved in the end, webhook or  *)
(* no webhook, for as long as it is within reach: unless the Page is barred  *)
(* (its login gone, Leads Access) again and again or for good.  Pauses, and  *)
(* catch-ups Meta refuses, only put it off.                                  *)
CaughtUp ==
    \A l \in Lead : <>[]~poll.barred => (Wanted(l) ~> (~Wanted(l) \/ ~WithinReach(l)))
=============================================================================
