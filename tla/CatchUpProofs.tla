--------------------------- MODULE CatchUpProofs ----------------------------
(* What is proved of CatchUp for every number of forms, leads and catch-ups: *)
(* its types, that a catch-up none of whose statements fails leaves no lead  *)
(* behind, and that nothing from while the Page was off is brought in.       *)
EXTENDS CatchUp, FiniteSetTheorems, TLAPS

-----------------------------------------------------------------------------
(* Types                                                                     *)

LEMMA ZeroOK == 0 \in Moments
BY DEF Moments

LEMMA NoJobOK == NoJob \in JobType
BY ZeroOK DEF NoJob, JobType, FormNumbers, Steps

LEMMA CountsOK == Counts \subseteq FormNumbers
<1>1. Cardinality(Lead) \in Nat
  BY CatchUpAssumption, FS_CardinalityType
<1> QED BY <1>1 DEF Counts, FormNumbers

LEMMA ListingsOK == ASSUME NEW f PROVE Listings(f) \subseteq SUBSET Lead
BY DEF Listings

LEMMA SinceOK ==
    ASSUME NEW through \in Nat, NEW floor \in Nat
    PROVE  Since(through, floor) \in Moments
BY CatchUpAssumption DEF Since, Larger, Moments

LEMMA SpendOK ==
    ASSUME NEW what \in {"on", "troubles", "failures"}, NEW limit, TypeOK, Spend(what, limit)
    PROVE  spent' \in [on : Nat, troubles : Nat, failures : Nat]
<1>1. spent \in [on : Nat, troubles : Nat, failures : Nat]
  BY DEF TypeOK
<1>2. spent' = [spent EXCEPT ![what] = @ + 1]
  BY DEF Spend
<1>3. CASE what = "on"
  <2>1. spent' = [spent EXCEPT !.on = @ + 1]
    BY <1>2, <1>3
  <2> QED BY <1>1, <2>1
<1>4. CASE what = "troubles"
  <2>1. spent' = [spent EXCEPT !.troubles = @ + 1]
    BY <1>2, <1>4
  <2> QED BY <1>1, <2>1
<1>5. CASE what = "failures"
  <2>1. spent' = [spent EXCEPT !.failures = @ + 1]
    BY <1>2, <1>5
  <2> QED BY <1>1, <2>1
<1> QED BY <1>3, <1>4, <1>5

LEMMA GotoOK ==
    ASSUME TypeOK, NEW j \in Job, NEW k \in JobType, Goto(j, k)
    PROVE  job' \in [Job -> JobType]
BY DEF TypeOK, Goto

LEMMA OnwardOK ==
    ASSUME NEW k \in JobType, NEW stop, NEW places
    PROVE  Onward(k, stop, places) \in JobType
<1> DEFINE todo == IF stop THEN {} ELSE k.todo \ {k.cur}
           rest == [k EXCEPT !.cur = None, !.since = 0, !.begun = 0, !.left = {}]
<1>1. rest \in JobType
  BY ZeroOK DEF JobType
<1>2. todo \in SUBSET Form
  BY DEF JobType
<1>3. NoJob.counts \in FormNumbers /\ NoJob.through \in FormNumbers
  BY DEF NoJob, FormNumbers
<1> HIDE DEF rest, todo
<1>4. [rest EXCEPT !.pc = "next", !.todo = todo] \in JobType
  BY <1>1, <1>2 DEF JobType, Steps
<1>5. ASSUME NEW b \in BOOLEAN
      PROVE  [rest EXCEPT !.pc = "bring", !.todo = {}, !.due = {}, !.counts = NoJob.counts,
                          !.through = NoJob.through, !.capped = b] \in JobType
  BY <1>1, <1>3 DEF JobType, Steps
<1>6. (\E f \in k.due : places[f] # None) \in BOOLEAN
  OBVIOUS
<1>7. CASE todo # {}
  BY <1>4, <1>7 DEF Onward, todo, rest
<1>8. CASE todo = {}
  <2>1. Onward(k, stop, places) =
          [rest EXCEPT !.pc = "bring", !.todo = {}, !.due = {}, !.counts = NoJob.counts,
                       !.through = NoJob.through, !.capped = \E f \in k.due : places[f] # None]
    BY <1>8 DEF Onward, todo, rest
  <2> QED BY <1>5, <1>6, <2>1
<1> QED BY <1>7, <1>8

LEMMA TypeInit == Init => TypeOK
<1> SUFFICES ASSUME Init PROVE TypeOK
  OBVIOUS
<1>1. job \in [Job -> JobType]
  BY NoJobOK DEF Init
<1> QED BY <1>1 DEF Init, TypeOK, Cleared

LEMMA TakenFields ==
    ASSUME TypeOK, NEW j \in Job
    PROVE  LET t == Taken(j) IN
           /\ t \in JobType /\ t.at = clock /\ t.floor = page.since /\ t.begun = 0 /\ t.cur = None
           /\ t.todo = {} /\ t.left = {} /\ t.found = {} /\ \A f \in Form : t.through[f] = 0
<1> DEFINE t == Taken(j)
<1>1. clock \in Nat /\ page.since \in Nat /\ page.swept \in BOOLEAN
  BY DEF TypeOK
<1>2. t \in JobType
  BY <1>1, NoJobOK DEF Taken, JobType
<1> QED BY <1>2 DEF Taken, NoJob

(* How a refused catch-up goes on. *)
LEMMA BlameGoesOn ==
    ASSUME NEW j \in Job, Blame(j)
    PROVE  \E stop \in BOOLEAN :
             job' = [job EXCEPT ![j] = IF job[j].pc = "refused" THEN [job[j] EXCEPT !.pc = "schedule"]
                                       ELSE Onward(job[j], stop, cursors)]
<1>1. PICK kind \in GraphErrorKind, blocked \in BOOLEAN :
        Goto(j, IF job[j].pc = "refused" THEN [job[j] EXCEPT !.pc = "schedule"]
                ELSE Onward(job[j], kind \in PageWide \/ LeadAccess(kind, blocked), cursors))
  BY DEF Blame
<1>2. (kind \in PageWide \/ LeadAccess(kind, blocked)) \in BOOLEAN
  OBVIOUS
<1> QED BY <1>1, <1>2 DEF Goto

LEMMA GraphErrorOK ==
    ASSUME TypeOK, NEW kind, NEW blocked
    PROVE  GraphError(kind, blocked) \in [barred : BOOLEAN, paused : BOOLEAN, due : BOOLEAN]
BY DEF TypeOK, GraphError

(* What the jobs do to their own record. *)
LEMMA WorksTypes ==
    ASSUME TypeOK, NEW j \in Job, StartPoll(j) \/ Works(j) \/ RefuseList(j) \/ RefuseForm(j) \/ Throws(j)
    PROVE  job' \in [Job -> JobType]
<1> DEFINE k == job[j]
<1>k. k \in JobType
  BY DEF TypeOK
<1> HIDE DEF k
<1>1. CASE StartPoll(j)
  <2>1. PICK counts \in Counts : Goto(j, [Taken(j) EXCEPT !.pc = "save", !.counts = counts])
    BY <1>1 DEF StartPoll
  <2>2. counts \in FormNumbers
    BY CountsOK
  <2>3. [Taken(j) EXCEPT !.pc = "save", !.counts = counts] \in JobType
    BY <2>2, TakenFields DEF JobType, Steps
  <2> QED BY <2>1, <2>3, GotoOK
<1>2. CASE SaveForms(j)
  <2> DEFINE stored == [f \in Form |-> IF forms[f].known THEN forms[f]
                                      ELSE [known |-> TRUE, through |-> k.floor, count |-> 0]]
             due == DueForms(k, stored)
             through == [f \in Form |-> stored[f].through]
  <2>1. stored \in [Form -> [known : BOOLEAN, through : Nat, count : Nat]]
    BY <1>k DEF TypeOK, JobType
  <2>2. due \in SUBSET Form
    BY DEF DueForms
  <2>3. through \in FormNumbers
    BY <2>1 DEF FormNumbers
  <2>4. NoJob.counts \in FormNumbers
    BY DEF NoJob, FormNumbers
  <2>5. Goto(j, IF due = {} THEN [k EXCEPT !.pc = "bring", !.counts = NoJob.counts]
                ELSE [k EXCEPT !.pc = "next", !.due = due, !.todo = due, !.through = through])
    BY <1>2 DEF SaveForms, k
  <2> HIDE DEF due, through
  <2>6. [k EXCEPT !.pc = "bring", !.counts = NoJob.counts] \in JobType
    BY <1>k, <2>4 DEF JobType, Steps
  <2>7. [k EXCEPT !.pc = "next", !.due = due, !.todo = due, !.through = through] \in JobType
    BY <1>k, <2>2, <2>3 DEF JobType, Steps
  <2> QED BY <2>5, <2>6, <2>7, GotoOK
<1>3. CASE StartForm(j)
  <2>1. PICK f \in k.todo :
          IF cursors[f] # None
          THEN Goto(j, [k EXCEPT !.pc = "read", !.cur = f, !.since = cursors[f].since,
                                 !.begun = cursors[f].begun, !.left = cursors[f].left])
          ELSE \E S \in Listings(f) :
                 Goto(j, [k EXCEPT !.pc = "read", !.cur = f, !.since = Since(k.through[f], k.floor),
                                   !.begun = k.at,
                                   !.left = {l \in S : filled[l] > Since(k.through[f], k.floor)}])
    BY <1>3 DEF StartForm, k
  <2>2. f \in Form /\ k.at \in Nat /\ k.floor \in Nat /\ k.through[f] \in Nat
    BY <1>k DEF JobType, FormNumbers
  <2>3. ASSUME NEW since \in Moments, NEW begun \in Nat, NEW left \in SUBSET Lead
        PROVE  [k EXCEPT !.pc = "read", !.cur = f, !.since = since, !.begun = begun,
                         !.left = left] \in JobType
    BY <1>k, <2>2 DEF JobType, Steps
  <2>4. CASE cursors[f] # None
    <3>1. cursors[f] \in CursorType
      BY <2>2, <2>4 DEF TypeOK
    <3>2. /\ cursors[f].since \in Moments /\ cursors[f].begun \in Nat
          /\ cursors[f].left \in SUBSET Lead
      BY <3>1 DEF CursorType, More
    <3> QED BY <2>1, <2>3, <2>4, <3>2, GotoOK
  <2>5. CASE cursors[f] = None
    <3>1. PICK S \in Listings(f) :
            Goto(j, [k EXCEPT !.pc = "read", !.cur = f, !.since = Since(k.through[f], k.floor),
                              !.begun = k.at,
                              !.left = {l \in S : filled[l] > Since(k.through[f], k.floor)}])
      BY <2>1, <2>5
    <3>2. {l \in S : filled[l] > Since(k.through[f], k.floor)} \in SUBSET Lead
      BY ListingsOK
    <3>3. Since(k.through[f], k.floor) \in Moments
      BY <2>2, SinceOK
    <3> QED BY <2>2, <2>3, <3>1, <3>2, <3>3, GotoOK
  <2> QED BY <2>4, <2>5
<1>4. CASE ReadForm(j)
  <2>1. PICK S \in SUBSET k.left :
          LET rest == k.left \ S
              got == [k EXCEPT !.left = {}, !.found = @ \cup NotBefore(S \ deleted, k.floor)]
          IN Goto(j, IF rest = {} THEN [got EXCEPT !.pc = "move"]
                     ELSE Onward(got, FALSE, cursors'))
    BY <1>4 DEF ReadForm, k
  <2> DEFINE got == [k EXCEPT !.left = {}, !.found = @ \cup NotBefore(S \ deleted, k.floor)]
  <2>2. NotBefore(S \ deleted, k.floor) \subseteq Lead
    BY <1>k DEF NotBefore, JobType
  <2>3. got \in JobType
    BY <1>k, <2>2 DEF JobType
  <2> HIDE DEF got
  <2>4. [got EXCEPT !.pc = "move"] \in JobType
    BY <2>3 DEF JobType, Steps
  <2>5. Onward(got, FALSE, cursors') \in JobType
    BY <2>3, OnwardOK
  <2> QED BY <2>1, <2>4, <2>5, GotoOK DEF got
<1>5. CASE MovePlace(j)
  BY <1>5, <1>k, OnwardOK, GotoOK DEF MovePlace, k
<1>6. CASE BringIn(j)
  <2>1. [k EXCEPT !.pc = "schedule", !.found = {}] \in JobType
    BY <1>k DEF JobType, Steps
  <2> QED BY <1>6, <2>1, GotoOK DEF BringIn, k
<1>7. CASE Schedule(j) \/ Throws(j)
  BY <1>7, NoJobOK, GotoOK DEF Schedule, Throws
<1>8. CASE RefuseForm(j)
  <2>1. [k EXCEPT !.pc = "blame", !.complete = FALSE] \in JobType
    BY <1>k DEF JobType, Steps
  <2> QED BY <1>8, <2>1, GotoOK DEF RefuseForm, k
<1>9. CASE RefuseList(j)
  <2>1. [Taken(j) EXCEPT !.pc = "refused", !.complete = FALSE] \in JobType
    BY TakenFields DEF JobType, Steps
  <2> QED BY <1>9, <2>1, GotoOK DEF RefuseList
<1>10. CASE Blame(j)
  <2>1. PICK stop \in BOOLEAN :
          Goto(j, IF k.pc = "refused" THEN [k EXCEPT !.pc = "schedule"] ELSE Onward(k, stop, cursors))
    BY <1>10, BlameGoesOn DEF Goto, k
  <2>2. [k EXCEPT !.pc = "schedule"] \in JobType
    BY <1>k DEF JobType, Steps
  <2>3. Onward(k, stop, cursors) \in JobType
    BY <1>k, OnwardOK
  <2> QED BY <2>1, <2>2, <2>3, GotoOK
<1> QED BY <1>1, <1>2, <1>3, <1>4, <1>5, <1>6, <1>7, <1>8, <1>9, <1>10 DEF Works

(* A clause of JobType may be used of any job. *)
LEMMA JobsOK ==
    ASSUME TypeOK, NEW j \in Job
    PROVE  /\ job[j] \in JobType
           /\ job[j].at \in Nat /\ job[j].floor \in Nat /\ job[j].begun \in Nat
           /\ job[j].todo \subseteq Form /\ job[j].left \subseteq Lead /\ job[j].found \subseteq Lead
           /\ \A f \in Form : job[j].through[f] \in Nat /\ job[j].counts[f] \in Nat
           /\ job[j].cur \in Form \cup {None} /\ job[j].since \in Moments
BY DEF TypeOK, JobType, FormNumbers

LEMMA CursorsType ==
    ASSUME TypeOK, NEW j \in Job, StartPoll(j) \/ Works(j) \/ RefuseList(j) \/ RefuseForm(j) \/ Throws(j)
    PROVE  cursors' \in [Form -> CursorType \cup {None}]
<1>1. cursors \in [Form -> CursorType \cup {None}]
  BY DEF TypeOK
<1>2. CASE ReadForm(j)
  <2>1. PICK S \in SUBSET job[j].left :
          cursors' = [cursors EXCEPT ![job[j].cur] = Kept(job[j], job[j].left \ S)]
    BY <1>2 DEF ReadForm
  <2>2. Kept(job[j], job[j].left \ S) \in CursorType \cup {None}
    <3> DEFINE rest == job[j].left \ S
    <3>1. job[j].since \in Moments /\ job[j].begun \in Nat /\ rest \subseteq Lead
      BY JobsOK
    <3> HIDE DEF rest
    <3>2. rest # {} => rest \in More
      BY <3>1 DEF More
    <3>3. rest # {} => [since |-> job[j].since, begun |-> job[j].begun, left |-> rest] \in CursorType
      BY <3>1, <3>2 DEF CursorType
    <3>4. Kept(job[j], rest) \in CursorType \cup {None}
      BY <3>3 DEF Kept
    <3> QED BY <3>4 DEF rest
  <2> QED BY <1>1, <2>1, <2>2
<1>3. CASE RefuseForm(j)
  BY <1>1, <1>3 DEF RefuseForm
<1> QED BY <1>1, <1>2, <1>3 DEF Works, StartPoll, SaveForms, StartForm, MovePlace, BringIn,
                               Schedule, Blame, RefuseList, Throws

LEMMA FormsType ==
    ASSUME TypeOK, NEW j \in Job, StartPoll(j) \/ Works(j) \/ RefuseList(j) \/ RefuseForm(j) \/ Throws(j)
    PROVE  forms' \in [Form -> [known : BOOLEAN, through : Nat, count : Nat]]
<1> DEFINE FT == [known : BOOLEAN, through : Nat, count : Nat]
<1>1. forms \in [Form -> FT]
  BY DEF TypeOK
<1>2. CASE SaveForms(j)
  BY <1>1, <1>2, JobsOK DEF SaveForms
<1>3. CASE MovePlace(j)
  <2>1. /\ forms' = [forms EXCEPT ![job[j].cur].through = PlaceReached(job[j]),
                                  ![job[j].cur].count = job[j].counts[job[j].cur]]
    BY <1>3 DEF MovePlace
  <2>2. CASE job[j].cur \in Form
    BY <1>1, <2>1, <2>2, JobsOK DEF PlaceReached
  <2>3. CASE job[j].cur = None
    BY <1>1, <2>1, <2>3, CatchUpAssumption
  <2> QED BY <2>2, <2>3, JobsOK
<1> QED BY <1>1, <1>2, <1>3 DEF Works, StartPoll, StartForm, ReadForm, BringIn, Schedule,
                               Blame, RefuseList, RefuseForm, Throws

LEMMA TypeStep == TypeOK /\ [Next]_vars => TypeOK'
<1> SUFFICES ASSUME TypeOK, [Next]_vars PROVE TypeOK'
  OBVIOUS
<1>1. ASSUME NEW l \in Lead, Fill(l) \/ Drop(l) \/ Webhook(l)
      PROVE  TypeOK'
  <2>1. CASE Fill(l)
    BY <2>1 DEF TypeOK, Fill
  <2>2. CASE Drop(l)
    <3>1. spent' \in [on : Nat, troubles : Nat, failures : Nat]
      BY <2>2, SpendOK DEF Drop
    <3> QED BY <2>2, <3>1 DEF TypeOK, Drop
  <2>3. CASE Webhook(l)
    BY <2>3 DEF TypeOK, Webhook
  <2> QED BY <1>1, <2>1, <2>2, <2>3
<1>2. CASE \/ Tick \/ DayPasses \/ StartTurnOn \/ RefuseTurnOn \/ TurnOff
          \/ PauseEnds \/ PollTime \/ PageProblem \/ ClearPageProblem
  <2>1. CASE Tick
    BY <2>1 DEF TypeOK, Tick
  <2>2. CASE DayPasses
    BY <2>2 DEF TypeOK, DayPasses
  <2>3. CASE StartTurnOn
    BY <2>3 DEF TypeOK, StartTurnOn
  <2>4. CASE RefuseTurnOn
    BY <2>4 DEF TypeOK, RefuseTurnOn
  <2>5. CASE TurnOff
    BY <2>5 DEF TypeOK, TurnOff, Cleared
  <2>6. CASE PauseEnds
    BY <2>6 DEF TypeOK, PauseEnds
  <2>7. CASE PollTime
    BY <2>7 DEF TypeOK, PollTime
  <2>8. CASE PageProblem
    <3>1. spent' \in [on : Nat, troubles : Nat, failures : Nat]
      BY <2>8, SpendOK DEF PageProblem
    <3>2. poll' \in [barred : BOOLEAN, paused : BOOLEAN, due : BOOLEAN]
      BY <2>8, GraphErrorOK DEF PageProblem
    <3> QED BY <2>8, <3>1, <3>2 DEF TypeOK, PageProblem
  <2>9. CASE ClearPageProblem
    BY <2>9 DEF TypeOK, ClearPageProblem
  <2> QED BY <1>2, <2>1, <2>2, <2>3, <2>4, <2>5, <2>6, <2>7, <2>8, <2>9
<1>3. ASSUME NEW f \in Form, EnsureForm(f)
      PROVE  TypeOK'
  BY <1>3 DEF TypeOK, EnsureForm
<1>4. CASE CommitTurnOn
  <2>1. PICK listed \in BOOLEAN, counts \in Counts : forms' = ResetPlaces(listed, counts)
    BY <1>4 DEF CommitTurnOn
  <2>2. counts \in [Form -> Nat]
    BY CountsOK DEF FormNumbers
  <2>3. forms' \in [Form -> [known : BOOLEAN, through : Nat, count : Nat]]
    BY <2>1, <2>2 DEF ResetPlaces, TypeOK
  <2>4. spent' \in [on : Nat, troubles : Nat, failures : Nat]
    BY <1>4, SpendOK DEF CommitTurnOn
  <2> QED BY <1>4, <2>3, <2>4 DEF CommitTurnOn, SwitchedOn, TypeOK
<1>5. ASSUME NEW j \in Job, StartPoll(j) \/ Works(j) \/ RefuseList(j) \/ RefuseForm(j) \/ Throws(j)
      PROVE  TypeOK'
  <2>1. job' \in [Job -> JobType]
    BY <1>5, WorksTypes
  <2>2. cursors' \in [Form -> CursorType \cup {None}]
    BY <1>5, CursorsType
  <2>3. forms' \in [Form -> [known : BOOLEAN, through : Nat, count : Nat]]
    BY <1>5, FormsType
  <2>4. spent' \in [on : Nat, troubles : Nat, failures : Nat]
    <3>1. CASE RefuseList(j) \/ RefuseForm(j) \/ Throws(j)
      BY <3>1, SpendOK DEF RefuseList, RefuseForm, Throws
    <3> QED BY <1>5, <3>1 DEF TypeOK, Works, StartPoll, SaveForms, StartForm, ReadForm, MovePlace,
                             BringIn, Schedule, Blame
  <2>5. saved' \subseteq Lead
    BY <1>5, JobsOK DEF TypeOK, Works, StartPoll, SaveForms, StartForm, ReadForm, MovePlace,
                             BringIn, Schedule, Blame, RefuseList, RefuseForm, Throws
  <2>6. page' \in [active : BOOLEAN, since : Nat, swept : BOOLEAN]
    BY <1>5 DEF TypeOK, Works, StartPoll, SaveForms, StartForm, ReadForm, MovePlace,
                             BringIn, Schedule, Blame, RefuseList, RefuseForm, Throws
  <2>8. poll' \in [barred : BOOLEAN, paused : BOOLEAN, due : BOOLEAN]
    <3>1. CASE Blame(j)
      BY <3>1, GraphErrorOK DEF Blame
    <3>2. CASE Schedule(j)
      <4>1. job[j].capped \in BOOLEAN
        BY DEF TypeOK, JobType
      <4> QED BY <3>2, <4>1 DEF Schedule, TypeOK
    <3> QED BY <1>5, <3>1, <3>2 DEF TypeOK, Works, StartPoll, SaveForms, StartForm, ReadForm,
                             MovePlace, BringIn, RefuseList, RefuseForm, Throws
  <2>7. UNCHANGED <<clock, filled, deleted, closed, turning>>
    BY <1>5 DEF Works, StartPoll, SaveForms, StartForm, ReadForm, MovePlace,
                             BringIn, Schedule, Blame, RefuseList, RefuseForm, Throws
  <2> QED BY <2>1, <2>2, <2>3, <2>4, <2>5, <2>6, <2>7, <2>8 DEF TypeOK
<1>6. CASE Crash
  <2>1. spent' \in [on : Nat, troubles : Nat, failures : Nat]
    BY <1>6, SpendOK DEF Crash
  <2> QED BY <1>6, <2>1, NoJobOK DEF Crash, TypeOK
<1>7. CASE UNCHANGED vars
  BY <1>7 DEF TypeOK, vars
<1> QED BY <1>1, <1>2, <1>3, <1>4, <1>5, <1>6, <1>7 DEF Next

(* The types of the catch-up's state, however many forms and catch-ups.      *)
THEOREM CatchUpTypes == Spec => []TypeOK
BY TypeInit, TypeStep, PTL DEF Spec

-----------------------------------------------------------------------------
(* Nothing out of reach                                                      *)
(*                                                                           *)
(* NothingOutOfReach speaks of the stored places only.  It is kept because   *)
(* every other place a catch-up holds, and would store later, leaves the     *)
(* lead within reach too: the moment a read began, in memory or in a kept    *)
(* cursor, unless the lead is among those still to be read; the place a form *)
(* that is still to be read was found at.  And no place lies in the future.  *)

(* The latest moment any place may be: nothing is read while the Page is     *)
(* being switched on.                                                        *)
Latest == IF turning > 0 THEN turning ELSE clock

Covered(l, place) == filled[l] >= place - Hour \/ \E j \in Job : l \in job[j].found

JobTimes(k) ==
    /\ k.at <= Latest /\ k.begun <= Latest /\ k.floor <= page.since
    /\ \A f \in Form : k.through[f] <= Latest

Times ==
    /\ turning <= clock
    /\ turning > 0 => ~page.active
    /\ page.since <= Latest
    /\ \A l \in Lead : filled[l] <= clock
    /\ \A f \in Form : forms[f].through <= Latest
    /\ \A f \in Form : cursors[f] # None => cursors[f].begun <= Latest
    /\ \A j \in Job : JobTimes(job[j])

JobStages(k) ==
    /\ k.pc \in {"idle", "schedule", "refused"} => k.found = {}
    /\ k.pc = "move" => k.left = {}

Stages == deleted \subseteq saved /\ \A j \in Job : JobStages(job[j])

JobReach(k, l) ==
    /\ k.cur = FormOf[l] => Covered(l, k.begun) \/ l \in k.left
    /\ FormOf[l] \in k.todo => Covered(l, k.through[FormOf[l]])

Reach(l) ==
    LET f == FormOf[l] IN
    /\ forms[f].known => Covered(l, forms[f].through)
    /\ cursors[f] # None => Covered(l, cursors[f].begun) \/ l \in cursors[f].left
    /\ \A j \in Job : JobReach(job[j], l)

IInv == TypeOK /\ Times /\ Stages /\ \A l \in Lead : Wanted(l) => Reach(l)

LEMMA LatestOK == ASSUME TypeOK PROVE Latest \in Nat
BY DEF TypeOK, Latest

LEMMA ReachSuffices == IInv => NothingOutOfReach
BY CatchUpAssumption DEF IInv, NothingOutOfReach, Reach, WithinReach, Covered

LEMMA NoJobFits ==
    ASSUME TypeOK
    PROVE  JobTimes(NoJob) /\ JobStages(NoJob) /\ \A l \in Lead : JobReach(NoJob, l)
<1>1. Latest \in Nat /\ page.since \in Nat
  BY LatestOK DEF TypeOK
<1>2. \A l \in Lead : FormOf[l] # None
  BY CatchUpAssumption
<1> QED BY <1>1, <1>2 DEF NoJob, JobTimes, JobStages, JobReach

LEMMA ReachInit == Init => IInv
<1> SUFFICES ASSUME Init PROVE IInv
  OBVIOUS
<1>1. TypeOK
  BY TypeInit
<1>2. Times
  BY <1>1, NoJobFits DEF Init, Times, Latest
<1>3. Stages
  BY <1>1, NoJobFits DEF Init, Stages
<1>4. \A l \in Lead : ~Wanted(l)
  BY DEF Init, Wanted
<1> QED BY <1>1, <1>2, <1>3, <1>4 DEF IInv

(* What Onward leaves of a catch-up's record. *)
LEMMA OnwardFields ==
    ASSUME NEW k \in JobType, NEW stop, NEW places
    PROVE  LET o == Onward(k, stop, places) IN
           /\ o.pc \in {"next", "bring"} /\ o.at = k.at /\ o.floor = k.floor
           /\ o.begun = 0 /\ o.cur = None /\ o.left = {} /\ o.found = k.found
           /\ o.todo \subseteq k.todo
           /\ o.todo # {} => o.through = k.through
           /\ \A f \in Form : o.through[f] \in {0, k.through[f]}
<1> DEFINE todo == IF stop THEN {} ELSE k.todo \ {k.cur}
           rest == [k EXCEPT !.cur = None, !.since = 0, !.begun = 0, !.left = {}]
           last == [rest EXCEPT !.pc = "bring", !.todo = {}, !.due = {}, !.counts = NoJob.counts,
                       !.through = NoJob.through, !.capped = \E f \in k.due : places[f] # None]
           more == [rest EXCEPT !.pc = "next", !.todo = todo]
<1>1. Onward(k, stop, places) = IF todo # {} THEN more ELSE last
  BY DEF Onward
<1>2. /\ more.pc = "next" /\ more.at = k.at /\ more.floor = k.floor /\ more.begun = 0
      /\ more.cur = None /\ more.left = {} /\ more.found = k.found /\ more.todo = todo
      /\ more.through = k.through
  BY DEF JobType
<1>3. /\ last.pc = "bring" /\ last.at = k.at /\ last.floor = k.floor /\ last.begun = 0
      /\ last.cur = None /\ last.left = {} /\ last.found = k.found /\ last.todo = {}
      /\ last.through = NoJob.through
  BY DEF JobType
<1>4. \A f \in Form : NoJob.through[f] = 0
  BY DEF NoJob
<1>5. todo \subseteq k.todo
  OBVIOUS
<1> HIDE DEF todo, rest, last, more
<1> QED BY <1>1, <1>2, <1>3, <1>4, <1>5

(* A catch-up that keeps what it has found, or saves it, keeps every lead    *)
(* covered that was.                                                         *)
LEMMA KeepsCover ==
    ASSUME TypeOK, NEW j \in Job, NEW n, job' = [job EXCEPT ![j] = n], filled' = filled,
           job[j].found \subseteq n.found \cup saved',
           NEW l \in Lead, l \notin saved', NEW place, Covered(l, place) \/ l \in n.found
    PROVE  Covered(l, place)'
<1>1. job'[j] = n /\ \A i \in Job : i # j => job'[i] = job[i]
  BY DEF TypeOK
<1>2. CASE l \in n.found
  BY <1>1, <1>2 DEF Covered
<1>3. CASE filled[l] >= place - Hour
  BY <1>3 DEF Covered
<1>4. CASE \E i \in Job : l \in job[i].found
  BY <1>1, <1>4 DEF Covered
<1> QED BY <1>2, <1>3, <1>4 DEF Covered

(* A step of one catch-up keeps the invariant if its new record and what it  *)
(* stores fit.                                                               *)
LEMMA JobTurn ==
    ASSUME IInv, NEW j \in Job, NEW n, job' = [job EXCEPT ![j] = n],
           UNCHANGED <<clock, filled, deleted, turning>>,
           page'.active = page.active, page'.since = page.since,
           saved \subseteq saved', job[j].found \subseteq n.found \cup saved',
           JobTimes(n), JobStages(n),
           \A f \in Form : forms'[f].through <= Latest,
           \A f \in Form : cursors'[f] # None => cursors'[f].begun <= Latest,
           \A l \in Lead : Wanted(l) /\ l \notin saved' =>
             LET f == FormOf[l] IN
             /\ forms'[f].known => Covered(l, forms'[f].through) \/ l \in n.found
             /\ cursors'[f] # None =>
                  Covered(l, cursors'[f].begun) \/ l \in n.found \/ l \in cursors'[f].left
             /\ n.cur = f => Covered(l, n.begun) \/ l \in n.found \/ l \in n.left
             /\ f \in n.todo => Covered(l, n.through[f]) \/ l \in n.found
    PROVE  Times' /\ Stages' /\ \A l \in Lead : Wanted(l)' => Reach(l)'
<1>1. job'[j] = n /\ \A i \in Job : i # j => job'[i] = job[i]
  BY DEF TypeOK, IInv
<1>2. Latest' = Latest
  BY DEF Latest
<1>3. Times'
  <2>1. \A i \in Job : JobTimes(job[i])
    BY DEF IInv, Times
  <2>2. \A i \in Job : JobTimes(job[i])'
    BY <1>1, <1>2, <2>1 DEF JobTimes
  <2> QED BY <1>2, <2>2 DEF IInv, Times
<1>4. Stages'
  <2>1. \A i \in Job : JobStages(job[i])'
    BY <1>1 DEF IInv, Stages, JobStages
  <2> QED BY <2>1 DEF IInv, Stages
<1>5. ASSUME NEW l \in Lead, Wanted(l)'
      PROVE  Reach(l)'
  <2> DEFINE f == FormOf[l]
  <2>1. Wanted(l) /\ l \notin saved'
    BY <1>5 DEF Wanted
  <2>2. ASSUME NEW place, Covered(l, place) \/ l \in n.found
        PROVE  Covered(l, place)'
    BY <2>1, <2>2, KeepsCover DEF IInv
  <2>3. Reach(l)
    BY <2>1 DEF IInv
  <2>4. forms'[f].known => Covered(l, forms[f].through)'
    BY <2>1, <2>2
  <2>5. cursors'[f] # None => Covered(l, cursors[f].begun)' \/ l \in cursors'[f].left
    BY <2>1, <2>2 DEF Covered
  <2>6. ASSUME NEW i \in Job
        PROVE  JobReach(job[i], l)'
    <3>1. CASE i = j
      BY <1>1, <2>1, <2>2, <3>1 DEF JobReach, Covered
    <3>2. CASE i # j
      BY <1>1, <2>2, <2>3, <3>2 DEF Reach, JobReach, Covered
    <3> QED BY <3>1, <3>2
  <2> QED BY <2>4, <2>5, <2>6 DEF Reach
<1> QED BY <1>3, <1>4, <1>5

(* What IInv says of one catch-up. *)
LEMMA JobFacts ==
    ASSUME IInv, NEW j \in Job
    PROVE  /\ TypeOK /\ Latest \in Nat /\ JobTimes(job[j]) /\ JobStages(job[j])
           /\ \A f \in Form : forms[f].through <= Latest
           /\ \A f \in Form : cursors[f] # None => cursors[f].begun <= Latest
           /\ \A l \in Lead : Wanted(l) => Reach(l) /\ JobReach(job[j], l) /\ FormOf[l] \in Form
BY LatestOK, CatchUpAssumption DEF IInv, Times, Stages, Reach

(* A catch-up that starts holds nothing, whether Meta lists the forms or not. *)
LEMMA TakenKeeps ==
    ASSUME IInv, NEW j \in Job, StartPoll(j) \/ RefuseList(j)
    PROVE  Times' /\ Stages' /\ \A l \in Lead : Wanted(l)' => Reach(l)'
<1> DEFINE t == Taken(j)
           Fresh(n) ==
             /\ n.pc \in {"save", "refused"} /\ n.at = clock /\ n.floor = page.since
             /\ n.begun = 0 /\ n.cur = None /\ n.todo = {} /\ n.left = {} /\ n.found = {}
             /\ \A f \in Form : n.through[f] = 0
<1>1. /\ t \in JobType /\ t.at = clock /\ t.floor = page.since /\ t.begun = 0 /\ t.cur = None
      /\ t.todo = {} /\ t.left = {} /\ t.found = {} /\ \A f \in Form : t.through[f] = 0
  BY TakenFields DEF IInv
<1>2. PICK n : job' = [job EXCEPT ![j] = n] /\ Fresh(n)
  <2>1. CASE StartPoll(j)
    <3>1. PICK counts \in Counts : job' = [job EXCEPT ![j] = [t EXCEPT !.pc = "save", !.counts = counts]]
      BY <2>1 DEF StartPoll, Goto
    <3> HIDE DEF t
    <3>2. Fresh([t EXCEPT !.pc = "save", !.counts = counts])
      BY <1>1 DEF JobType
    <3> QED BY <3>1, <3>2
  <2>2. CASE RefuseList(j)
    <3>1. job' = [job EXCEPT ![j] = [t EXCEPT !.pc = "refused", !.complete = FALSE]]
      BY <2>2 DEF RefuseList, Goto
    <3> HIDE DEF t
    <3>2. Fresh([t EXCEPT !.pc = "refused", !.complete = FALSE])
      BY <1>1 DEF JobType
    <3> QED BY <3>1, <3>2
  <2> QED BY <2>1, <2>2
<1>3. job[j].pc = "idle" /\ page.active
  BY DEF StartPoll, RefuseList, MayPoll
<1>4. clock <= Latest
  BY <1>3 DEF IInv, Times, TypeOK, Latest
<1>5. JobTimes(n) /\ JobStages(n)
  BY <1>2, <1>4, JobFacts DEF JobTimes, JobStages, TypeOK
<1>6. job[j].found = {}
  BY <1>3, JobFacts DEF JobStages
<1>7. \A l \in Lead : FormOf[l] # None
  BY CatchUpAssumption
<1> QED BY <1>2, <1>5, <1>6, <1>7, JobFacts, JobTurn DEF StartPoll, RefuseList, Reach

LEMMA SaveFormsKeeps ==
    ASSUME IInv, NEW j \in Job, SaveForms(j)
    PROVE  Times' /\ Stages' /\ \A l \in Lead : Wanted(l)' => Reach(l)'
<1> DEFINE k == job[j]
           stored == [f \in Form |-> IF forms[f].known THEN forms[f]
                                     ELSE [known |-> TRUE, through |-> k.floor, count |-> 0]]
           due == DueForms(k, stored)
           through == [f \in Form |-> stored[f].through]
           n == IF due = {} THEN [k EXCEPT !.pc = "bring", !.counts = NoJob.counts]
                ELSE [k EXCEPT !.pc = "next", !.due = due, !.todo = due, !.through = through]
<1>k. k \in JobType /\ JobTimes(k) /\ JobStages(k)
  BY JobFacts, JobsOK
<1>1. job' = [job EXCEPT ![j] = n]
  BY DEF SaveForms, Goto
<1>2. \A f \in Form : through[f] <= Latest /\ through[f] = IF forms[f].known THEN forms[f].through
                                                          ELSE k.floor
  <2>1. k.floor <= Latest
    BY <1>k, JobFacts DEF JobTimes, IInv, Times, TypeOK, JobType
  <2> QED BY <2>1, JobFacts
<1>3. forms' = stored
  BY DEF SaveForms
<1>4. \A f \in Form : stored[f].through = through[f]
  OBVIOUS
<1>5. due \subseteq Form
  BY DEF DueForms
<1> HIDE DEF stored, due, through
<1>6. /\ n.pc \in {"bring", "next"} /\ n.at = k.at /\ n.floor = k.floor /\ n.begun = k.begun
      /\ n.cur = k.cur /\ n.left = k.left /\ n.found = k.found
      /\ (n.todo = k.todo /\ n.through = k.through) \/ n.through = through
  BY <1>k DEF JobType
<1> HIDE DEF n
<1>7. JobTimes(n) /\ JobStages(n)
  BY <1>2, <1>6, <1>k DEF JobTimes, JobStages
<1>8. ASSUME NEW l \in Lead, Wanted(l)
      PROVE  Covered(l, through[FormOf[l]])
  <2> DEFINE f == FormOf[l]
  <2>1. CASE forms[f].known
    BY <1>2, <1>8, <2>1, JobFacts DEF Reach
  <2>2. CASE ~forms[f].known
    <3>1. through[f] = k.floor
      BY <1>2, <1>8, <2>2, JobFacts
    <3>2. filled[l] >= k.floor - Hour
      BY <1>8, <1>k, CatchUpAssumption, JobFacts DEF JobTimes, Wanted, TypeOK, JobType
    <3> QED BY <3>1, <3>2 DEF Covered
  <2> QED BY <2>1, <2>2
<1>9. \A f \in Form : forms'[f].through = through[f]
  BY <1>3, <1>4
<1> HIDE DEF k
<1>10. ASSUME NEW l \in Lead, Wanted(l)
       PROVE  LET f == FormOf[l] IN
              /\ forms'[f].known => Covered(l, forms'[f].through) \/ l \in n.found
              /\ cursors[f] # None =>
                   Covered(l, cursors[f].begun) \/ l \in n.found \/ l \in cursors[f].left
              /\ n.cur = f => Covered(l, n.begun) \/ l \in n.found \/ l \in n.left
              /\ f \in n.todo => Covered(l, n.through[f]) \/ l \in n.found
  <2>1. JobReach(k, l) /\ Reach(l) /\ FormOf[l] \in Form
    BY <1>10, JobFacts DEF k
  <2> QED BY <1>6, <1>8, <1>9, <1>10, <2>1 DEF Reach, JobReach
<1>11. k.found \subseteq n.found
  BY <1>6
<1> QED BY <1>1, <1>2, <1>7, <1>9, <1>10, <1>11, JobFacts, JobTurn DEF SaveForms, k

(* A lead that may be asked for and is not listed yet is younger than an hour. *)
LEMMA ListedOrYoung ==
    ASSUME TypeOK, NEW l \in Lead, filled[l] > 0, l \notin deleted,
           NEW S \in Listings(FormOf[l]), l \notin S
    PROVE  filled[l] + Hour > clock
BY CatchUpAssumption DEF Listings, TypeOK

LEMMA StartFormKeeps ==
    ASSUME IInv, NEW j \in Job, StartForm(j)
    PROVE  Times' /\ Stages' /\ \A l \in Lead : Wanted(l)' => Reach(l)'
<1> DEFINE k == job[j]
<1>k. k \in JobType /\ JobTimes(k) /\ JobStages(k)
  BY JobFacts, JobsOK
<1>1. PICK f \in k.todo :
        IF cursors[f] # None
        THEN Goto(j, [k EXCEPT !.pc = "read", !.cur = f, !.since = cursors[f].since,
                               !.begun = cursors[f].begun, !.left = cursors[f].left])
        ELSE \E S \in Listings(f) :
               Goto(j, [k EXCEPT !.pc = "read", !.cur = f, !.since = Since(k.through[f], k.floor),
                                 !.begun = k.at,
                                 !.left = {l \in S : filled[l] > Since(k.through[f], k.floor)}])
  BY DEF StartForm
<1>2. f \in Form
  BY <1>k DEF JobType
<1> HIDE DEF k
(* Whatever is read, it is enough that it covers every lead of the form. *)
<1>3. ASSUME NEW since, NEW begun, NEW left, begun <= Latest,
             job' = [job EXCEPT ![j] = [k EXCEPT !.pc = "read", !.cur = f, !.since = since,
                                                 !.begun = begun, !.left = left]],
             \A l \in Lead : Wanted(l) /\ FormOf[l] = f => Covered(l, begun) \/ l \in left
      PROVE  Times' /\ Stages' /\ \A l \in Lead : Wanted(l)' => Reach(l)'
  <2> DEFINE n == [k EXCEPT !.pc = "read", !.cur = f, !.since = since, !.begun = begun,
                            !.left = left]
  <2>1. /\ n.pc = "read" /\ n.at = k.at /\ n.floor = k.floor /\ n.begun = begun /\ n.cur = f
        /\ n.left = left /\ n.found = k.found /\ n.todo = k.todo /\ n.through = k.through
    BY <1>k DEF JobType
  <2>2. job' = [job EXCEPT ![j] = n]
    BY <1>3
  <2> HIDE DEF n
  <2>3. JobTimes(n) /\ JobStages(n)
    BY <1>3, <1>k, <2>1 DEF JobTimes, JobStages
  <2>4. ASSUME NEW l \in Lead, Wanted(l)
        PROVE  LET g == FormOf[l] IN
               /\ forms[g].known => Covered(l, forms[g].through) \/ l \in n.found
               /\ cursors[g] # None =>
                    Covered(l, cursors[g].begun) \/ l \in n.found \/ l \in cursors[g].left
               /\ n.cur = g => Covered(l, n.begun) \/ l \in n.found \/ l \in n.left
               /\ g \in n.todo => Covered(l, n.through[g]) \/ l \in n.found
    <3>1. JobReach(k, l) /\ Reach(l)
      BY <2>4, JobFacts DEF k
    <3> QED BY <1>3, <2>1, <2>4, <3>1 DEF Reach, JobReach
  <2>5. k.found \subseteq n.found
    BY <2>1
  <2> QED BY <2>2, <2>3, <2>4, <2>5, JobFacts, JobTurn DEF StartForm, k
<1>4. CASE cursors[f] # None
  <2>1. cursors[f].begun <= Latest
    BY <1>2, <1>4, JobFacts
  <2>2. ASSUME NEW l \in Lead, Wanted(l), FormOf[l] = f
        PROVE  Covered(l, cursors[f].begun) \/ l \in cursors[f].left
    BY <1>4, <2>2, JobFacts DEF Reach
  <2> QED BY <1>1, <1>3, <1>4, <2>1, <2>2 DEF Goto
<1>5. CASE cursors[f] = None
  <2> DEFINE since == Since(k.through[f], k.floor)
  <2>1. PICK S \in Listings(f) :
          Goto(j, [k EXCEPT !.pc = "read", !.cur = f, !.since = since, !.begun = k.at,
                            !.left = {l \in S : filled[l] > since}])
    BY <1>1, <1>5
  <2>2. k.at <= Latest
    BY <1>k DEF JobTimes
  <2>3. /\ k.through[f] \in Nat /\ k.floor \in Nat /\ k.at \in Nat /\ page.since \in Nat
        /\ clock \in Nat /\ Latest \in Nat /\ Latest <= clock
    BY <1>k, <1>2, JobFacts DEF TypeOK, JobType, FormNumbers, IInv, Times, Latest
  <2>4. ASSUME NEW l \in Lead, Wanted(l), FormOf[l] = f
        PROVE  Covered(l, k.at) \/ l \in {x \in S : filled[x] > since}
    <3>1. Covered(l, k.through[f])
      BY <1>1, <2>4, JobFacts DEF JobReach, k
    <3>2. CASE \E i \in Job : l \in job[i].found
      BY <3>2 DEF Covered
    <3>3. CASE filled[l] >= k.through[f] - Hour
      <4>1. filled[l] \in Nat /\ filled[l] > 0 /\ filled[l] >= k.floor /\ l \notin deleted
        BY <1>k, <2>3, <2>4 DEF Wanted, TypeOK, IInv, Stages, JobTimes
      <4>2. filled[l] > since
        BY <2>3, <3>3, <4>1, CatchUpAssumption DEF Since, Larger
      <4>3. CASE l \in S
        BY <4>2, <4>3
      <4>4. CASE l \notin S
        <5>1. filled[l] + Hour > clock
          BY <2>4, <4>1, <4>4, JobFacts, ListedOrYoung
        <5> QED BY <2>2, <2>3, <4>1, <5>1, CatchUpAssumption DEF Covered
      <4> QED BY <4>3, <4>4
    <3> QED BY <3>1, <3>2, <3>3 DEF Covered
  <2> HIDE DEF since
  <2> QED BY <1>3, <2>1, <2>2, <2>4 DEF Goto
<1> QED BY <1>4, <1>5

(* ReadForm, MovePlace and Blame go on with a record like Onward's: no  *)
(* form being read, fewer to read, and everything found so far.              *)
LEMMA OnwardFits ==
    ASSUME IInv, NEW j \in Job, NEW k \in JobType, NEW stop, NEW places,
           k.at = job[j].at, k.floor = job[j].floor, k.todo = job[j].todo,
           k.through = job[j].through, job[j].found \subseteq k.found
    PROVE  LET o == Onward(k, stop, places) IN
           /\ JobTimes(o) /\ JobStages(o) /\ o.cur = None /\ o.found = k.found
           /\ \A l \in Lead : Wanted(l) =>
                (FormOf[l] \in o.todo => Covered(l, o.through[FormOf[l]]))
<1> DEFINE o == Onward(k, stop, places)
<1>1. /\ o.pc \in {"next", "bring"} /\ o.at = k.at /\ o.floor = k.floor
      /\ o.begun = 0 /\ o.cur = None /\ o.left = {} /\ o.found = k.found
      /\ o.todo \subseteq k.todo
      /\ o.todo # {} => o.through = k.through
      /\ \A f \in Form : o.through[f] \in {0, k.through[f]}
  BY OnwardFields
<1> HIDE DEF o
<1>2. JobTimes(o) /\ JobStages(o)
  BY <1>1, JobFacts DEF JobTimes, JobStages
<1>3. ASSUME NEW l \in Lead, Wanted(l), FormOf[l] \in o.todo
      PROVE  Covered(l, o.through[FormOf[l]])
  BY <1>1, <1>3, JobFacts DEF JobReach
<1> QED BY <1>1, <1>2, <1>3 DEF o

LEMMA ReadFormKeeps ==
    ASSUME IInv, NEW j \in Job, ReadForm(j)
    PROVE  Times' /\ Stages' /\ \A l \in Lead : Wanted(l)' => Reach(l)'
<1> DEFINE k == job[j]
<1>k. k \in JobType /\ JobTimes(k) /\ JobStages(k) /\ TypeOK
  BY JobFacts, JobsOK
<1>1. PICK S \in SUBSET k.left :
        LET rest == k.left \ S
            got == [k EXCEPT !.left = {}, !.found = @ \cup NotBefore(S \ deleted, k.floor)]
        IN
        /\ cursors' = [cursors EXCEPT ![k.cur] = Kept(k, rest)]
        /\ job' = [job EXCEPT ![j] = IF rest = {} THEN [got EXCEPT !.pc = "move"]
                                     ELSE Onward(got, FALSE, cursors')]
  BY DEF ReadForm, Goto
<1> DEFINE rest == k.left \ S
           more == NotBefore(S \ deleted, k.floor)
           got == [k EXCEPT !.left = {}, !.found = @ \cup more]
           moving == [got EXCEPT !.pc = "move"]
           o == Onward(got, FALSE, cursors')
           n == IF rest = {} THEN moving ELSE o
<1>2. cursors' = [cursors EXCEPT ![k.cur] = Kept(k, rest)] /\ job' = [job EXCEPT ![j] = n]
  BY <1>1
<1> HIDE DEF k
<1>3. more \subseteq Lead
  BY <1>k, <1>1 DEF NotBefore, JobType
<1>4. got \in JobType
  <2> HIDE DEF more
  <2> QED BY <1>k, <1>3 DEF JobType
(* A wanted lead that is read has been filled in since the switch-on. *)
<1>5. ASSUME NEW l \in Lead, Wanted(l), l \in k.left
      PROVE  l \in rest \/ l \in more
  BY <1>k, <1>5, JobFacts DEF NotBefore, Wanted, IInv, Stages, JobTimes, TypeOK, JobType
<1>6. /\ got.at = k.at /\ got.floor = k.floor /\ got.todo = k.todo /\ got.through = k.through
      /\ got.found = k.found \cup more /\ got.begun = k.begun /\ got.cur = k.cur /\ got.left = {}
  BY <1>k DEF JobType
<1> HIDE DEF rest, more, got
<1>7. /\ moving.pc = "move" /\ moving.at = k.at /\ moving.floor = k.floor
      /\ moving.todo = k.todo /\ moving.through = k.through /\ moving.found = got.found
      /\ moving.begun = k.begun /\ moving.cur = k.cur /\ moving.left = {}
  BY <1>4, <1>6 DEF JobType
<1>8. JobTimes(moving) /\ JobStages(moving)
  <2> HIDE DEF moving
  <2> QED BY <1>7, <1>k DEF JobTimes, JobStages
<1>9. /\ JobTimes(o) /\ JobStages(o) /\ o.cur = None /\ o.found = got.found
      /\ \A l \in Lead : Wanted(l) => (FormOf[l] \in o.todo => Covered(l, o.through[FormOf[l]]))
  BY <1>4, <1>6, OnwardFits DEF k
<1> HIDE DEF moving, o
<1>10. JobTimes(n) /\ JobStages(n) /\ n.found = got.found
  BY <1>7, <1>8, <1>9
<1>11. \A f \in Form : cursors'[f] = IF f = k.cur THEN Kept(k, rest) ELSE cursors[f]
  BY <1>2, <1>k DEF TypeOK
<1>12. Kept(k, rest) # None => rest # {} /\ Kept(k, rest).begun = k.begun
                                /\ Kept(k, rest).left = rest
  BY DEF Kept
<1>13. \A f \in Form : cursors'[f] # None => cursors'[f].begun <= Latest
  BY <1>11, <1>12, <1>k, JobFacts DEF JobTimes
<1>14. ASSUME NEW l \in Lead, Wanted(l)
       PROVE  LET f == FormOf[l] IN
              /\ forms[f].known => Covered(l, forms[f].through) \/ l \in n.found
              /\ cursors'[f] # None =>
                   Covered(l, cursors'[f].begun) \/ l \in n.found \/ l \in cursors'[f].left
              /\ n.cur = f => Covered(l, n.begun) \/ l \in n.found \/ l \in n.left
              /\ f \in n.todo => Covered(l, n.through[f]) \/ l \in n.found
  <2> DEFINE f == FormOf[l]
  <2>1. JobReach(k, l) /\ Reach(l) /\ f \in Form
    BY <1>14, JobFacts DEF k
  <2>2. l \in k.left => l \in rest \/ l \in n.found
    BY <1>5, <1>6, <1>10, <1>14
  <2>3. cursors'[f] # None =>
          Covered(l, cursors'[f].begun) \/ l \in n.found \/ l \in cursors'[f].left
    <3>1. CASE f = k.cur
      BY <1>11, <1>12, <2>1, <2>2, <3>1 DEF JobReach
    <3>2. CASE f # k.cur
      BY <1>11, <2>1, <3>2 DEF Reach
    <3> QED BY <3>1, <3>2
  <2>4. (n.cur = f => Covered(l, n.begun) \/ l \in n.found \/ l \in n.left)
    <3>1. CASE rest = {}
      BY <1>7, <2>1, <2>2, <3>1 DEF JobReach
    <3>2. CASE rest # {}
      BY <1>9, <2>1, <3>2, CatchUpAssumption
    <3> QED BY <3>1, <3>2
  <2>5. f \in n.todo => Covered(l, n.through[f]) \/ l \in n.found
    <3>1. CASE rest = {}
      BY <1>7, <2>1, <3>1 DEF JobReach
    <3>2. CASE rest # {}
      BY <1>9, <1>14, <3>2
    <3> QED BY <3>1, <3>2
  <2> QED BY <2>1, <2>3, <2>4, <2>5 DEF Reach
<1>15. k.found \subseteq n.found
  BY <1>6, <1>10
<1> HIDE DEF n
<1> QED BY <1>2, <1>10, <1>13, <1>14, <1>15, JobFacts, JobTurn DEF ReadForm, k

LEMMA MovePlaceKeeps ==
    ASSUME IInv, NEW j \in Job, MovePlace(j)
    PROVE  Times' /\ Stages' /\ \A l \in Lead : Wanted(l)' => Reach(l)'
<1> DEFINE k == job[j]
           n == Onward(k, FALSE, cursors)
<1>k. k \in JobType /\ JobTimes(k) /\ JobStages(k) /\ TypeOK /\ k.left = {}
  BY JobFacts, JobsOK DEF MovePlace, JobStages
<1>1. job' = [job EXCEPT ![j] = n]
  BY DEF MovePlace, Goto
<1>2. forms' = [forms EXCEPT ![k.cur].through = k.begun, ![k.cur].count = k.counts[k.cur]]
  BY DEF MovePlace, PlaceReached
<1>3. /\ JobTimes(n) /\ JobStages(n) /\ n.cur = None /\ n.found = k.found
      /\ \A l \in Lead : Wanted(l) => (FormOf[l] \in n.todo => Covered(l, n.through[FormOf[l]]))
  BY <1>k, OnwardFits
<1> HIDE DEF n, k
<1>4. \A f \in Form : /\ f = k.cur => forms'[f].through = k.begun
                      /\ f # k.cur => forms'[f] = forms[f]
  BY <1>2, <1>k DEF TypeOK
<1>5. \A f \in Form : forms'[f].through <= Latest
  BY <1>4, <1>k, JobFacts DEF JobTimes
<1>6. ASSUME NEW l \in Lead, Wanted(l)
      PROVE  LET f == FormOf[l] IN
             /\ forms'[f].known => Covered(l, forms'[f].through) \/ l \in n.found
             /\ cursors[f] # None =>
                  Covered(l, cursors[f].begun) \/ l \in n.found \/ l \in cursors[f].left
             /\ n.cur = f => Covered(l, n.begun) \/ l \in n.found \/ l \in n.left
             /\ f \in n.todo => Covered(l, n.through[f]) \/ l \in n.found
  <2>1. JobReach(k, l) /\ Reach(l) /\ FormOf[l] \in Form /\ FormOf[l] # None
    BY <1>6, JobFacts, CatchUpAssumption DEF k
  <2>2. forms'[FormOf[l]].known => Covered(l, forms'[FormOf[l]].through)
    BY <1>4, <1>k, <2>1 DEF Reach, JobReach
  <2> QED BY <1>3, <1>6, <2>1, <2>2 DEF Reach
<1>7. k.found \subseteq n.found
  BY <1>3
<1> QED BY <1>1, <1>3, <1>5, <1>6, <1>7, JobFacts, JobTurn DEF MovePlace, k

(* BringIn saves what was found, and Schedule has nothing left in hand. *)
LEMMA BringInKeeps ==
    ASSUME IInv, NEW j \in Job, BringIn(j)
    PROVE  Times' /\ Stages' /\ \A l \in Lead : Wanted(l)' => Reach(l)'
<1> DEFINE k == job[j]
           n == [k EXCEPT !.pc = "schedule", !.found = {}]
<1>k. k \in JobType /\ JobTimes(k) /\ TypeOK
  BY JobFacts, JobsOK
<1>1. job' = [job EXCEPT ![j] = n] /\ saved' = saved \cup k.found
  BY DEF BringIn, Goto
<1> HIDE DEF k
<1>2. /\ n.pc = "schedule" /\ n.at = k.at /\ n.floor = k.floor /\ n.begun = k.begun
      /\ n.cur = k.cur /\ n.left = k.left /\ n.found = {} /\ n.todo = k.todo
      /\ n.through = k.through
  BY <1>k DEF JobType
<1> HIDE DEF n
<1>3. JobTimes(n) /\ JobStages(n)
  BY <1>2, <1>k DEF JobTimes, JobStages
<1>4. ASSUME NEW l \in Lead, Wanted(l)
      PROVE  LET f == FormOf[l] IN
             /\ forms[f].known => Covered(l, forms[f].through) \/ l \in n.found
             /\ cursors[f] # None =>
                  Covered(l, cursors[f].begun) \/ l \in n.found \/ l \in cursors[f].left
             /\ n.cur = f => Covered(l, n.begun) \/ l \in n.found \/ l \in n.left
             /\ f \in n.todo => Covered(l, n.through[f]) \/ l \in n.found
  <2>1. JobReach(k, l) /\ Reach(l)
    BY <1>4, JobFacts DEF k
  <2> QED BY <1>2, <2>1 DEF Reach, JobReach
<1>5. k.found \subseteq n.found \cup saved'
  BY <1>1
<1> QED BY <1>1, <1>3, <1>4, <1>5, JobFacts, JobTurn DEF BringIn, k

LEMMA ScheduleKeeps ==
    ASSUME IInv, NEW j \in Job, Schedule(j)
    PROVE  Times' /\ Stages' /\ \A l \in Lead : Wanted(l)' => Reach(l)'
<1>1. job' = [job EXCEPT ![j] = NoJob] /\ page'.active = page.active /\ page'.since = page.since
  BY JobFacts DEF Schedule, Goto, TypeOK
<1>2. job[j].found = {}
  BY JobFacts DEF Schedule, JobStages
<1>3. NoJob.cur = None /\ NoJob.todo = {}
  BY DEF NoJob
<1>4. \A l \in Lead : Wanted(l) => Reach(l) /\ FormOf[l] # None
  BY JobFacts, CatchUpAssumption
<1> QED BY <1>1, <1>2, <1>3, <1>4, NoJobFits, JobFacts, JobTurn DEF Schedule, Reach

LEMMA RefuseFormKeeps ==
    ASSUME IInv, NEW j \in Job, RefuseForm(j)
    PROVE  Times' /\ Stages' /\ \A l \in Lead : Wanted(l)' => Reach(l)'
<1> DEFINE k == job[j]
           n == [k EXCEPT !.pc = "blame", !.complete = FALSE]
<1>k. k \in JobType /\ JobTimes(k) /\ TypeOK
  BY JobFacts, JobsOK
<1>1. job' = [job EXCEPT ![j] = n]
  BY DEF RefuseForm, Goto
<1>2. \A f \in Form : cursors'[f] # None => cursors'[f] = cursors[f]
  BY <1>k DEF RefuseForm, TypeOK
<1> HIDE DEF k
<1>3. /\ n.pc = "blame" /\ n.at = k.at /\ n.floor = k.floor /\ n.begun = k.begun
      /\ n.cur = k.cur /\ n.left = k.left /\ n.found = k.found /\ n.todo = k.todo
      /\ n.through = k.through
  BY <1>k DEF JobType
<1> HIDE DEF n
<1>4. JobTimes(n) /\ JobStages(n)
  BY <1>k, <1>3 DEF JobTimes, JobStages
<1>5. \A f \in Form : cursors'[f] # None => cursors'[f].begun <= Latest
  BY <1>2, JobFacts
<1>6. ASSUME NEW l \in Lead, Wanted(l)
      PROVE  LET f == FormOf[l] IN
             /\ forms[f].known => Covered(l, forms[f].through) \/ l \in n.found
             /\ cursors'[f] # None =>
                  Covered(l, cursors'[f].begun) \/ l \in n.found \/ l \in cursors'[f].left
             /\ n.cur = f => Covered(l, n.begun) \/ l \in n.found \/ l \in n.left
             /\ f \in n.todo => Covered(l, n.through[f]) \/ l \in n.found
  <2>1. JobReach(k, l) /\ Reach(l) /\ FormOf[l] \in Form
    BY <1>6, JobFacts DEF k
  <2>2. cursors'[FormOf[l]] # None =>
          Covered(l, cursors'[FormOf[l]].begun) \/ l \in cursors'[FormOf[l]].left
    BY <1>2, <2>1 DEF Reach
  <2> QED BY <1>3, <2>1, <2>2 DEF Reach, JobReach
<1>7. k.found \subseteq n.found
  BY <1>3
<1> QED BY <1>1, <1>4, <1>5, <1>6, <1>7, JobFacts, JobTurn DEF RefuseForm, k

LEMMA BlameKeeps ==
    ASSUME IInv, NEW j \in Job, Blame(j)
    PROVE  Times' /\ Stages' /\ \A l \in Lead : Wanted(l)' => Reach(l)'
<1> DEFINE k == job[j]
<1>k. k \in JobType /\ JobTimes(k) /\ JobStages(k) /\ TypeOK
  BY JobFacts, JobsOK
<1>1. PICK stop \in BOOLEAN :
        job' = [job EXCEPT ![j] = IF k.pc = "refused" THEN [k EXCEPT !.pc = "schedule"]
                                  ELSE Onward(k, stop, cursors)]
  BY BlameGoesOn
<1> DEFINE o == Onward(k, stop, cursors)
           e == [k EXCEPT !.pc = "schedule"]
           n == IF k.pc = "refused" THEN e ELSE o
<1>2. /\ JobTimes(o) /\ JobStages(o) /\ o.cur = None /\ o.found = k.found
      /\ \A l \in Lead : Wanted(l) => (FormOf[l] \in o.todo => Covered(l, o.through[FormOf[l]]))
  BY <1>k, OnwardFits
<1>3. job' = [job EXCEPT ![j] = n]
  BY <1>1
<1> HIDE DEF o, k
<1>4. /\ e.pc = "schedule" /\ e.at = k.at /\ e.floor = k.floor /\ e.begun = k.begun
      /\ e.cur = k.cur /\ e.left = k.left /\ e.found = k.found /\ e.todo = k.todo
      /\ e.through = k.through
  BY <1>k DEF JobType
<1> HIDE DEF e
<1>5. JobTimes(n) /\ JobStages(n) /\ n.found = k.found
  BY <1>2, <1>4, <1>k DEF JobTimes, JobStages
<1>6. ASSUME NEW l \in Lead, Wanted(l)
      PROVE  LET f == FormOf[l] IN
             /\ forms[f].known => Covered(l, forms[f].through) \/ l \in n.found
             /\ cursors[f] # None =>
                  Covered(l, cursors[f].begun) \/ l \in n.found \/ l \in cursors[f].left
             /\ n.cur = f => Covered(l, n.begun) \/ l \in n.found \/ l \in n.left
             /\ f \in n.todo => Covered(l, n.through[f]) \/ l \in n.found
  <2>1. JobReach(k, l) /\ Reach(l) /\ FormOf[l] \in Form /\ FormOf[l] # None
    BY <1>6, JobFacts, CatchUpAssumption DEF k
  <2>2. CASE k.pc = "refused"
    BY <1>4, <2>1, <2>2 DEF Reach, JobReach
  <2>3. CASE k.pc # "refused"
    BY <1>2, <1>6, <2>1, <2>3 DEF Reach
  <2> QED BY <2>2, <2>3
<1>7. k.found \subseteq n.found
  BY <1>5
<1> HIDE DEF n
<1> QED BY <1>3, <1>5, <1>6, <1>7, JobFacts, JobTurn DEF Blame, k

(* The other steps leave the catch-ups and their cursors alone, and time     *)
(* does not run back.                                                        *)
LEMMA LaterTimes ==
    ASSUME IInv, TypeOK', job' = job, cursors' = cursors, Latest <= Latest',
           page.since <= page'.since
    PROVE  /\ \A j \in Job : JobTimes(job[j])'
           /\ \A f \in Form : cursors'[f] # None => cursors'[f].begun <= Latest'
           /\ \A f \in Form : forms[f].through <= Latest'
<1>1. TypeOK /\ Latest \in Nat /\ Latest' \in Nat /\ page.since \in Nat /\ page'.since \in Nat
  <2>1. clock' \in Nat /\ turning' \in Nat
    BY DEF TypeOK
  <2> QED BY <2>1, LatestOK DEF IInv, TypeOK, Latest
<1>2. ASSUME NEW j \in Job
      PROVE  JobTimes(job[j])'
  <2>1. /\ JobTimes(job[j]) /\ job[j].at \in Nat /\ job[j].begun \in Nat /\ job[j].floor \in Nat
        /\ \A f \in Form : job[j].through[f] \in Nat
    BY <1>1, JobsOK, JobFacts
  <2>2. job'[j] = job[j]
    OBVIOUS
  <2> QED BY <1>1, <2>1, <2>2 DEF JobTimes
<1>3. ASSUME NEW f \in Form, cursors'[f] # None
      PROVE  cursors'[f].begun <= Latest'
  <2>1. cursors[f] \in CursorType /\ cursors[f].begun <= Latest
    BY <1>1, <1>3, JobFacts DEF TypeOK, IInv, Times
  <2> QED BY <1>1, <2>1 DEF CursorType
<1>4. ASSUME NEW f \in Form
      PROVE  forms[f].through <= Latest'
  <2>1. forms[f].through \in Nat /\ forms[f].through <= Latest
    BY <1>1 DEF TypeOK, IInv, Times
  <2> QED BY <1>1, <2>1
<1> QED BY <1>2, <1>3, <1>4

(* Steps after which no more leads are wanted than before. *)
LEMMA NoMoreWanted ==
    ASSUME IInv, TypeOK', job' = job, cursors' = cursors, forms' = forms, filled' = filled,
           page'.since = page.since, page'.active => page.active,
           saved \subseteq saved', deleted' \subseteq saved', clock <= clock', Latest <= Latest',
           turning' <= clock', turning' > 0 => ~page'.active
    PROVE  Times' /\ Stages' /\ \A l \in Lead : Wanted(l)' => Reach(l)'
<1>1. page.since \in Nat /\ clock \in Nat /\ clock' \in Nat /\ filled \in [Lead -> Nat]
  BY DEF IInv, TypeOK
<1>2. page'.since <= Latest'
  <2>1. Latest \in Nat /\ Latest' \in Nat
    BY LatestOK DEF IInv, TypeOK, Latest
  <2> QED BY <1>1, <2>1 DEF IInv, Times
<1>3. Times'
  <2>1. \A l \in Lead : filled'[l] <= clock'
    BY <1>1 DEF IInv, Times
  <2> QED BY <1>1, <1>2, <2>1, LaterTimes DEF Times
<1>4. Stages'
  BY DEF IInv, Stages, JobStages
<1>5. \A l \in Lead : Wanted(l)' => Reach(l)'
  <2>1. ASSUME NEW l \in Lead, Wanted(l)'
        PROVE  Reach(l)
    BY <2>1 DEF IInv, Wanted
  <2> QED BY <2>1 DEF Reach, JobReach, Covered
<1> QED BY <1>3, <1>4, <1>5

LEMMA FillKeeps ==
    ASSUME IInv, TypeOK', NEW x \in Lead, Fill(x)
    PROVE  Times' /\ Stages' /\ \A l \in Lead : Wanted(l)' => Reach(l)'
<1>1. TypeOK /\ Latest' = Latest /\ Latest \in Nat /\ clock \in Nat /\ Latest <= clock
  BY LatestOK DEF IInv, Times, TypeOK, Fill, Latest
<1>2. \A l \in Lead : filled'[l] = IF l = x THEN clock ELSE filled[l]
  BY <1>1 DEF Fill, TypeOK
<1>3. Times'
  BY <1>1, <1>2, LaterTimes DEF Fill, IInv, Times, TypeOK
<1>4. Stages'
  BY DEF Fill, IInv, Stages, JobStages
<1>5. ASSUME NEW l \in Lead, Wanted(l)'
      PROVE  Reach(l)'
  <2>1. CASE l = x
    <3>1. ASSUME NEW place \in Nat, place <= Latest
          PROVE  Covered(l, place)'
      BY <1>1, <1>2, <2>1, <3>1, CatchUpAssumption DEF Covered, Fill
    <3>2. FormOf[l] \in Form
      BY CatchUpAssumption
    <3>3. forms[FormOf[l]].through \in Nat
      BY <1>1, <3>2 DEF TypeOK
    <3>4. forms[FormOf[l]].through <= Latest
      BY <3>2, JobFacts DEF IInv, Times
    <3>5. cursors[FormOf[l]] # None =>
            cursors[FormOf[l]].begun \in Nat /\ cursors[FormOf[l]].begun <= Latest
      BY <1>1, <3>2 DEF TypeOK, CursorType, IInv, Times
    <3>6. ASSUME NEW j \in Job
          PROVE  JobReach(job[j], l)'
      <4>1. JobTimes(job[j]) /\ job[j].begun \in Nat /\ job[j].through[FormOf[l]] \in Nat
        BY <1>1, <3>2, JobFacts, JobsOK
      <4>2. job[j].begun <= Latest /\ job[j].through[FormOf[l]] <= Latest
        BY <3>2, <4>1 DEF JobTimes
      <4>3. Covered(l, job[j].begun)' /\ Covered(l, job[j].through[FormOf[l]])'
        BY <3>1, <4>1, <4>2 DEF Fill
      <4> QED BY <4>3 DEF JobReach
    <3>7. Covered(l, forms[FormOf[l]].through)'
      BY <3>1, <3>3, <3>4 DEF Fill
    <3>8. cursors'[FormOf[l]] # None => Covered(l, cursors[FormOf[l]].begun)'
      BY <3>1, <3>5 DEF Fill
    <3> QED BY <3>6, <3>7, <3>8 DEF Reach
  <2>2. CASE l # x
    <3>1. Reach(l)
      BY <1>2, <1>5, <2>2 DEF IInv, Wanted, Fill
    <3>2. filled'[l] = filled[l]
      BY <1>2, <2>2
    <3> QED BY <3>1, <3>2 DEF Fill, Reach, JobReach, Covered
  <2> QED BY <2>1, <2>2
<1> QED BY <1>3, <1>4, <1>5

LEMMA EnsureFormKeeps ==
    ASSUME IInv, TypeOK', NEW f \in Form, EnsureForm(f)
    PROVE  Times' /\ Stages' /\ \A l \in Lead : Wanted(l)' => Reach(l)'
<1>1. TypeOK /\ Latest' = Latest /\ page.since <= Latest
  BY DEF IInv, Times, EnsureForm, Latest
<1>2. forms' = [forms EXCEPT ![f] = [known |-> TRUE, through |-> page.since, count |-> 0]]
  BY DEF EnsureForm
<1>3. \A g \in Form : /\ g = f => forms'[g].through = page.since
                      /\ g # f => forms'[g] = forms[g]
  BY <1>1, <1>2 DEF TypeOK
<1>4. \A g \in Form : forms'[g].through <= Latest'
  BY <1>1, <1>3 DEF IInv, Times
<1>5. Times'
  BY <1>1, <1>4 DEF EnsureForm, IInv, Times, JobTimes
<1>6. Stages'
  BY DEF EnsureForm, IInv, Stages, JobStages
<1>7. ASSUME NEW l \in Lead, Wanted(l)'
      PROVE  Reach(l)'
  <2>1. Reach(l) /\ filled[l] >= page.since /\ FormOf[l] \in Form
    BY <1>7, CatchUpAssumption DEF IInv, Wanted, EnsureForm
  <2>2. filled[l] >= page.since - Hour
    BY <1>1, <2>1, CatchUpAssumption DEF TypeOK
  <2>3. forms'[FormOf[l]].known => Covered(l, forms'[FormOf[l]].through)
    BY <1>3, <2>1, <2>2 DEF Reach, Covered
  <2> QED BY <2>1, <2>3 DEF EnsureForm, Reach, JobReach, Covered
<1> QED BY <1>5, <1>6, <1>7

(* A lead wanted after the switch-on was filled in since it began, and every *)
(* place that is kept is older.                                              *)
LEMMA CommitTurnOnKeeps ==
    ASSUME IInv, TypeOK', CommitTurnOn
    PROVE  Times' /\ Stages' /\ \A l \in Lead : Wanted(l)' => Reach(l)'
<1>1. /\ TypeOK /\ turning > 0 /\ turning' = 0 /\ Latest = turning /\ Latest' = clock
      /\ turning \in Nat /\ clock \in Nat /\ turning <= clock /\ page'.since = turning
      /\ page.since \in Nat /\ page.since <= turning
  BY DEF IInv, Times, TypeOK, CommitTurnOn, SwitchedOn, Latest
<1>2. UNCHANGED <<clock, filled, deleted, cursors, saved, job>>
  BY DEF CommitTurnOn
<1>3. \A f \in Form : forms'[f].through \in {turning, forms[f].through}
                      /\ forms'[f].through \in Nat /\ forms'[f].through <= turning
  <2>1. PICK listed \in BOOLEAN, counts \in Counts : forms' = ResetPlaces(listed, counts)
    BY DEF CommitTurnOn
  <2>2. \A f \in Form : forms'[f].through \in {turning, forms[f].through}
    BY <1>1, <2>1 DEF ResetPlaces, TypeOK
  <2>3. \A f \in Form : forms[f].through \in Nat /\ forms[f].through <= turning
    BY <1>1, JobFacts DEF TypeOK, IInv, Times
  <2> QED BY <1>1, <2>2, <2>3
<1>4. Times'
  <2>1. \A f \in Form : forms'[f].through <= Latest'
    BY <1>1, <1>3
  <2> QED BY <1>1, <1>2, <2>1, LaterTimes DEF IInv, Times
<1>5. Stages'
  BY <1>2 DEF IInv, Stages, JobStages
<1>6. ASSUME NEW l \in Lead, Wanted(l)'
      PROVE  Reach(l)'
  <2>1. filled[l] \in Nat /\ filled[l] >= turning /\ FormOf[l] \in Form
    BY <1>1, <1>2, <1>6, CatchUpAssumption DEF Wanted, TypeOK
  <2>2. ASSUME NEW place \in Nat, place <= turning
        PROVE  Covered(l, place)'
    BY <1>1, <1>2, <2>1, <2>2, CatchUpAssumption DEF Covered
  <2>3. Covered(l, forms[FormOf[l]].through)'
    BY <1>3, <2>1, <2>2
  <2>4. cursors'[FormOf[l]] # None => Covered(l, cursors[FormOf[l]].begun)'
    <3>1. cursors[FormOf[l]] # None =>
            cursors[FormOf[l]].begun \in Nat /\ cursors[FormOf[l]].begun <= turning
      BY <1>1, <2>1 DEF TypeOK, CursorType, IInv, Times
    <3> QED BY <1>2, <2>2, <3>1
  <2>5. ASSUME NEW j \in Job
        PROVE  JobReach(job[j], l)'
    <3>1. JobTimes(job[j]) /\ job[j].begun \in Nat /\ job[j].through[FormOf[l]] \in Nat
      BY <1>1, <2>1, JobFacts, JobsOK
    <3>2. job[j].begun <= turning /\ job[j].through[FormOf[l]] <= turning
      BY <1>1, <2>1, <3>1 DEF JobTimes
    <3>3. Covered(l, job[j].begun)' /\ Covered(l, job[j].through[FormOf[l]])'
      BY <1>2, <2>2, <3>1, <3>2
    <3> QED BY <3>3 DEF JobReach
  <2> QED BY <2>3, <2>4, <2>5 DEF Reach
<1> QED BY <1>4, <1>5, <1>6

LEMMA ReachStep ==
    ASSUME MaxFailures = 0, IInv, [Next]_vars
    PROVE  IInv'
<1>1. TypeOK /\ TypeOK'
  BY TypeStep DEF IInv
<1>2. /\ Latest \in Nat /\ Latest <= clock /\ clock \in Nat /\ turning \in Nat
      /\ turning <= clock /\ spent.failures \in Nat
  BY <1>1, LatestOK DEF IInv, Times, TypeOK, Latest
<1> SUFFICES Times' /\ Stages' /\ \A l \in Lead : Wanted(l)' => Reach(l)'
  BY <1>1 DEF IInv
<1>3. ASSUME NEW l \in Lead, Fill(l)
      PROVE  Times' /\ Stages' /\ \A x \in Lead : Wanted(x)' => Reach(x)'
  BY <1>1, <1>3, FillKeeps
<1>4. ASSUME NEW l \in Lead, Drop(l) \/ Webhook(l)
      PROVE  Times' /\ Stages' /\ \A x \in Lead : Wanted(x)' => Reach(x)'
  <2>1. deleted' \subseteq saved' /\ saved \subseteq saved'
    BY <1>4 DEF IInv, Stages, Drop, Webhook
  <2>2. Latest' = Latest /\ clock' = clock /\ turning' = turning
    BY <1>4 DEF Latest, Drop, Webhook
  <2> QED BY <1>1, <1>2, <1>4, <2>1, <2>2, NoMoreWanted DEF Drop, Webhook, IInv, Times
<1>5. CASE Tick
  <2>1. clock' = clock + 1 /\ turning' = turning /\ Latest <= Latest'
    BY <1>2, <1>5 DEF Tick, Latest
  <2> QED BY <1>1, <1>2, <1>5, <2>1, NoMoreWanted DEF Tick, IInv, Times, Stages
<1>6. CASE DayPasses \/ TurnOff \/ PauseEnds \/ PollTime \/ PageProblem \/ ClearPageProblem
  <2>1. /\ Latest' = Latest /\ clock' = clock /\ turning' = turning /\ page'.since = page.since
        /\ page'.active => page.active
    BY <1>1, <1>6 DEF Latest, DayPasses, TurnOff, PauseEnds, PollTime, PageProblem,
                      ClearPageProblem, TypeOK
  <2> QED BY <1>1, <1>2, <1>6, <2>1, NoMoreWanted
          DEF DayPasses, TurnOff, PauseEnds, PollTime, PageProblem, ClearPageProblem,
              IInv, Times, Stages
<1>7. CASE StartTurnOn \/ RefuseTurnOn
  <2>1. Latest' = clock /\ clock' = clock /\ turning' <= clock'
    BY <1>2, <1>7 DEF Latest, StartTurnOn, RefuseTurnOn
  <2>2. turning' > 0 => ~page'.active
    BY <1>7 DEF StartTurnOn, RefuseTurnOn
  <2> QED BY <1>1, <1>2, <1>7, <2>1, <2>2, NoMoreWanted
          DEF StartTurnOn, RefuseTurnOn, IInv, Stages
<1>8. ASSUME NEW f \in Form, EnsureForm(f)
      PROVE  Times' /\ Stages' /\ \A l \in Lead : Wanted(l)' => Reach(l)'
  BY <1>1, <1>8, EnsureFormKeeps
<1>9. CASE CommitTurnOn
  BY <1>1, <1>9, CommitTurnOnKeeps
<1>10. ASSUME NEW j \in Job, StartPoll(j) \/ Works(j) \/ RefuseList(j) \/ RefuseForm(j)
       PROVE  Times' /\ Stages' /\ \A l \in Lead : Wanted(l)' => Reach(l)'
  BY <1>10, TakenKeeps, SaveFormsKeeps, StartFormKeeps, ReadFormKeeps, MovePlaceKeeps,
     BringInKeeps, ScheduleKeeps, RefuseFormKeeps, BlameKeeps DEF Works
<1>11. ~Crash /\ \A j \in Job : ~Throws(j)
  BY <1>2 DEF Crash, Throws, Spend
<1>12. CASE UNCHANGED vars
  <2>1. Latest' = Latest
    BY <1>12 DEF vars, Latest
  <2> QED BY <1>1, <1>2, <1>12, <2>1, NoMoreWanted DEF vars, IInv, Times, Stages
<1> QED BY <1>3, <1>4, <1>5, <1>6, <1>7, <1>8, <1>9, <1>10, <1>11, <1>12 DEF Next

(* As long as no statement of a catch-up throws and the process stays up, a  *)
(* lead the Page should get stays within reach of the next read of its form  *)
(* until it is saved: whatever the catch-ups that run at once, the cursors   *)
(* they share, the leads Meta lists late, the answers it refuses, the Page   *)
(* switched off and on meanwhile.                                            *)
THEOREM NeverOutOfReach ==
    ASSUME MaxFailures = 0
    PROVE  Spec => []NothingOutOfReach
<1>1. Init => IInv
  BY ReachInit
<1>2. IInv /\ [Next]_vars => IInv'
  BY ReachStep
<1> QED BY <1>1, <1>2, ReachSuffices, PTL DEF Spec

-----------------------------------------------------------------------------
(* Nothing from while the Page was off                                       *)

(* A catch-up runs only on a Page that is on, and reads from no earlier than *)
(* its switch-on. *)
RunsWhileOn ==
    \A j \in Job :
        /\ job[j].pc = "idle" => job[j].found = {}
        /\ job[j].pc # "idle" => page.active /\ job[j].floor = page.since
        /\ \A l \in job[j].found : filled[l] >= job[j].floor

(* What came in while the Page was off came before it was switched on, and   *)
(* none of it was saved. *)
OffInv ==
    /\ TypeOK /\ clock > 0
    /\ turning > 0 => ~page.active
    /\ page.active => page.since > 0 /\ \A l \in closed : filled[l] < page.since
    /\ \A l \in saved \cup closed : filled[l] > 0
    /\ saved \cap closed = {}
    /\ RunsWhileOn

LEMMA OffInit == Init => OffInv
<1>1. Init => TypeOK
  BY TypeInit
<1> QED BY <1>1 DEF Init, OffInv, RunsWhileOn, NoJob

(* What a step of a run does to the run: it ends, or goes on from the same   *)
(* floor, having found no lead from before it. *)
LEMMA RunGoesOn ==
    ASSUME TypeOK, NEW j \in Job, Works(j) \/ RefuseForm(j) \/ Throws(j)
    PROVE  /\ job[j].pc # "idle"
           /\ \E n \in JobType :
                /\ job' = [job EXCEPT ![j] = n]
                /\ \/ n = NoJob
                   \/ /\ n.pc # "idle" /\ n.floor = job[j].floor
                      /\ \A l \in n.found : l \in job[j].found \/ filled[l] >= job[j].floor
<1> DEFINE k == job[j]
<1>k. k \in JobType
  BY DEF TypeOK
<1>1. job' \in [Job -> JobType]
  BY WorksTypes
<1>2. k.pc # "idle"
  BY DEF Works, SaveForms, StartForm, ReadForm, MovePlace, BringIn, Schedule, Blame, RefuseForm, Throws
<1> SUFFICES \E n \in JobType :
                /\ job' = [job EXCEPT ![j] = n]
                /\ \/ n = NoJob
                   \/ /\ n.pc # "idle" /\ n.floor = k.floor
                      /\ \A l \in n.found : l \in k.found \/ filled[l] >= k.floor
  BY <1>2
<1> HIDE DEF k
<1>3. CASE Schedule(j) \/ Throws(j)
  BY <1>3, NoJobOK DEF Schedule, Throws, Goto
<1>4. CASE SaveForms(j)
  <2> DEFINE stored == [f \in Form |-> IF forms[f].known THEN forms[f]
                                      ELSE [known |-> TRUE, through |-> k.floor, count |-> 0]]
             due == DueForms(k, stored)
             through == [f \in Form |-> stored[f].through]
             none == [k EXCEPT !.pc = "bring", !.counts = NoJob.counts]
             some == [k EXCEPT !.pc = "next", !.due = due, !.todo = due, !.through = through]
             n == job'[j]
  <2>1. job' = [job EXCEPT ![j] = IF due = {} THEN none ELSE some]
    BY <1>4 DEF SaveForms, Goto, k
  <2> HIDE DEF due, through
  <2>2. none.pc = "bring" /\ none.floor = k.floor /\ none.found = k.found
    BY <1>k DEF JobType
  <2>3. some.pc = "next" /\ some.floor = k.floor /\ some.found = k.found
    BY <1>k DEF JobType
  <2> HIDE DEF none, some
  <2>4. n = (IF due = {} THEN none ELSE some) /\ n \in JobType
    BY <1>1, <2>1 DEF TypeOK
  <2>5. job' = [job EXCEPT ![j] = n]
    BY <2>1, <2>4
  <2>6. n.pc # "idle" /\ n.floor = k.floor /\ n.found = k.found
    BY <2>2, <2>3, <2>4
  <2> QED BY <2>4, <2>5, <2>6
<1>5. CASE StartForm(j)
  <2>1. PICK f \in k.todo : \E since, begun, left :
          job' = [job EXCEPT ![j] = [k EXCEPT !.pc = "read", !.cur = f, !.since = since,
                                               !.begun = begun, !.left = left]]
    <3>1. PICK f \in k.todo :
            IF cursors[f] # None
            THEN Goto(j, [k EXCEPT !.pc = "read", !.cur = f, !.since = cursors[f].since,
                                   !.begun = cursors[f].begun, !.left = cursors[f].left])
            ELSE \E S \in Listings(f) :
                   Goto(j, [k EXCEPT !.pc = "read", !.cur = f, !.since = Since(k.through[f], k.floor),
                                     !.begun = k.at,
                                     !.left = {l \in S : filled[l] > Since(k.through[f], k.floor)}])
      BY <1>5 DEF StartForm, k
    <3>2. CASE cursors[f] # None
      BY <3>1, <3>2 DEF Goto
    <3>3. CASE cursors[f] = None
      BY <3>1, <3>3 DEF Goto
    <3> QED BY <3>2, <3>3
  <2>2. PICK since, begun, left :
          job' = [job EXCEPT ![j] = [k EXCEPT !.pc = "read", !.cur = f, !.since = since,
                                               !.begun = begun, !.left = left]]
    BY <2>1
  <2> DEFINE m == [k EXCEPT !.pc = "read", !.cur = f, !.since = since, !.begun = begun, !.left = left]
  <2>3. m.pc = "read" /\ m.floor = k.floor /\ m.found = k.found
    BY <1>k DEF JobType
  <2> HIDE DEF m
  <2>4. job' = [job EXCEPT ![j] = m] /\ m \in JobType
    BY <1>1, <2>2 DEF m, TypeOK
  <2> QED BY <2>3, <2>4
<1>6. CASE ReadForm(j)
  <2>1. PICK S \in SUBSET k.left :
          LET rest == k.left \ S
              got == [k EXCEPT !.left = {}, !.found = @ \cup NotBefore(S \ deleted, k.floor)]
          IN job' = [job EXCEPT ![j] = IF rest = {} THEN [got EXCEPT !.pc = "move"]
                                       ELSE Onward(got, FALSE, cursors')]
    BY <1>6 DEF ReadForm, Goto, k
  <2> DEFINE got == [k EXCEPT !.left = {}, !.found = @ \cup NotBefore(S \ deleted, k.floor)]
             moved == [got EXCEPT !.pc = "move"]
  <2>0. PICK never \in BOOLEAN : never = FALSE
    OBVIOUS
  <2> DEFINE on == Onward(got, never, cursors')
  <2>2. NotBefore(S \ deleted, k.floor) \subseteq Lead
    BY <1>k DEF NotBefore, JobType
  <2>3. got \in JobType /\ got.floor = k.floor /\ got.found = k.found \cup NotBefore(S \ deleted, k.floor)
    BY <1>k, <2>2 DEF JobType
  <2>4. \A l \in got.found : l \in k.found \/ filled[l] >= k.floor
    BY <2>3 DEF NotBefore
  <2> HIDE DEF got
  <2>5. moved.pc = "move" /\ moved.floor = got.floor /\ moved.found = got.found
    BY <2>3 DEF JobType
  <2>6. on.pc \in {"next", "bring"} /\ on.floor = got.floor /\ on.found = got.found
    <3>1. got \in JobType
      BY <2>3
    <3> QED BY <3>1, OnwardFields
  <2> HIDE DEF moved, on
  <2>7. PICK n \in {moved, on} : job' = [job EXCEPT ![j] = n]
    BY <2>0, <2>1 DEF moved, on, got
  <2>8. n \in JobType
    BY <1>1, <2>7 DEF TypeOK
  <2> QED BY <2>3, <2>4, <2>5, <2>6, <2>7, <2>8
<1>7. CASE MovePlace(j)
  <2>0. PICK never \in BOOLEAN : never = FALSE
    OBVIOUS
  <2> DEFINE n == Onward(k, never, cursors)
  <2>1. n.pc \in {"next", "bring"} /\ n.floor = k.floor /\ n.found = k.found
    BY <1>k, OnwardFields
  <2>2. n \in JobType
    BY <1>k, OnwardOK
  <2>3. job' = [job EXCEPT ![j] = n]
    BY <1>7, <2>0 DEF MovePlace, Goto, k
  <2> HIDE DEF n
  <2> QED BY <2>1, <2>2, <2>3
<1>8. CASE BringIn(j)
  <2> DEFINE n == [k EXCEPT !.pc = "schedule", !.found = {}]
  <2>1. n \in JobType /\ n.pc = "schedule" /\ n.floor = k.floor /\ n.found = {}
    BY <1>k DEF JobType, Steps
  <2>2. job' = [job EXCEPT ![j] = n]
    BY <1>8 DEF BringIn, Goto, k
  <2> HIDE DEF n
  <2> QED BY <2>1, <2>2
<1>9. CASE RefuseForm(j)
  <2> DEFINE n == [k EXCEPT !.pc = "blame", !.complete = FALSE]
  <2>1. n \in JobType /\ n.pc = "blame" /\ n.floor = k.floor /\ n.found = k.found
    BY <1>k DEF JobType, Steps
  <2>2. job' = [job EXCEPT ![j] = n]
    BY <1>9 DEF RefuseForm, Goto, k
  <2> HIDE DEF n
  <2> QED BY <2>1, <2>2
<1>10. CASE Blame(j)
  <2>1. PICK stop \in BOOLEAN :
          job' = [job EXCEPT ![j] = IF k.pc = "refused" THEN [k EXCEPT !.pc = "schedule"]
                                    ELSE Onward(k, stop, cursors)]
    BY <1>10, BlameGoesOn DEF k
  <2> DEFINE on == Onward(k, stop, cursors)
             ended == [k EXCEPT !.pc = "schedule"]
  <2>2. on.pc \in {"next", "bring"} /\ on.floor = k.floor /\ on.found = k.found
    BY <1>k, OnwardFields
  <2>3. ended.pc = "schedule" /\ ended.floor = k.floor /\ ended.found = k.found
    BY <1>k DEF JobType
  <2> HIDE DEF on, ended
  <2>4. PICK n \in {on, ended} : job' = [job EXCEPT ![j] = n]
    BY <2>1 DEF on, ended
  <2>5. n \in JobType
    BY <1>1, <2>4 DEF TypeOK
  <2> QED BY <2>2, <2>3, <2>4, <2>5
<1> QED BY <1>3, <1>4, <1>5, <1>6, <1>7, <1>8, <1>9, <1>10 DEF Works

(* Steps of the catch-ups: what is brought in came since the switch-on, and  *)
(* what came before it did not. *)
LEMMA OffRunKeeps ==
    ASSUME OffInv, NEW j \in Job, StartPoll(j) \/ Works(j) \/ RefuseList(j) \/ RefuseForm(j) \/ Throws(j)
    PROVE  OffInv'
<1>1. TypeOK /\ TypeOK'
  BY TypeStep DEF OffInv, Next
<1>2. /\ UNCHANGED <<clock, filled, closed, turning>>
      /\ page'.active = page.active /\ page'.since = page.since
  BY <1>1 DEF Works, StartPoll, SaveForms, StartForm, ReadForm, MovePlace, BringIn, Schedule,
              Blame, RefuseList, RefuseForm, Throws, TypeOK
<1>3. RunsWhileOn'
  <2>1. ASSUME NEW n \in JobType, job' = [job EXCEPT ![j] = n],
               n.pc = "idle" => n.found = {},
               n.pc # "idle" => page.active /\ n.floor = page.since,
               \A l \in n.found : filled[l] >= n.floor
        PROVE  RunsWhileOn'
    <3>1. \A i \in Job : job'[i] = IF i = j THEN n ELSE job[i]
      BY <1>1, <2>1 DEF TypeOK
    <3> QED BY <1>2, <2>1, <3>1 DEF OffInv, RunsWhileOn
  <2>2. CASE StartPoll(j) \/ RefuseList(j)
    <3> DEFINE t == Taken(j)
    <3>1. t \in JobType /\ t.floor = page.since /\ t.found = {}
      BY <1>1, TakenFields
    <3> HIDE DEF t
    <3>2. CASE StartPoll(j)
      <4>1. PICK counts \in Counts : job' = [job EXCEPT ![j] = [t EXCEPT !.pc = "save", !.counts = counts]]
        BY <3>2 DEF StartPoll, Goto, t
      <4> DEFINE n == [t EXCEPT !.pc = "save", !.counts = counts]
      <4>2. n.pc = "save" /\ n.floor = page.since /\ n.found = {}
        BY <3>1 DEF JobType
      <4>3. job' = [job EXCEPT ![j] = n] /\ n \in JobType
        BY <1>1, <4>1 DEF TypeOK
      <4> HIDE DEF n
      <4> QED BY <2>1, <3>2, <4>2, <4>3 DEF StartPoll, MayPoll
    <3>3. CASE RefuseList(j)
      <4> DEFINE n == [t EXCEPT !.pc = "refused", !.complete = FALSE]
      <4>1. n.pc = "refused" /\ n.floor = page.since /\ n.found = {}
        BY <3>1 DEF JobType
      <4>2. job' = [job EXCEPT ![j] = n]
        BY <3>3 DEF RefuseList, Goto, t
      <4>3. n \in JobType
        BY <1>1, <4>2 DEF TypeOK
      <4> HIDE DEF n
      <4> QED BY <2>1, <3>3, <4>1, <4>2, <4>3 DEF RefuseList, MayPoll
    <3> QED BY <2>2, <3>2, <3>3
  <2>3. CASE Works(j) \/ RefuseForm(j) \/ Throws(j)
    <3>1. job[j].pc # "idle"
      BY <1>1, <2>3, RunGoesOn
    <3>2. PICK n \in JobType :
            /\ job' = [job EXCEPT ![j] = n]
            /\ \/ n = NoJob
               \/ /\ n.pc # "idle" /\ n.floor = job[j].floor
                  /\ \A l \in n.found : l \in job[j].found \/ filled[l] >= job[j].floor
      BY <1>1, <2>3, RunGoesOn
    <3>3. NoJob.pc = "idle" /\ NoJob.found = {}
      BY DEF NoJob
    <3> QED BY <2>1, <3>1, <3>2, <3>3 DEF OffInv, RunsWhileOn
  <2> QED BY <2>2, <2>3
<1>4. saved' \subseteq saved \cup job[j].found /\ (saved' # saved => job[j].pc # "idle")
  BY DEF Works, StartPoll, SaveForms, StartForm, ReadForm, MovePlace, BringIn, Schedule,
         Blame, RefuseList, RefuseForm, Throws
<1>5. \A l \in saved' : filled[l] > 0 /\ l \notin closed
  <2>1. ASSUME NEW l \in job[j].found, job[j].pc # "idle"
        PROVE  filled[l] > 0 /\ l \notin closed
    <3>1. filled[l] >= page.since /\ page.active /\ page.since > 0
      BY <2>1 DEF OffInv, RunsWhileOn
    <3>2. page.since \in Nat /\ filled[l] \in Nat
      BY <1>1, <2>1, JobsOK DEF TypeOK
    <3>3. l \in closed => filled[l] < page.since
      BY <3>1 DEF OffInv
    <3> QED BY <3>1, <3>2, <3>3
  <2> QED BY <1>4, <2>1 DEF OffInv
<1> QED BY <1>1, <1>2, <1>3, <1>5 DEF OffInv

LEMMA OffStep ==
    ASSUME Overlapping = FALSE, OffInv, [Next]_vars
    PROVE  OffInv'
<1>1. TypeOK /\ TypeOK'
  BY TypeStep DEF OffInv
<1>2. ASSUME NEW x \in Lead, Fill(x)
      PROVE  OffInv'
  <2>1. \A l \in Lead : l # x => filled'[l] = filled[l]
    BY <1>1, <1>2 DEF Fill, TypeOK
  <2>2. filled[x] = 0 /\ filled'[x] = clock /\ clock > 0
    BY <1>1, <1>2 DEF Fill, TypeOK, OffInv
  <2>3. x \notin saved \cup closed
    BY <2>2 DEF OffInv
  <2>4. \A j \in Job : x \notin job[j].found
    <3>1. ASSUME NEW j \in Job, x \in job[j].found
          PROVE  FALSE
      <4>1. page.active /\ page.since > 0 /\ filled[x] >= page.since /\ page.since \in Nat
        BY <1>1, <3>1 DEF OffInv, RunsWhileOn, TypeOK
      <4> QED BY <2>2, <4>1
    <3> QED BY <3>1
  <2>5. RunsWhileOn'
    <3>1. ASSUME NEW j \in Job, NEW l \in job[j].found
          PROVE  filled'[l] = filled[l]
      BY <1>1, <2>1, <2>4, <3>1, JobsOK
    <3> QED BY <1>2, <3>1 DEF Fill, OffInv, RunsWhileOn
  <2>6. \A l \in saved' \cup closed' : filled'[l] > 0
    BY <1>1, <1>2, <2>1, <2>2 DEF Fill, OffInv, TypeOK
  <2>7. page.active => \A l \in closed' : filled'[l] < page.since
    BY <1>1, <1>2, <2>1, <2>3 DEF Fill, OffInv, TypeOK
  <2> QED BY <1>1, <1>2, <2>2, <2>3, <2>5, <2>6, <2>7 DEF Fill, OffInv
<1>3. ASSUME NEW x \in Lead, Drop(x) \/ Webhook(x)
      PROVE  OffInv'
  <2>1. RunsWhileOn'
    BY <1>3 DEF Drop, Webhook, OffInv, RunsWhileOn
  <2> QED BY <1>1, <1>3, <2>1 DEF Drop, Webhook, OffInv
<1>4. CASE Tick \/ StartTurnOn \/ RefuseTurnOn
  <2>1. RunsWhileOn'
    BY <1>4 DEF Tick, StartTurnOn, RefuseTurnOn, OffInv, RunsWhileOn
  <2>2. clock' > 0
    BY <1>1, <1>4 DEF Tick, StartTurnOn, RefuseTurnOn, OffInv, TypeOK
  <2> QED BY <1>1, <1>4, <2>1, <2>2 DEF Tick, StartTurnOn, RefuseTurnOn, OffInv, TypeOK
<1>5. CASE DayPasses \/ PauseEnds \/ PollTime \/ PageProblem \/ ClearPageProblem
  <2>1. /\ page'.active = page.active /\ page'.since = page.since
        /\ UNCHANGED <<clock, filled, saved, turning, closed, job>>
    BY <1>1, <1>5 DEF DayPasses, PauseEnds, PollTime, PageProblem, ClearPageProblem, TypeOK
  <2>2. RunsWhileOn'
    BY <2>1 DEF OffInv, RunsWhileOn
  <2> QED BY <1>1, <2>1, <2>2 DEF OffInv
<1>6. ASSUME NEW f \in Form, EnsureForm(f)
      PROVE  OffInv'
  <2>1. RunsWhileOn'
    BY <1>6 DEF EnsureForm, OffInv, RunsWhileOn
  <2> QED BY <1>1, <1>6, <2>1 DEF EnsureForm, OffInv
<1>7. CASE CommitTurnOn \/ TurnOff
  <2>1. \A j \in Job : job[j].pc = "idle"
    BY <1>7 DEF CommitTurnOn, TurnOff, Quiet
  <2>2. RunsWhileOn'
    BY <1>7, <2>1 DEF CommitTurnOn, TurnOff, OffInv, RunsWhileOn
  <2>3. CASE CommitTurnOn
    <3>1. /\ page'.active /\ page'.since = turning /\ turning > 0 /\ turning' = 0
          /\ closed' = {l \in closed : filled[l] < turning}
      BY <1>1, <2>3 DEF CommitTurnOn, SwitchedOn
    <3> QED BY <1>1, <2>2, <2>3, <3>1 DEF CommitTurnOn, OffInv
  <2>4. CASE TurnOff
    <3>1. ~page'.active /\ page'.since = page.since
      BY <1>1, <2>4 DEF TurnOff, TypeOK
    <3> QED BY <1>1, <2>2, <2>4, <3>1 DEF TurnOff, OffInv
  <2> QED BY <1>7, <2>3, <2>4
<1>8. ASSUME NEW j \in Job, StartPoll(j) \/ Works(j) \/ RefuseList(j) \/ RefuseForm(j) \/ Throws(j)
      PROVE  OffInv'
  BY <1>8, OffRunKeeps
<1>9. CASE Crash
  <2>1. \A j \in Job : job'[j].pc = "idle" /\ job'[j].found = {}
    BY <1>9 DEF Crash, NoJob
  <2>2. RunsWhileOn'
    BY <2>1 DEF RunsWhileOn
  <2> QED BY <1>1, <1>9, <2>2 DEF Crash, OffInv
<1>10. CASE UNCHANGED vars
  <2>1. RunsWhileOn'
    BY <1>10 DEF vars, OffInv, RunsWhileOn
  <2> QED BY <1>1, <1>10, <2>1 DEF vars, OffInv
<1> QED BY <1>2, <1>3, <1>4, <1>5, <1>6, <1>7, <1>8, <1>9, <1>10 DEF Next

(* As long as the owner switches the Page only between catch-ups, nothing    *)
(* from before it was switched on, or from while it was off, is brought in:  *)
(* whatever the webhooks, the catch-ups that run at once, the leads filled   *)
(* in between setPageOn's reading of the clock and its commit, the failures  *)
(* and the crashes.                                                          *)
THEOREM ClosedStaysOut ==
    ASSUME Overlapping = FALSE
    PROVE  Spec => []NothingFromWhileOff
<1>1. OffInv => NothingFromWhileOff
  BY DEF OffInv, NothingFromWhileOff
<1>2. Init => OffInv
  BY OffInit
<1>3. OffInv /\ [Next]_vars => OffInv'
  BY OffStep
<1> QED BY <1>1, <1>2, <1>3, PTL DEF Spec
=============================================================================
