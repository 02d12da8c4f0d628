-------------------------- MODULE LeadIntakeProofs --------------------------
(* Theorems about LeadIntake, for every number of businesses, leads, tasks,  *)
(* tries and upsets.                                                         *)
EXTENDS LeadIntake, FiniteSetTheorems, TLAPS

(* Where a job may be: one of an owner's, or of the catch-up's, knows its    *)
(* business; a job that deals with one lead knows which; a job about to mark *)
(* a Page knows with what.                                                   *)
LeadSteps == {"read", "look", "release", "write"}
PageSteps == {"pause", "mark", "park", "clear", "wake"}
AnyoneSteps == {"idle", "first", "again", "next"} \cup LeadSteps \cup PageSteps

WellPlaced(k) ==
    /\ k.job \notin {"none", "drain"} => k.biz \in Business
    /\ k.job \in {"none", "drain"} =>
          k.pc \in AnyoneSteps /\ (k.pc \in PageSteps => k.cur # None)
    /\ k.pc \in LeadSteps => k.cur # None
    /\ k.pc = "mark" => k.verdict \in PageProblems

TypeInv == TypeOK /\ \A t \in Task : WellPlaced(task[t])

-----------------------------------------------------------------------------
(* The operators a job's next state is made of keep it well formed.          *)

LEMMA NowIsANumber == Now \in Nat
<1>1. IsFiniteSet({l \in Lead : stamp[l] > 0})
  BY IntakeAssumption, FS_Subset DEF IntakeAssumption
<1> QED BY <1>1, FS_CardinalityType DEF Now

LEMMA ZeroOK == 0 \in 0..(MaxTries - 1)
BY IntakeAssumption DEF IntakeAssumption

LEMMA IdleOK == Idle \in TaskType /\ WellPlaced(Idle)
<1>1. Idle \in TaskType
  BY ZeroOK DEF Idle, TaskType, Jobs, Steps, Verdicts
<1>2. WellPlaced(Idle)
  BY DEF Idle, WellPlaced, AnyoneSteps, LeadSteps, PageSteps
<1> QED BY <1>1, <1>2

(* A lead's or a Page's step that a job with a lead in hand may go to. *)
LEMMA StepOK ==
    ASSUME NEW k \in TaskType, WellPlaced(k), k.cur # None,
           NEW pc \in (LeadSteps \cup PageSteps) \ {"mark"}
    PROVE  [k EXCEPT !.pc = pc] \in TaskType /\ WellPlaced([k EXCEPT !.pc = pc])
<1>1. [k EXCEPT !.pc = pc] \in TaskType
  BY DEF TaskType, Steps, Verdicts, LeadSteps, PageSteps
<1>2. WellPlaced([k EXCEPT !.pc = pc])
  BY DEF TaskType, WellPlaced, AnyoneSteps, LeadSteps, PageSteps
<1> QED BY <1>1, <1>2

LEMMA VerdictOK ==
    ASSUME NEW k \in TaskType, WellPlaced(k), k.cur # None,
           NEW pc \in LeadSteps \cup PageSteps,
           NEW verdict \in Verdicts,
           pc = "mark" => verdict \in PageProblems
    PROVE  /\ [k EXCEPT !.pc = pc, !.verdict = verdict] \in TaskType
           /\ WellPlaced([k EXCEPT !.pc = pc, !.verdict = verdict])
<1>1. [k EXCEPT !.pc = pc, !.verdict = verdict] \in TaskType
  BY DEF TaskType, Steps, Verdicts, LeadSteps, PageSteps
<1>2. WellPlaced([k EXCEPT !.pc = pc, !.verdict = verdict])
  BY DEF TaskType, WellPlaced, AnyoneSteps, LeadSteps, PageSteps
<1> QED BY <1>1, <1>2

LEMMA OnwardOK ==
    ASSUME NEW k \in TaskType, WellPlaced(k), NEW r
    PROVE  Onward(k, r) \in TaskType /\ WellPlaced(Onward(k, r))
<1> DEFINE rest == k.batch \ {r}
           pc == IF rest # {} THEN "next" ELSE IF CatchingUp(k) THEN "polled" ELSE "again"
           n == [k EXCEPT !.batch = rest, !.cur = None, !.tries = 0, !.sick = FALSE,
                          !.verdict = "none", !.pc = pc]
<1>1. rest \in SUBSET Row
  BY DEF TaskType
<1>2. /\ pc \in {"next", "again", "polled"}
      /\ k.job \in {"none", "drain"} => pc \in {"next", "again"}
  BY DEF CatchingUp
<1>3. Onward(k, r) = n
  BY DEF Onward
<1> HIDE DEF rest, pc
<1>4. n \in TaskType
  BY <1>1, <1>2, ZeroOK DEF TaskType, Steps, Verdicts
<1>5. WellPlaced(n)
  BY <1>1, <1>2 DEF TaskType, WellPlaced, AnyoneSteps, LeadSteps, PageSteps
<1> QED BY <1>3, <1>4, <1>5

LEMMA ParkedOK ==
    ASSUME NEW k \in TaskType, WellPlaced(k), NEW r \in Row,
           NEW problem \in ReadProblems
    PROVE  Parked(k, r, problem) \in TaskType /\ WellPlaced(Parked(k, r, problem))
<1> DEFINE n == [k EXCEPT !.cur = r]
<1>1. r # None
  BY IntakeAssumption DEF IntakeAssumption, Row
<1>2. n \in TaskType
  BY DEF TaskType
<1>3. WellPlaced(n)
  BY <1>1 DEF TaskType, WellPlaced, AnyoneSteps, LeadSteps, PageSteps
<1>4. n.cur # None
  BY <1>1 DEF TaskType
<1>5. Parked(k, r, problem) = IF rows[r].old
                              THEN [n EXCEPT !.pc = "release", !.verdict = "expired"]
                              ELSE [n EXCEPT !.pc = "mark", !.verdict = problem]
  BY DEF Parked, TaskType
<1>6. problem \in PageProblems
  BY DEF PageProblems
<1> HIDE DEF n
<1>7. CASE rows[r].old
  <2>1. "release" \in LeadSteps \cup PageSteps /\ "expired" \in Verdicts
    BY DEF LeadSteps, Verdicts
  <2>2. Parked(k, r, problem) = [n EXCEPT !.pc = "release", !.verdict = "expired"]
    BY <1>5, <1>7
  <2>3. /\ [n EXCEPT !.pc = "release", !.verdict = "expired"] \in TaskType
        /\ WellPlaced([n EXCEPT !.pc = "release", !.verdict = "expired"])
    BY <1>2, <1>3, <1>4, <2>1, VerdictOK
  <2> QED BY <2>2, <2>3
<1>8. CASE ~rows[r].old
  <2>1. "mark" \in LeadSteps \cup PageSteps /\ problem \in Verdicts
    BY <1>6 DEF PageSteps, Verdicts
  <2>2. Parked(k, r, problem) = [n EXCEPT !.pc = "mark", !.verdict = problem]
    BY <1>5, <1>8
  <2>3. /\ [n EXCEPT !.pc = "mark", !.verdict = problem] \in TaskType
        /\ WellPlaced([n EXCEPT !.pc = "mark", !.verdict = problem])
    BY <1>2, <1>3, <1>4, <1>6, <2>1, VerdictOK
  <2> QED BY <2>2, <2>3
<1> QED BY <1>7, <1>8

LEMMA RetriedOK ==
    ASSUME NEW k \in TaskType, WellPlaced(k), k.cur # None
    PROVE  Retried(k) \in TaskType /\ WellPlaced(Retried(k))
BY VerdictOK DEF Retried, LeadSteps, PageSteps, Verdicts

(* A job that starts, or starts over, for one business. *)
LEMMA FreshOK ==
    ASSUME NEW job \in {"turnOff", "disconnect", "turnOn", "catchUp", "health",
                        "checkHealth", "checkCatchUp", "checkDrain", "lapse", "test"},
           NEW b \in Business,
           NEW pc \in {"first", "list", "insert", "subscribe", "unsub", "health", "requeue"}
    PROVE  /\ [Idle EXCEPT !.job = job, !.biz = b, !.pc = pc] \in TaskType
           /\ WellPlaced([Idle EXCEPT !.job = job, !.biz = b, !.pc = pc])
<1> DEFINE n == [Idle EXCEPT !.job = job, !.biz = b, !.pc = pc]
<1>1. n \in TaskType
  BY ZeroOK DEF Idle, TaskType, Jobs, Steps, Verdicts
<1>2. WellPlaced(n)
  BY DEF Idle, WellPlaced, LeadSteps, PageSteps
<1> QED BY <1>1, <1>2

LEMMA CatchUpOverOK ==
    ASSUME NEW k \in TaskType, WellPlaced(k), k.job \notin {"none", "drain"}
    PROVE  CatchUpOver(k) \in TaskType /\ WellPlaced(CatchUpOver(k))
<1>1. k.biz \in Business
  BY DEF WellPlaced
<1> QED BY <1>1, FreshOK, IdleOK DEF CatchUpOver

LEMMA ContinueOK ==
    ASSUME NEW k \in TaskType, WellPlaced(k)
    PROVE  Continue(k) \in TaskType /\ WellPlaced(Continue(k))
<1>1. CASE k.cur # None
  BY <1>1, StepOK DEF Continue, LeadSteps, PageSteps
<1>2. CASE k.cur = None /\ k.job = "checkHealth"
  <2>1. k.biz \in Business
    BY <1>2 DEF WellPlaced
  <2>2. Continue(k) = [Idle EXCEPT !.job = "checkHealth", !.biz = k.biz, !.pc = "requeue"]
    BY <1>2 DEF Continue
  <2>3. /\ [Idle EXCEPT !.job = "checkHealth", !.biz = k.biz, !.pc = "requeue"] \in TaskType
        /\ WellPlaced([Idle EXCEPT !.job = "checkHealth", !.biz = k.biz, !.pc = "requeue"])
    BY <2>1, FreshOK
  <2> QED BY <2>2, <2>3
<1>3. CASE k.cur = None /\ k.job # "checkHealth" /\ CatchingUp(k)
  <2>1. CASE k.batch # {}
    <3> DEFINE n == [k EXCEPT !.pc = "save", !.verdict = "none"]
    <3>1. Continue(k) = n
      BY <1>3, <2>1 DEF Continue
    <3>2. n \in TaskType
      BY DEF TaskType, Steps, Verdicts
    <3>3. WellPlaced(n)
      BY <1>3 DEF CatchingUp, TaskType, WellPlaced, LeadSteps, PageSteps
    <3> QED BY <3>1, <3>2, <3>3
  <2>2. CASE k.batch = {}
    BY <1>3, <2>2, CatchUpOverOK DEF Continue, CatchingUp
  <2> QED BY <2>1, <2>2
<1>4. CASE k.cur = None /\ k.job # "checkHealth" /\ ~CatchingUp(k)
  BY <1>4, IdleOK DEF Continue
<1> QED BY <1>1, <1>2, <1>3, <1>4

(* From one of a Page's steps to another. *)
LEMMA PageStepOK ==
    ASSUME NEW k \in TaskType, WellPlaced(k), k.pc \in PageSteps, NEW pc \in PageSteps \ {"mark"}
    PROVE  [k EXCEPT !.pc = pc] \in TaskType /\ WellPlaced([k EXCEPT !.pc = pc])
<1>1. [k EXCEPT !.pc = pc] \in TaskType
  BY DEF TaskType, Steps, PageSteps
<1>2. WellPlaced([k EXCEPT !.pc = pc])
  BY DEF TaskType, WellPlaced, AnyoneSteps, LeadSteps, PageSteps
<1> QED BY <1>1, <1>2

(* The steps of a job of an owner's that is not at a lead. *)
LEMMA OwnersStepOK ==
    ASSUME NEW k \in TaskType, WellPlaced(k), k.job \notin {"none", "drain"},
           NEW pc \in Steps \ (LeadSteps \cup PageSteps)
    PROVE  [k EXCEPT !.pc = pc] \in TaskType /\ WellPlaced([k EXCEPT !.pc = pc])
<1>1. [k EXCEPT !.pc = pc] \in TaskType
  BY DEF TaskType
<1>2. WellPlaced([k EXCEPT !.pc = pc])
  BY DEF TaskType, WellPlaced, PageSteps
<1> QED BY <1>1, <1>2

LEMMA AfterClearOK ==
    ASSUME NEW k \in TaskType, WellPlaced(k)
    PROVE  AfterClear(k) \in TaskType /\ WellPlaced(AfterClear(k))
BY OnwardOK, ContinueOK DEF AfterClear

LEMMA AfterAnswerOK ==
    ASSUME NEW k \in TaskType, WellPlaced(k), k.cur \in Row, NEW answer
    PROVE  AfterAnswer(k, answer) \in TaskType /\ WellPlaced(AfterAnswer(k, answer))
<1>0. k.cur # None
  BY IntakeAssumption DEF IntakeAssumption, Row
<1>1. CASE answer = "ok"
  BY <1>0, <1>1, StepOK DEF AfterAnswer, LeadSteps
<1>2. CASE answer = "token"
  BY <1>2, ParkedOK DEF AfterAnswer, ReadProblems
<1>3. CASE answer \in {"rate_limit", "permission"}
  BY <1>0, <1>3, VerdictOK DEF AfterAnswer, LeadSteps, PageSteps, Verdicts
<1>4. CASE answer = "not_found" /\ k.tries + 1 > AmbiguousTries
  BY <1>0, <1>4, VerdictOK DEF AfterAnswer, LeadSteps, Verdicts
<1>5. CASE /\ answer \notin {"ok", "token", "rate_limit", "permission"}
           /\ ~(answer = "not_found" /\ k.tries + 1 > AmbiguousTries)
  <2>1. AfterAnswer(k, answer) = Retried(k)
    BY <1>5 DEF AfterAnswer
  <2> QED BY <1>0, <2>1, RetriedOK
<1> QED BY <1>1, <1>2, <1>3, <1>4, <1>5

(* The jobs' half of the invariant: every job is where it may be. *)
TaskInv == task \in [Task -> TaskType] /\ \A t \in Task : WellPlaced(task[t])

(* A job that goes on leaves the others where they are. *)
LEMMA GotoOK ==
    ASSUME TaskInv, NEW t \in Task, NEW k \in TaskType, WellPlaced(k), Goto(t, k)
    PROVE  TaskInv'
<1>1. task' = [task EXCEPT ![t] = k]
  BY DEF Goto
<1>2. \A u \in Task : task'[u] = IF u = t THEN k ELSE task[u]
  BY <1>1 DEF TaskInv
<1>3. task' \in [Task -> TaskType]
  BY <1>1 DEF TaskInv
<1>4. \A u \in Task : WellPlaced(task'[u])
  BY <1>2 DEF TaskInv
<1> QED BY <1>3, <1>4 DEF TaskInv

(* A started job, and a job on its way, is where it may be. *)
LEMMA StartsTaskOK ==
    ASSUME TypeInv, NEW t \in Task, Starts(t)
    PROVE  TaskInv'
<1> USE DEF TypeInv, TypeOK
<1>0. TaskInv
  BY DEF TaskInv
<1>1. CASE StartDrain(t)
  <2> DEFINE n == [Idle EXCEPT !.job = "drain", !.pc = "first"]
  <2>1. n \in TaskType
    BY ZeroOK DEF Idle, TaskType, Jobs, Steps, Verdicts
  <2>2. WellPlaced(n)
    BY DEF Idle, WellPlaced, AnyoneSteps, LeadSteps, PageSteps
  <2> QED BY <1>0, <1>1, <2>1, <2>2, GotoOK DEF StartDrain
<1>2. ASSUME NEW b \in Business, StartCatchUp(t, b) PROVE TaskInv'
  <2> DEFINE n == [Idle EXCEPT !.job = "catchUp", !.biz = b, !.pc = "list", !.mark = pages[b].since]
  <2>1. n \in TaskType
    BY ZeroOK DEF Idle, TaskType, Jobs, Steps, Verdicts, PageType
  <2>2. WellPlaced(n)
    BY DEF Idle, WellPlaced, LeadSteps, PageSteps
  <2> QED BY <1>0, <1>2, <2>1, <2>2, GotoOK DEF StartCatchUp
<1>3. ASSUME NEW b \in Business, StartTurnOn(t, b) PROVE TaskInv'
  <2> DEFINE k == [Idle EXCEPT !.job = "turnOn", !.biz = b, !.mark = Now]
             waits == {r \in Row : rows[r].status = "absent"}
             m == [k EXCEPT !.pc = "subscribe"]
             n(o) == [k EXCEPT !.pc = "first", !.other = o, !.skip = waits]
  <2>1. Now \in Nat
    BY NowIsANumber
  <2> HIDE DEF Now
  <2>2. m \in TaskType /\ \A o \in Business : n(o) \in TaskType
    BY <2>1, ZeroOK DEF Idle, TaskType, Jobs, Steps, Verdicts
  <2>3. WellPlaced(m) /\ \A o \in Business : WellPlaced(n(o))
    BY DEF Idle, WellPlaced, LeadSteps, PageSteps
  <2>4. Goto(t, m) \/ \E o \in Business : Goto(t, n(o))
    BY <1>3 DEF StartTurnOn, ActiveBusinesses
  <2> HIDE DEF m, n
  <2> QED BY <1>0, <2>2, <2>3, <2>4, GotoOK
<1>4. ASSUME NEW b \in Business, StartTurnOff(t, b) PROVE TaskInv'
  <2> DEFINE waits == {r \in Row : rows[r].status = "absent"}
             n(job) == [Idle EXCEPT !.job = job, !.biz = b, !.pc = "first", !.skip = waits]
  <2>1. \A job \in {"turnOff", "disconnect"} : n(job) \in TaskType
    BY ZeroOK DEF Idle, TaskType, Jobs, Steps, Verdicts
  <2>2. \A job \in {"turnOff", "disconnect"} : WellPlaced(n(job))
    BY DEF Idle, WellPlaced, LeadSteps, PageSteps
  <2>3. \E job \in {"turnOff", "disconnect"} : Goto(t, n(job))
    BY <1>4 DEF StartTurnOff
  <2> HIDE DEF n
  <2> QED BY <1>0, <2>1, <2>2, <2>3, GotoOK
<1>5. ASSUME NEW b \in Business, StartHealth(t, b) PROVE TaskInv'
  <2> DEFINE sick == pages[b].status \in PageProblems
             k(job) == [Idle EXCEPT !.job = job, !.biz = b, !.sick = sick]
             m(job) == [k(job) EXCEPT !.pc = "health"]
             n(job) == [k(job) EXCEPT !.pc = "mark", !.verdict = "needs_reconnect"]
  <2>1. sick \in BOOLEAN
    OBVIOUS
  <2> HIDE DEF sick
  <2>2. ASSUME NEW job \in {"health", "checkHealth"}
        PROVE  m(job) \in TaskType /\ n(job) \in TaskType
    <3>1. job \in Jobs
      BY DEF Jobs
    <3>2. {"health", "mark"} \subseteq Steps /\ "needs_reconnect" \in Verdicts
      BY DEF Steps, Verdicts, PageProblems, ReadProblems
    <3>3. k(job) \in TaskType
      BY <2>1, <3>1, IdleOK DEF TaskType
    <3> HIDE DEF k
    <3> QED BY <3>2, <3>3 DEF TaskType
  <2>3. \A job \in {"health", "checkHealth"} : WellPlaced(m(job)) /\ WellPlaced(n(job))
    BY DEF Idle, WellPlaced, LeadSteps, PageSteps, PageProblems, ReadProblems
  <2>4. \E job \in {"health", "checkHealth"} : Goto(t, m(job)) \/ Goto(t, n(job))
    BY <1>5 DEF StartHealth, sick
  <2> HIDE DEF m, n
  <2> QED BY <1>0, <2>2, <2>3, <2>4, GotoOK
<1>6. ASSUME NEW b \in Business, StartLapse(t, b) PROVE TaskInv'
  <2>1. "lapse" \in {"turnOff", "disconnect", "turnOn", "catchUp", "health",
                     "checkHealth", "checkCatchUp", "checkDrain", "lapse", "test"}
    OBVIOUS
  <2>2. /\ [Idle EXCEPT !.job = "lapse", !.biz = b, !.pc = "unsub"] \in TaskType
        /\ WellPlaced([Idle EXCEPT !.job = "lapse", !.biz = b, !.pc = "unsub"])
    BY <2>1, FreshOK
  <2> QED BY <1>0, <1>6, <2>2, GotoOK DEF StartLapse
<1> QED BY <1>1, <1>2, <1>3, <1>4, <1>5, <1>6 DEF Starts

LEMMA WorksTaskOK ==
    ASSUME TypeInv, NEW t \in Task, Works(t)
    PROVE  TaskInv'
<1> DEFINE k == task[t]
<1>0. TaskInv /\ k \in TaskType /\ WellPlaced(k)
  BY DEF TypeInv, TypeOK, TaskInv
<1>k. k.cur # None => k.cur \in Row
  BY <1>0 DEF TaskType
<1>b. k.job \notin {"none", "drain"} => k.biz \in Business
  BY <1>0 DEF WellPlaced
<1>i. Goto(t, Idle) => TaskInv'
  BY <1>0, IdleOK, GotoOK
<1>c. Goto(t, Continue(k)) => TaskInv'
  BY <1>0, ContinueOK, GotoOK
<1>o. ASSUME NEW r, Goto(t, Onward(k, r)) PROVE TaskInv'
  BY <1>0, <1>o, OnwardOK, GotoOK
<1>y. k.cur # None => (Goto(t, Retried(k)) => TaskInv')
  BY <1>0, RetriedOK, GotoOK
<1>p. ASSUME NEW problem \in ReadProblems, k.cur # None, Goto(t, Parked(k, k.cur, problem))
      PROVE  TaskInv'
  BY <1>0, <1>k, <1>p, ParkedOK, GotoOK
<1>u. k.job \notin {"none", "drain"} /\ Goto(t, CatchUpOver(k)) => TaskInv'
  BY <1>0, CatchUpOverOK, GotoOK
<1> HIDE DEF k
<1>1. CASE Claim(t)
  <2> PICK S \in SUBSET Claimable(k) :
        Goto(t, [k EXCEPT !.pc = "next", !.batch = S, !.skip = @ \cup S])
    BY <1>1 DEF Claim, k
  <2> DEFINE n == [k EXCEPT !.pc = "next", !.batch = S, !.skip = @ \cup S]
  <2>1. S \in SUBSET Row
    BY DEF Claimable
  <2>2. k.skip \cup S \in SUBSET Row
    BY <1>0, <2>1 DEF TaskType
  <2>3. n \in TaskType
    BY <1>0, <2>1, <2>2 DEF TaskType, Steps
  <2>4. WellPlaced(n)
    BY <1>0 DEF TaskType, WellPlaced, AnyoneSteps, LeadSteps, PageSteps
  <2> QED BY <1>0, <2>3, <2>4, GotoOK
<1>2. CASE DrainEnds(t)
  <2>1. CASE k.job \in {"turnOff", "disconnect", "turnOn"}
    <3> DEFINE pc == IF k.job = "turnOn" THEN "subscribe" ELSE "unsub"
               n == [k EXCEPT !.pc = pc, !.skip = {}]
    <3>1. Goto(t, n)
      BY <1>2, <2>1 DEF DrainEnds, k
    <3>2. pc \in Steps /\ pc \notin LeadSteps \cup PageSteps
      BY DEF Steps, LeadSteps, PageSteps
    <3> HIDE DEF pc
    <3>3. n \in TaskType
      BY <1>0, <3>2 DEF TaskType
    <3>4. WellPlaced(n)
      BY <1>0, <2>1, <3>2 DEF TaskType, WellPlaced, PageSteps
    <3> QED BY <1>0, <3>1, <3>3, <3>4, GotoOK
  <2>2. CASE k.job \notin {"turnOff", "disconnect", "turnOn"}
    BY <1>2, <1>i, <2>2 DEF DrainEnds, k
  <2> QED BY <2>1, <2>2
<1>3. ASSUME NEW r \in Row, Begin(t, r) PROVE TaskInv'
  <2>1. CASE Goto(t, Onward(k, r))
    BY <1>o, <2>1
  <2> DEFINE sick == pages[r[1]].status \in ReadProblems
             seen == [k EXCEPT !.cur = r, !.tries = rows[r].attempts, !.sick = sick]
             pc == IF CatchingUp(k) THEN "write" ELSE "read"
  <2>r. r # None
    BY IntakeAssumption DEF IntakeAssumption, Row
  <2>s. sick \in BOOLEAN
    OBVIOUS
  <2>t. rows[r].attempts \in 0..(MaxTries - 1)
    BY DEF TypeInv, TypeOK, RowType
  <2> HIDE DEF sick
  <2>2. seen \in TaskType
    BY <1>0, <2>s, <2>t DEF TaskType
  <2>3. k.pc = "next"
    BY <1>3 DEF Begin, k
  <2>4. WellPlaced(seen) /\ seen.cur # None
    BY <1>0, <2>r, <2>3 DEF TaskType, WellPlaced, LeadSteps, PageSteps
  <2>5. CASE Goto(t, Parked(seen, r, "needs_reconnect"))
    <3>1. "needs_reconnect" \in ReadProblems
      BY DEF ReadProblems
    <3>2. /\ Parked(seen, r, "needs_reconnect") \in TaskType
          /\ WellPlaced(Parked(seen, r, "needs_reconnect"))
      BY <2>2, <2>4, <3>1, ParkedOK
    <3> QED BY <1>0, <2>5, <3>2, GotoOK
  <2>6. CASE Goto(t, [seen EXCEPT !.pc = pc])
    <3>1. pc \in (LeadSteps \cup PageSteps) \ {"mark"}
      BY DEF LeadSteps
    <3> HIDE DEF seen, pc
    <3>2. [seen EXCEPT !.pc = pc] \in TaskType /\ WellPlaced([seen EXCEPT !.pc = pc])
      BY <2>2, <2>4, <3>1, StepOK
    <3> QED BY <1>0, <2>6, <3>2, GotoOK
  <2> QED BY <1>3, <2>1, <2>5, <2>6 DEF Begin, k, sick
<1>4. CASE Read(t)
  <2>1. k.cur # None
    BY <1>0, <1>4 DEF Read, WellPlaced, LeadSteps, k
  <2> PICK answer \in Answers : Goto(t, AfterAnswer(k, answer))
    BY <1>4 DEF Read, k
  <2> QED BY <1>0, <1>k, <2>1, AfterAnswerOK, GotoOK
<1>5. CASE Look(t)
  <2>1. k.cur # None
    BY <1>0, <1>5 DEF Look, WellPlaced, LeadSteps, k
  <2>2. \/ \E problem \in ReadProblems : Goto(t, Parked(k, k.cur, problem))
        \/ Goto(t, [k EXCEPT !.pc = "release", !.verdict = "skip"])
        \/ Goto(t, Retried(k))
    BY <1>5 DEF Look, ReadProblems, k
  <2>3. CASE Goto(t, [k EXCEPT !.pc = "release", !.verdict = "skip"])
    <3>1. "release" \in LeadSteps \cup PageSteps /\ "skip" \in Verdicts
      BY DEF LeadSteps, Verdicts
    <3>2. /\ [k EXCEPT !.pc = "release", !.verdict = "skip"] \in TaskType
          /\ WellPlaced([k EXCEPT !.pc = "release", !.verdict = "skip"])
      BY <1>0, <2>1, <3>1, VerdictOK
    <3> QED BY <1>0, <2>3, <3>2, GotoOK
  <2> QED BY <1>p, <1>y, <2>1, <2>2, <2>3
<1>6. CASE Pause(t)
  BY <1>c, <1>6 DEF Pause, k
<1>7. CASE Mark(t)
  <2> DEFINE n == [k EXCEPT !.pc = "park"]
  <2>1. Goto(t, n) \/ Goto(t, Continue(k))
    BY <1>7 DEF Mark, k
  <2>2. k.pc \in PageSteps /\ "park" \in PageSteps \ {"mark"}
    BY <1>7 DEF Mark, PageSteps, k
  <2>3. n \in TaskType /\ WellPlaced(n)
    BY <1>0, <2>2, PageStepOK
  <2> QED BY <1>0, <1>c, <2>1, <2>3, GotoOK
<1>8. CASE Release(t)
  BY <1>o, <1>8 DEF Release, k
<1>9. CASE Write(t)
  <2>1. k.cur # None
    BY <1>0, <1>9 DEF Write, WellPlaced, LeadSteps, k
  <2>2. "clear" \in (LeadSteps \cup PageSteps) \ {"mark"}
    BY DEF PageSteps
  <2>3. [k EXCEPT !.pc = "clear"] \in TaskType /\ WellPlaced([k EXCEPT !.pc = "clear"])
    BY <1>0, <2>1, <2>2, StepOK
  <2>4. Goto(t, Onward(k, k.cur)) \/ Goto(t, [k EXCEPT !.pc = "clear"]) \/ Goto(t, Retried(k))
    BY <1>9 DEF Write, k
  <2> QED BY <1>0, <1>o, <1>y, <2>1, <2>3, <2>4, GotoOK
<1>10. CASE Clear(t)
  <2> DEFINE n == [k EXCEPT !.pc = "wake"]
  <2>1. Goto(t, n) \/ Goto(t, AfterClear(k))
    BY <1>10 DEF Clear, k
  <2>2. k.pc \in PageSteps /\ "wake" \in PageSteps \ {"mark"}
    BY <1>10 DEF Clear, PageSteps, k
  <2>3. n \in TaskType /\ WellPlaced(n)
    BY <1>0, <2>2, PageStepOK
  <2> QED BY <1>0, <2>1, <2>3, AfterClearOK, GotoOK
<1>11. CASE ListLeads(t)
  <2> PICK S \in SUBSET Lead :
        LET found == [k EXCEPT !.batch = {k.biz} \X S] IN
        \/ Goto(t, Continue(found))
        \/ Goto(t, [found EXCEPT !.pc = "pause"])
        \/ \E problem \in Troubles : Goto(t, [found EXCEPT !.pc = "mark", !.verdict = problem])
    BY <1>11 DEF ListLeads, k
  <2> DEFINE leads == {k.biz} \X S
             found == [k EXCEPT !.batch = leads]
  <2>1. k.job \notin {"none", "drain"} /\ k.pc = "list"
    BY <1>0, <1>11 DEF ListLeads, WellPlaced, AnyoneSteps, LeadSteps, PageSteps, k
  <2>2. leads \in SUBSET Row
    BY <1>b, <2>1 DEF Row
  <2> HIDE DEF leads
  <2>3. found \in TaskType
    BY <1>0, <2>2 DEF TaskType
  <2>4. WellPlaced(found)
    BY <1>0, <2>1 DEF TaskType, WellPlaced, LeadSteps, PageSteps
  <2>5. CASE Goto(t, Continue(found))
    BY <1>0, <2>3, <2>4, <2>5, ContinueOK, GotoOK
  <2>6. CASE Goto(t, [found EXCEPT !.pc = "pause"])
    <3> DEFINE n == [found EXCEPT !.pc = "pause"]
    <3>1. n \in TaskType
      BY <2>3 DEF TaskType, Steps
    <3>2. WellPlaced(n)
      BY <1>0, <1>b, <2>1 DEF TaskType, WellPlaced, LeadSteps, PageSteps
    <3> QED BY <1>0, <2>6, <3>1, <3>2, GotoOK
  <2>7. ASSUME NEW problem \in Troubles, Goto(t, [found EXCEPT !.pc = "mark", !.verdict = problem])
        PROVE  TaskInv'
    <3> DEFINE n == [found EXCEPT !.pc = "mark", !.verdict = problem]
    <3>1. problem \in PageProblems
      BY DEF Troubles, PageProblems, ReadProblems
    <3>2. n \in TaskType
      BY <2>3, <3>1 DEF TaskType, Steps, Verdicts
    <3>3. WellPlaced(n)
      BY <1>0, <1>b, <2>1, <3>1 DEF TaskType, WellPlaced, LeadSteps, PageSteps
    <3> QED BY <1>0, <2>7, <3>2, <3>3, GotoOK
  <2> QED BY <2>5, <2>6, <2>7 DEF leads
<1>12. CASE SaveFound(t)
  <2> DEFINE new == {r \in k.batch : rows[r].status = "absent"}
             n == [k EXCEPT !.pc = "next", !.batch = new]
  <2>1. k.job \notin {"none", "drain"}
    BY <1>0, <1>12 DEF SaveFound, WellPlaced, AnyoneSteps, LeadSteps, PageSteps, k
  <2>2. new \in SUBSET Row
    BY <1>0 DEF TaskType
  <2>3. Goto(t, CatchUpOver(k)) \/ Goto(t, n)
    BY <1>12 DEF SaveFound, k
  <2> HIDE DEF new
  <2>4. n \in TaskType
    BY <1>0, <2>2 DEF TaskType, Steps
  <2>5. WellPlaced(n)
    BY <1>0, <1>b, <2>1 DEF TaskType, WellPlaced, LeadSteps, PageSteps
  <2> QED BY <1>0, <1>u, <2>1, <2>3, <2>4, <2>5, GotoOK
<1>13. CASE Polled(t)
  <2> DEFINE n == [k EXCEPT !.pc = "mark", !.verdict = "not_subscribed"]
  <2>1. k.job \notin {"none", "drain"}
    BY <1>0, <1>13 DEF Polled, WellPlaced, AnyoneSteps, LeadSteps, PageSteps, k
  <2>2. Goto(t, CatchUpOver(k)) \/ Goto(t, n)
    BY <1>13 DEF Polled, k
  <2>3. n \in TaskType
    BY <1>0 DEF TaskType, Steps, Verdicts, PageProblems
  <2>4. WellPlaced(n)
    BY <1>0, <1>b, <2>1 DEF TaskType, WellPlaced, LeadSteps, PageSteps, PageProblems
  <2> QED BY <1>0, <1>u, <2>1, <2>2, <2>3, <2>4, GotoOK
<1>14. CASE Subscribe(t)
  <2> DEFINE n == [k EXCEPT !.pc = "commit"]
  <2>1. k.job \notin {"none", "drain"}
    BY <1>0, <1>14 DEF Subscribe, WellPlaced, AnyoneSteps, LeadSteps, PageSteps, k
  <2>2. Goto(t, Idle) \/ Goto(t, n)
    BY <1>14 DEF Subscribe, k
  <2>3. n \in TaskType
    BY <1>0 DEF TaskType, Steps
  <2>4. WellPlaced(n)
    BY <1>0, <1>b, <2>1 DEF TaskType, WellPlaced, LeadSteps, PageSteps
  <2> QED BY <1>0, <1>i, <2>2, <2>3, <2>4, GotoOK
<1>15. CASE Unsubscribe(t) \/ StopEvents(t)
  <2>1. k.job \notin {"none", "drain"}
    BY <1>0, <1>15 DEF Unsubscribe, StopEvents, WellPlaced, AnyoneSteps, LeadSteps, PageSteps, k
  <2>2. PICK pc \in {"stop", "commit"} : Goto(t, [k EXCEPT !.pc = pc])
    BY <1>15 DEF Unsubscribe, StopEvents, k
  <2>3. pc \in Steps \ (LeadSteps \cup PageSteps)
    BY DEF Steps, LeadSteps, PageSteps
  <2>4. [k EXCEPT !.pc = pc] \in TaskType /\ WellPlaced([k EXCEPT !.pc = pc])
    BY <1>0, <2>1, <2>3, OwnersStepOK
  <2> QED BY <1>0, <2>2, <2>4, GotoOK
<1>16. CASE HealthAnswer(t)
  <2> DEFINE m(problem) == [k EXCEPT !.pc = "mark", !.verdict = problem]
             n(pc) == [k EXCEPT !.pc = pc]
  <2>1. k.job \notin {"none", "drain"}
    BY <1>0, <1>16 DEF HealthAnswer, WellPlaced, AnyoneSteps, LeadSteps, PageSteps, k
  <2>2. \/ \E problem \in PageProblems : Goto(t, m(problem))
        \/ \E pc \in {"clear", "pause"} : Goto(t, n(pc))
        \/ Goto(t, Continue(k))
    BY <1>16 DEF HealthAnswer, Troubles, PageProblems, ReadProblems, k
  <2>3. \A problem \in PageProblems : m(problem) \in TaskType
    BY <1>0 DEF TaskType, Steps, Verdicts
  <2>4. \A problem \in PageProblems : WellPlaced(m(problem))
    BY <1>0, <1>b, <2>1 DEF TaskType, WellPlaced, LeadSteps, PageSteps
  <2>5. \A pc \in {"clear", "pause"} : n(pc) \in TaskType
    BY <1>0 DEF TaskType, Steps
  <2>6. \A pc \in {"clear", "pause"} : WellPlaced(n(pc))
    BY <1>0, <1>b, <2>1 DEF TaskType, WellPlaced, LeadSteps, PageSteps
  <2> HIDE DEF m, n
  <2> QED BY <1>0, <1>c, <2>2, <2>3, <2>4, <2>5, <2>6, GotoOK
<1>17. CASE Reload(t)
  <2> DEFINE m == [Idle EXCEPT !.job = "checkCatchUp", !.biz = k.biz, !.pc = "list",
                               !.mark = pages[k.biz].since]
             n == [Idle EXCEPT !.job = "checkDrain", !.biz = k.biz, !.pc = "first"]
  <2>1. k.biz \in Business
    BY <1>0, <1>17 DEF Reload, WellPlaced, AnyoneSteps, LeadSteps, PageSteps, k
  <2>2. pages[k.biz].since \in Nat
    BY <2>1 DEF TypeInv, TypeOK, PageType
  <2>3. Goto(t, m) \/ Goto(t, n)
    BY <1>17 DEF Reload, k
  <2>4. m \in TaskType
    BY <2>1, <2>2, ZeroOK DEF Idle, TaskType, Jobs, Steps, Verdicts
  <2>5. WellPlaced(m)
    BY <2>1 DEF Idle, WellPlaced, LeadSteps, PageSteps
  <2>6. n \in TaskType
    BY <2>1, ZeroOK DEF Idle, TaskType, Jobs, Steps, Verdicts
  <2>7. WellPlaced(n)
    BY <2>1 DEF Idle, WellPlaced, LeadSteps, PageSteps
  <2> QED BY <1>0, <2>3, <2>4, <2>5, <2>6, <2>7, GotoOK
<1>18. CASE LapsePagesOff(t)
  <2> DEFINE n == [k EXCEPT !.pc = "leftovers"]
  <2>1. k.job = "lapse" /\ Goto(t, n)
    BY <1>18 DEF LapsePagesOff, k
  <2>2. n \in TaskType
    BY <1>0 DEF TaskType, Steps
  <2>3. WellPlaced(n)
    BY <1>0, <1>b, <2>1 DEF TaskType, WellPlaced, LeadSteps, PageSteps
  <2> QED BY <1>0, <2>1, <2>2, <2>3, GotoOK
<1>19. CASE InsertTestLead(t) \/ CommitTurnOn(t) \/ CommitTurnOff(t) \/ LapseLeftovers(t)
  BY <1>i, <1>19 DEF InsertTestLead, CommitTurnOn, CommitTurnOff, LapseLeftovers
<1>20. CASE Park(t)
  BY <1>c, <1>20 DEF Park, k
<1>21. CASE ClearThrows(t)
  BY <1>y, <1>21 DEF ClearThrows, k
<1>22. CASE Wake(t)
  BY <1>0, <1>22, AfterClearOK, GotoOK DEF Wake, k
<1>23. CASE Requeue(t) \/ Hasten(t)
  <2>1. k.job \notin {"none", "drain"}
    BY <1>0, <1>23 DEF Requeue, Hasten, WellPlaced, AnyoneSteps, LeadSteps, PageSteps, k
  <2>2. PICK pc \in {"hasten", "reload"} : Goto(t, [k EXCEPT !.pc = pc])
    BY <1>23 DEF Requeue, Hasten, k
  <2>3. pc \in Steps \ (LeadSteps \cup PageSteps)
    BY DEF Steps, LeadSteps, PageSteps
  <2>4. [k EXCEPT !.pc = pc] \in TaskType /\ WellPlaced([k EXCEPT !.pc = pc])
    BY <1>0, <2>1, <2>3, OwnersStepOK
  <2> QED BY <1>0, <2>2, <2>4, GotoOK
<1> QED BY <1>1, <1>2, <1>3, <1>4, <1>5, <1>6, <1>7, <1>8, <1>9, <1>10, <1>11, <1>12,
           <1>13, <1>14, <1>15, <1>16, <1>17, <1>18, <1>19, <1>20, <1>21, <1>22, <1>23 DEF Works

-----------------------------------------------------------------------------
(* The tables' half of the type invariant.                                   *)

LEMMA NoRowOK == NoRow \in RowType
<1>1. "absent" \in RowStatus
  BY DEF RowStatus
<1> QED BY <1>1, ZeroOK DEF NoRow, RowType

LEMMA SettledOK ==
    ASSUME NEW row \in RowType, NEW status \in RowStatus
    PROVE  Settled(row, status) \in RowType
<1>1. NoRow \in RowType /\ row.old \in BOOLEAN /\ row.test \in BOOLEAN
  BY NoRowOK DEF RowType
<1> QED BY <1>1 DEF Settled, RowType

LEMMA QueuedOK ==
    ASSUME NEW isTest \in BOOLEAN
    PROVE  Queued(isTest) \in RowType
<1>1. "queued" \in RowStatus
  BY DEF RowStatus
<1> QED BY <1>1, NoRowOK DEF Queued, RowType

LEMMA AfterTryOK ==
    ASSUME NEW row \in RowType, NEW verdict, NEW tries \in 0..(MaxTries - 1)
    PROVE  AfterTry(row, verdict, tries) \in RowType
<1>1. {"out_of_tries", "skipped", "expired"} \subseteq RowStatus
  BY DEF RowStatus, NotBroughtIn
<1>2. CASE verdict \in {"skip", "expired"}
  BY <1>1, <1>2, SettledOK DEF AfterTry
<1>3. CASE verdict = "retry" /\ OutOfTries(tries)
  BY <1>1, <1>3, SettledOK DEF AfterTry
<1>4. CASE verdict = "retry" /\ ~OutOfTries(tries)
  <2>1. tries + 1 \in 0..(MaxTries - 1)
    BY <1>4, IntakeAssumption DEF OutOfTries, IntakeAssumption
  <2> QED BY <1>4, <2>1 DEF AfterTry, Freed, RowType
<1>5. CASE verdict \notin {"skip", "expired", "retry"}
  BY <1>5 DEF AfterTry, Freed, RowType
<1> QED BY <1>2, <1>3, <1>4, <1>5

LEMMA FailLeftoversOK ==
    ASSUME rows \in [Row -> RowType], NEW b
    PROVE  FailLeftovers(b) \in [Row -> RowType]
<1>1. "page_off" \in RowStatus
  BY DEF RowStatus, NotBroughtIn
<1> QED BY <1>1, SettledOK DEF FailLeftovers, UpdateQueued

LEMMA MakeDueOK ==
    ASSUME rows \in [Row -> RowType], NEW b, NEW isDue \in BOOLEAN
    PROVE  MakeDue(b, isDue) \in [Row -> RowType]
<1>1. \A row \in RowType : [row EXCEPT !.due = isDue] \in RowType
  BY DEF RowType
<1> QED BY <1>1 DEF MakeDue, UpdateQueued

LEMMA OffOK ==
    ASSUME NEW p \in PageType
    PROVE  Off(p) \in PageType
BY DEF Off, PageType, PageStatus

DataInv ==
    /\ pages \in [Business -> PageType]
    /\ rows \in [Row -> RowType]
    /\ made \in [Row -> Nat]
    /\ stamp \in [Lead -> Nat]
    /\ probed \subseteq Business
    /\ conn \in [Business -> {"none", "ok", "revoked"}]
    /\ subscribed \in BOOLEAN
    /\ expired \subseteq Business
    /\ upsets \in 0..MaxUpsets

LEMMA UpsetOK == ASSUME DataInv, Upset PROVE upsets' \in 0..MaxUpsets
BY IntakeAssumption DEF DataInv, Upset, IntakeAssumption

LEMMA StartsDataOK ==
    ASSUME DataInv, NEW t \in Task, Starts(t)
    PROVE  DataInv'
BY DEF DataInv, Starts, StartDrain, StartCatchUp, StartTurnOn, StartTurnOff, StartHealth, StartLapse

LEMMA ArrivalsDataOK ==
    ASSUME DataInv, Arrivals
    PROVE  DataInv'
<1>1. ASSUME NEW l \in Lead, FillLead(l) PROVE DataInv'
  <2>1. Now + 1 \in Nat
    BY NowIsANumber
  <2> QED BY <1>1, <2>1 DEF DataInv, FillLead
<1>2. ASSUME NEW l \in Lead, Webhook(l) PROVE DataInv'
  <2>1. rows' \in [Row -> RowType]
    BY <1>2, QueuedOK DEF Webhook, DataInv
  <2> QED BY <1>2, <2>1 DEF DataInv, Webhook
<1>3. ASSUME NEW l \in Lead, NEW t \in Task, NEW b \in Business, StartTestLead(t, b, l)
      PROVE  DataInv'
  <2>1. Now + 1 \in Nat
    BY NowIsANumber
  <2> QED BY <1>3, <2>1 DEF DataInv, StartTestLead
<1> QED BY <1>1, <1>2, <1>3 DEF Arrivals

LEMMA WorksDataOK ==
    ASSUME TypeInv, NEW t \in Task, Works(t)
    PROVE  DataInv'
<1> DEFINE k == task[t]
<1>0. DataInv /\ k \in TaskType /\ WellPlaced(k)
  BY DEF TypeInv, TypeOK, DataInv
<1>k. k.cur # None => k.cur \in Row
  BY <1>0 DEF TaskType
<1>b. k.job \notin {"none", "drain"} => k.biz \in Business
  BY <1>0 DEF WellPlaced
<1>p. k.pc \in PageSteps => PageOf(k) \in Business
  BY <1>0, <1>k, <1>b DEF WellPlaced, PageOf, Row
<1>l. k.pc \in LeadSteps => k.cur \in Row
  BY <1>0, <1>k DEF WellPlaced
<1>r. \A r \in Row : rows[r] \in RowType
  BY <1>0 DEF DataInv
<1> HIDE DEF k
<1>1. CASE Claim(t)
  <2> PICK S \in SUBSET Claimable(k) :
        rows' = [r \in Row |-> IF r \in S THEN [rows[r] EXCEPT !.claim = t, !.lapsed = FALSE]
                                           ELSE rows[r]]
    BY <1>1 DEF Claim, k
  <2>1. \A r \in Row : [rows[r] EXCEPT !.claim = t, !.lapsed = FALSE] \in RowType
    BY <1>r DEF RowType
  <2>2. rows' \in [Row -> RowType]
    BY <1>r, <2>1
  <2> QED BY <1>0, <1>1, <2>2 DEF DataInv, Claim
<1>2. CASE DrainEnds(t) \/ Read(t) \/ Look(t) \/ ListLeads(t)
  BY <1>0, <1>2 DEF DataInv, DrainEnds, Read, Look, ListLeads
<1>3. ASSUME NEW r \in Row, Begin(t, r) PROVE DataInv'
  <2>1. Freed(rows[r]) \in RowType
    BY <1>r DEF Freed, RowType
  <2>2. rows' \in [Row -> RowType]
    BY <1>0, <1>3, <2>1 DEF DataInv, Begin
  <2>3. probed' \subseteq Business
    BY <1>0, <1>3 DEF DataInv, Begin, Row
  <2> QED BY <1>0, <1>3, <2>2, <2>3 DEF DataInv, Begin
<1>4. CASE Pause(t)
  <2>1. PageOf(k) \in Business
    BY <1>4, <1>p DEF Pause, PageSteps, k
  <2>2. pages' = [pages EXCEPT ![PageOf(k)].paused = TRUE]
    BY <1>4 DEF Pause, k
  <2>3. pages' \in [Business -> PageType]
    BY <1>0, <2>1, <2>2 DEF DataInv, PageType
  <2> QED BY <1>0, <1>4, <2>3 DEF DataInv, Pause
<1>5. CASE Mark(t)
  <2>1. PageOf(k) \in Business /\ k.verdict \in PageStatus
    BY <1>0, <1>5, <1>p DEF Mark, PageSteps, PageStatus, WellPlaced, k
  <2>2. pages' = IF pages[PageOf(k)].active THEN [pages EXCEPT ![PageOf(k)].status = k.verdict]
                 ELSE pages
    BY <1>5 DEF Mark, k
  <2>3. pages' \in [Business -> PageType]
    BY <1>0, <2>1, <2>2 DEF DataInv, PageType
  <2> QED BY <1>0, <1>5, <2>3 DEF DataInv, Mark
<1>6. CASE Release(t)
  <2>1. rows' = IF Held(t, k.cur) THEN [rows EXCEPT ![k.cur] = AfterTry(@, k.verdict, k.tries)] ELSE rows
    BY <1>6 DEF Release, k
  <2>t. k.tries \in 0..(MaxTries - 1)
    BY <1>0 DEF TaskType
  <2>2. rows' \in [Row -> RowType]
    BY <1>0, <1>r, <2>1, <2>t, AfterTryOK DEF DataInv
  <2> QED BY <1>0, <1>6, <2>2 DEF DataInv, Release
<1>7. CASE Write(t)
  <2>1. k.cur \in Row
    BY <1>7, <1>l DEF Write, LeadSteps, k
  <2>2. BroughtIn \subseteq RowStatus
    BY DEF RowStatus
  <2>3. rows' \in [Row -> RowType]
    BY <1>0, <1>7, <1>r, <2>1, <2>2, SettledOK DEF DataInv, Write, k
  <2>4. made' \in [Row -> Nat]
    BY <1>0, <1>7, <2>1 DEF DataInv, Write, k
  <2> QED BY <1>0, <1>7, <2>3, <2>4 DEF DataInv, Write
<1>8. CASE Clear(t)
  <2>1. PageOf(k) \in Business
    BY <1>8, <1>p DEF Clear, PageSteps, k
  <2>2. pages' \in {pages, [pages EXCEPT ![PageOf(k)].status = "ok"]}
    BY <1>8 DEF Clear, k
  <2>3. pages' \in [Business -> PageType]
    BY <1>0, <2>1, <2>2 DEF DataInv, PageType, PageStatus
  <2> QED BY <1>0, <1>8, <2>3 DEF DataInv, Clear
<1>9. CASE SaveFound(t)
  <2>1. [Queued(FALSE) EXCEPT !.claim = t] \in RowType
    BY QueuedOK DEF RowType
  <2>2. rows' \in [Row -> RowType]
    BY <1>9, <1>r, <2>1 DEF SaveFound
  <2> QED BY <1>0, <1>9, <2>2 DEF DataInv, SaveFound
<1>10. CASE \/ Polled(t) \/ Subscribe(t) \/ Unsubscribe(t) \/ StopEvents(t) \/ HealthAnswer(t)
            \/ ClearThrows(t) \/ Reload(t)
  BY <1>0, <1>10 DEF DataInv, Polled, Subscribe, Unsubscribe, StopEvents, HealthAnswer, ClearThrows,
     Reload
<1>11. CASE InsertTestLead(t)
  <2>1. rows' \in [Row -> RowType]
    BY <1>11, <1>r, QueuedOK DEF InsertTestLead
  <2> QED BY <1>0, <1>11, <2>1 DEF DataInv, InsertTestLead
<1>12. CASE CommitTurnOn(t)
  <2>1. k.mark \in Nat
    BY <1>0 DEF TaskType
  <2>2. CASE rows' = rows /\ pages' = pages
    BY <1>0, <1>12, <2>2 DEF DataInv, CommitTurnOn
  <2>3. CASE ~(rows' = rows /\ pages' = pages)
    <3>1. PICK status \in {"ok", "lead_access"} :
            pages' = [b \in Business |->
                IF b = k.biz THEN [active |-> TRUE, token |-> TRUE, status |-> status,
                                   paused |-> FALSE, since |-> k.mark]
                ELSE IF b = k.other /\ k.other # None /\ pages[k.other].active
                     THEN Off(pages[b]) ELSE pages[b]]
      BY <1>12, <2>3 DEF CommitTurnOn, k
    <3>2. [active |-> TRUE, token |-> TRUE, status |-> status,
           paused |-> FALSE, since |-> k.mark] \in PageType
      BY <2>1 DEF PageType, PageStatus, PageProblems, ReadProblems
    <3>3. pages' \in [Business -> PageType]
      BY <1>0, <3>1, <3>2, OffOK DEF DataInv
    <3>4. rows' \in [Row -> RowType]
      BY <1>0, <1>12, FailLeftoversOK DEF DataInv, CommitTurnOn
    <3> QED BY <1>0, <1>12, <3>3, <3>4 DEF DataInv, CommitTurnOn
  <2> QED BY <2>2, <2>3
<1>13. CASE CommitTurnOff(t)
  <2>1. pages' \in [Business -> PageType]
    BY <1>0, <1>13, OffOK DEF DataInv, CommitTurnOff
  <2>2. rows' \in [Row -> RowType]
    BY <1>0, <1>13, FailLeftoversOK DEF DataInv, CommitTurnOff
  <2> QED BY <1>0, <1>13, <2>1, <2>2 DEF DataInv, CommitTurnOff
<1>14. CASE Requeue(t)
  <2>1. \A r \in Row : [rows[r] EXCEPT !.status = "queued", !.attempts = 0, !.due = TRUE] \in RowType
    <3>1. 0 \in 0..(MaxTries - 1) /\ "queued" \in RowStatus
      BY IntakeAssumption DEF IntakeAssumption, RowStatus
    <3> QED BY <1>r, <3>1 DEF RowType
  <2>2. rows' \in [Row -> RowType]
    BY <1>14, <1>r, <2>1 DEF Requeue
  <2> QED BY <1>0, <1>14, <2>2 DEF DataInv, Requeue
<1>15. CASE LapsePagesOff(t)
  <2>1. pages' \in [Business -> PageType]
    BY <1>0, <1>15, OffOK DEF DataInv, LapsePagesOff
  <2> QED BY <1>0, <1>15, <2>1 DEF DataInv, LapsePagesOff
<1>16. CASE LapseLeftovers(t)
  BY <1>0, <1>16, FailLeftoversOK DEF DataInv, LapseLeftovers
<1>17. CASE Park(t) \/ Wake(t) \/ Hasten(t)
  BY <1>0, <1>17, MakeDueOK DEF DataInv, Park, Wake, Hasten
<1> QED BY <1>1, <1>2, <1>3, <1>4, <1>5, <1>6, <1>7, <1>8, <1>9, <1>10, <1>11, <1>12,
           <1>13, <1>14, <1>15, <1>16, <1>17 DEF Works

LEMMA FacebookDataOK ==
    ASSUME DataInv, Facebook
    PROVE  DataInv'
<1> PICK b \in Business :
        \/ Connect(b) \/ ConnectWithoutPermissions(b) \/ Deauthorize(b) \/ DataDeletion(b)
        \/ PlanRunsOut(b)
  BY DEF Facebook
<1>0. pages[b] \in PageType
  BY DEF DataInv
<1>1. CASE Connect(b)
  <2>1. {"ok", "needs_reconnect"} \subseteq PageStatus
    BY DEF PageStatus, PageProblems, ReadProblems
  <2>2. Reconnected(pages[b]) \in PageType
    BY <1>0, <2>1 DEF Reconnected, PageType
  <2>4. [pages[b] EXCEPT !.status = "needs_reconnect"] \in PageType
    BY <1>0, <2>1 DEF PageType
  <2>5. pages' \in [Business -> PageType]
    BY <1>0, <1>1, <2>2, <2>4 DEF Connect, DataInv
  <2>3. rows' \in [Row -> RowType]
    BY <1>1, MakeDueOK DEF DataInv, Connect
  <2> QED BY <1>1, <2>3, <2>5, UpsetOK DEF DataInv, Connect
<1>2. CASE ConnectWithoutPermissions(b)
  <2>1. pages' \in [Business -> PageType]
    BY <1>0, <1>2 DEF DataInv, ConnectWithoutPermissions, PageType, PageStatus, PageProblems,
                      ReadProblems
  <2> QED BY <1>2, <2>1, UpsetOK DEF DataInv, ConnectWithoutPermissions
<1>3. CASE Deauthorize(b)
  <2>1. PICK status \in PageStatus :
          pages' = [pages EXCEPT ![b] = [@ EXCEPT !.token = FALSE, !.status = status]]
    BY <1>0, <1>3 DEF Deauthorize, DataInv, PageType, PageStatus, PageProblems, ReadProblems
  <2>2. pages' \in [Business -> PageType]
    BY <1>0, <2>1 DEF DataInv, PageType
  <2> QED BY <1>3, <2>2, UpsetOK DEF DataInv, Deauthorize
<1>4. CASE DataDeletion(b)
  <2>1. pages' \in [Business -> PageType]
    BY <1>0, <1>4, OffOK DEF DataInv, DataDeletion
  <2> QED BY <1>4, <2>1, UpsetOK, FailLeftoversOK DEF DataInv, DataDeletion
<1>5. CASE PlanRunsOut(b)
  BY <1>5, UpsetOK DEF DataInv, PlanRunsOut
<1> QED BY <1>1, <1>2, <1>3, <1>4, <1>5

LEMMA ClockDataOK ==
    ASSUME DataInv, Clock \/ GiveUpOld
    PROVE  DataInv'
<1>1. ASSUME NEW r \in Row, LeaseLapses(r) PROVE DataInv'
  BY <1>1 DEF DataInv, LeaseLapses, RowType
<1>2. ASSUME NEW r \in Row, TakesTooLong(r) PROVE DataInv'
  BY <1>2, UpsetOK DEF DataInv, TakesTooLong, RowType
<1>3. ASSUME NEW r \in Row, ComesDue(r) PROVE DataInv'
  BY <1>3 DEF DataInv, ComesDue, RowType
<1>4. ASSUME NEW r \in Row, GrowsOld(r) PROVE DataInv'
  BY <1>4, UpsetOK DEF DataInv, GrowsOld, RowType
<1>5. ASSUME NEW b \in Business, PauseEnds(b) \/ HourPasses(b) PROVE DataInv'
  <2>1. [pages[b] EXCEPT !.paused = FALSE] \in PageType
    BY DEF DataInv, PageType
  <2>2. pages' \in [Business -> PageType]
    BY <1>5, <2>1 DEF DataInv, PauseEnds, HourPasses
  <2> QED BY <1>5, <2>2 DEF DataInv, PauseEnds, HourPasses
<1>6. CASE GiveUpOld
  <2>1. "expired" \in RowStatus
    BY DEF RowStatus, NotBroughtIn
  <2>2. rows' \in [Row -> RowType]
    BY <1>6, <2>1, SettledOK DEF DataInv, GiveUpOld
  <2> QED BY <1>6, <2>2 DEF DataInv, GiveUpOld
<1> QED BY <1>1, <1>2, <1>3, <1>4, <1>5, <1>6 DEF Clock

LEMMA TypeInit == Init => TypeInv
<1> SUFFICES ASSUME Init PROVE TypeInv
  OBVIOUS
<1>1. DataInv
  <2>1. pages \in [Business -> PageType]
    BY DEF Init, PageType, PageStatus
  <2>2. upsets \in 0..MaxUpsets
    BY IntakeAssumption DEF Init, IntakeAssumption
  <2> QED BY <2>1, <2>2, NoRowOK DEF Init, DataInv
<1>2. TaskInv
  BY IdleOK DEF Init, TaskInv
<1> QED BY <1>1, <1>2 DEF DataInv, TaskInv, TypeInv, TypeOK

LEMMA TypeStep == TypeInv /\ [Next]_vars => TypeInv'
<1> SUFFICES ASSUME TypeInv, [Next]_vars PROVE DataInv' /\ TaskInv'
  BY DEF DataInv, TaskInv, TypeInv, TypeOK
<1>0. DataInv /\ TaskInv
  BY DEF DataInv, TaskInv, TypeInv, TypeOK
<1>1. CASE Arrivals
  <2>1. CASE UNCHANGED task
    BY <1>0, <1>1, <2>1, ArrivalsDataOK DEF TaskInv
  <2>2. ASSUME NEW l \in Lead, NEW t \in Task, NEW b \in Business, StartTestLead(t, b, l)
        PROVE  TaskInv'
    <3> DEFINE n == [Idle EXCEPT !.job = "test", !.biz = b, !.pc = "insert", !.batch = {<<b, l>>}]
    <3>1. {<<b, l>>} \in SUBSET Row
      BY DEF Row
    <3>2. n \in TaskType
      BY <3>1, ZeroOK DEF Idle, TaskType, Jobs, Steps, Verdicts
    <3>3. WellPlaced(n)
      BY DEF Idle, WellPlaced, LeadSteps, PageSteps
    <3> QED BY <1>0, <2>2, <3>2, <3>3, GotoOK DEF StartTestLead
  <2> QED BY <1>0, <1>1, <2>1, <2>2, ArrivalsDataOK DEF Arrivals, FillLead, Webhook
<1>2. ASSUME NEW t \in Task, Starts(t) PROVE DataInv' /\ TaskInv'
  BY <1>0, <1>2, StartsDataOK, StartsTaskOK
<1>3. ASSUME NEW t \in Task, Works(t) PROVE DataInv' /\ TaskInv'
  BY <1>3, WorksDataOK, WorksTaskOK
<1>4. ASSUME NEW t \in Task, Throws(t) PROVE DataInv' /\ TaskInv'
  <2>1. TaskInv'
    BY <1>0, <1>4, IdleOK, GotoOK DEF Throws
  <2> QED BY <1>0, <1>4, <2>1, UpsetOK DEF Throws, DataInv
<1>5. CASE Facebook
  BY <1>0, <1>5, FacebookDataOK DEF Facebook, Connect, ConnectWithoutPermissions, Deauthorize,
     DataDeletion, PlanRunsOut, TaskInv
<1>6. CASE Clock \/ GiveUpOld
  BY <1>0, <1>6, ClockDataOK DEF Clock, LeaseLapses, TakesTooLong, ComesDue, GrowsOld, PauseEnds,
     HourPasses, GiveUpOld, TaskInv
<1>7. CASE Crash
  <2>1. TaskInv'
    BY <1>7, IdleOK DEF Crash, TaskInv
  <2> QED BY <1>0, <1>7, <2>1, UpsetOK DEF Crash, DataInv
<1>8. CASE UNCHANGED vars
  BY <1>0, <1>8 DEF vars, DataInv, TaskInv
<1> QED BY <1>1, <1>2, <1>3, <1>4, <1>5, <1>6, <1>7, <1>8 DEF Next

(* Every table, and every running job, keeps its shape: no try is counted    *)
(* past the last one, whatever is claimed, retried, crashed or taken over.   *)
THEOREM TypeCorrect == Spec => []TypeOK
<1>1. Spec => []TypeInv
  BY TypeInit, TypeStep, PTL DEF Spec
<1>2. TypeInv => TypeOK
  BY DEF TypeInv
<1> QED BY <1>1, <1>2, PTL

-----------------------------------------------------------------------------
(* One business holds the Page.                                              *)

KeepsNoKey(p) == ~p.active => ~p.token /\ p.status = "off"

(* Only turning a Page on makes it active; nothing gives a key to one that   *)
(* is off.                                                                   *)
LEMMA PagesStep ==
    ASSUME TypeInv, [Next]_vars, \A b \in Business : KeepsNoKey(pages[b]),
           \A t \in Task : ~CommitTurnOn(t)
    PROVE  \A b \in Business : /\ pages'[b].active => pages[b].active
                              /\ KeepsNoKey(pages'[b])
<1> DEFINE Goal == \A b \in Business : /\ pages'[b].active => pages[b].active
                                       /\ KeepsNoKey(pages'[b])
<1>0. \A b \in Business : pages[b] \in PageType
  BY DEF TypeInv, TypeOK
<1>f. pages \in [Business -> PageType]
  BY DEF TypeInv, TypeOK
<1>u. UNCHANGED pages => Goal
  OBVIOUS
<1>1. ASSUME NEW t \in Task, Works(t) PROVE Goal
  <2>1. CASE Pause(t)
    BY <1>f, <2>1 DEF Pause, KeepsNoKey, PageType
  <2>2. CASE Mark(t)
    BY <1>f, <2>2 DEF Mark, KeepsNoKey, PageType
  <2>3. CASE Clear(t)
    BY <1>f, <2>3 DEF Clear, KeepsNoKey, PageType
  <2>4. CASE CommitTurnOff(t)
    BY <1>f, <2>4 DEF CommitTurnOff, Off, KeepsNoKey, PageType
  <2>5. CASE LapsePagesOff(t)
    BY <1>f, <2>5 DEF LapsePagesOff, Off, KeepsNoKey, PageType
  <2>6. CASE UNCHANGED pages
    BY <1>u, <2>6
  <2> QED BY <1>1, <2>1, <2>2, <2>3, <2>4, <2>5, <2>6 DEF Works, Claim, DrainEnds, Begin, Read,
          Look, Release, Write, ListLeads, SaveFound, Polled, InsertTestLead, Subscribe,
          Unsubscribe, HealthAnswer, Requeue, LapseLeftovers, Park, ClearThrows, Wake, StopEvents,
          Hasten, Reload
<1>2. ASSUME NEW b \in Business, Connect(b) PROVE Goal
  <2>1. CASE pages' = [pages EXCEPT ![b] = IF @.active THEN Reconnected(@) ELSE @]
    <3>1. Reconnected(pages[b]).active = pages[b].active
      BY <1>0 DEF Reconnected, PageType
    <3> QED BY <1>f, <2>1, <3>1 DEF KeepsNoKey
  <2>2. CASE pages[b].active /\ pages' = [pages EXCEPT ![b].status = "needs_reconnect"]
    BY <1>f, <2>2 DEF KeepsNoKey, PageType
  <2> QED BY <1>2, <2>1, <2>2 DEF Connect
<1>3. ASSUME NEW b \in Business, ConnectWithoutPermissions(b) PROVE Goal
  BY <1>f, <1>3 DEF ConnectWithoutPermissions, KeepsNoKey, PageType
<1>4. ASSUME NEW b \in Business, Deauthorize(b) PROVE Goal
  <2>1. PICK status :
          /\ pages' = [pages EXCEPT ![b] = [@ EXCEPT !.token = FALSE, !.status = status]]
          /\ ~pages[b].active => status = pages[b].status
    BY <1>f, <1>4 DEF Deauthorize, PageType
  <2> QED BY <1>f, <2>1 DEF KeepsNoKey, PageType
<1>5. ASSUME NEW b \in Business, DataDeletion(b) PROVE Goal
  BY <1>f, <1>5 DEF DataDeletion, Off, KeepsNoKey, PageType
<1>6. ASSUME NEW b \in Business, PauseEnds(b) PROVE Goal
  BY <1>f, <1>6 DEF PauseEnds, KeepsNoKey, PageType
<1>7. ASSUME NEW t \in Task, Starts(t) \/ Throws(t) PROVE UNCHANGED pages
  BY <1>7 DEF Starts, StartDrain, StartCatchUp, StartTurnOn, StartTurnOff, StartHealth, StartLapse,
     Throws
<1>8. CASE Arrivals \/ GiveUpOld \/ Crash \/ UNCHANGED vars
  BY <1>8 DEF Arrivals, FillLead, Webhook, StartTestLead, GiveUpOld, Crash, vars
<1>9. CASE Facebook
  BY <1>2, <1>3, <1>4, <1>5, <1>u, <1>9 DEF Facebook, PlanRunsOut
<1>10. CASE Clock
  BY <1>6, <1>u, <1>10 DEF Clock, LeaseLapses, TakesTooLong, ComesDue, GrowsOld, HourPasses
<1> QED BY <1>1, <1>7, <1>8, <1>9, <1>10, <1>u DEF Next

LEMMA OneBusinessStep ==
    TypeInv /\ OneBusinessHoldsThePage /\ [Next]_vars => OneBusinessHoldsThePage'
<1> SUFFICES ASSUME TypeInv, OneBusinessHoldsThePage, [Next]_vars
             PROVE  OneBusinessHoldsThePage'
  OBVIOUS
<1>0. \A b \in Business : KeepsNoKey(pages[b])
  BY DEF OneBusinessHoldsThePage, KeepsNoKey
<1>f. pages \in [Business -> PageType]
  BY DEF TypeInv, TypeOK
<1>1. CASE \A t \in Task : ~CommitTurnOn(t)
  <2>1. \A b \in Business : (pages'[b].active => pages[b].active) /\ KeepsNoKey(pages'[b])
    BY <1>0, <1>1, PagesStep
  <2> QED BY <2>1 DEF OneBusinessHoldsThePage, ActiveBusinesses, KeepsNoKey
<1>2. ASSUME NEW t \in Task, CommitTurnOn(t) PROVE OneBusinessHoldsThePage'
  <2> DEFINE k == task[t]
             moved == k.other # None /\ pages[k.other].active
  <2>1. CASE UNCHANGED pages
    BY <2>1 DEF OneBusinessHoldsThePage, ActiveBusinesses
  <2>2. CASE /\ ActiveBusinesses \subseteq {k.biz, k.other}
             /\ \E status : pages' = [b \in Business |->
                  IF b = k.biz THEN [active |-> TRUE, token |-> TRUE, status |-> status,
                                     paused |-> FALSE, since |-> k.mark]
                  ELSE IF b = k.other /\ moved THEN Off(pages[b]) ELSE pages[b]]
    <3>0. k \in TaskType
      BY DEF TypeInv, TypeOK
    <3>1. \A b \in Business : b # k.biz => ~pages'[b].active
      <4> SUFFICES ASSUME NEW b \in Business, b # k.biz PROVE ~pages'[b].active
        OBVIOUS
      <4>1. CASE pages[b].active
        <5>1. b = k.other
          BY <2>2, <4>1 DEF ActiveBusinesses
        <5>2. b # None
          BY IntakeAssumption DEF IntakeAssumption
        <5>3. pages'[b] = Off(pages[b])
          BY <2>2, <4>1, <5>1, <5>2
        <5> QED BY <1>f, <5>3 DEF Off, PageType
      <4>2. CASE ~pages[b].active
        <5>1. pages'[b] \in {pages[b], Off(pages[b])}
          BY <2>2
        <5> QED BY <1>f, <4>2, <5>1 DEF Off, PageType
      <4> QED BY <4>1, <4>2
    <3>2. \A b \in Business : KeepsNoKey(pages'[b])
      <4> SUFFICES ASSUME NEW b \in Business PROVE KeepsNoKey(pages'[b])
        OBVIOUS
      <4>1. CASE b = k.biz
        BY <2>2, <4>1 DEF KeepsNoKey
      <4>2. CASE b # k.biz
        <5>1. pages'[b] \in {pages[b], Off(pages[b])}
          BY <2>2, <4>2
        <5> QED BY <1>0, <1>f, <5>1 DEF Off, KeepsNoKey, PageType
      <4> QED BY <4>1, <4>2
    <3> QED BY <3>1, <3>2 DEF OneBusinessHoldsThePage, ActiveBusinesses, KeepsNoKey
  <2> QED BY <1>2, <2>1, <2>2 DEF CommitTurnOn, Allowed
<1> QED BY <1>1, <1>2

(* However businesses switch, move, reconnect and lose their Page, at most   *)
(* one of them has it on, and a Page that is off keeps no key.               *)
THEOREM OneBusiness == Spec => []OneBusinessHoldsThePage
<1>1. Init => OneBusinessHoldsThePage
  BY DEF Init, OneBusinessHoldsThePage, ActiveBusinesses
<1>2. Spec => []TypeInv
  BY TypeInit, TypeStep, PTL DEF Spec
<1> QED BY <1>1, <1>2, OneBusinessStep, PTL DEF Spec

-----------------------------------------------------------------------------
(* What a step may do to the leads.                                          *)

(* The moves of a lead's status that make no enquiry. *)
Moves(s, n) ==
    \/ n = s
    \/ s = "absent" /\ n = "queued"
    \/ s = "queued" /\ n \in {"skipped"} \cup NotBroughtIn
    \/ s = "out_of_tries" /\ n = "queued"

NoEnquiry == made' = made /\ \A r \in Row : Moves(rows[r].status, rows'[r].status)

OneEnquiry ==
    \E r \in Row :
        /\ rows[r].status = "queued" /\ rows'[r].status \in BroughtIn
        /\ made' = [made EXCEPT ![r] = @ + 1]
        /\ \A q \in Row \ {r} : rows'[q] = rows[q]

LEMMA FailLeftoversMoves ==
    ASSUME NEW b, rows' = FailLeftovers(b), rows \in [Row -> RowType]
    PROVE  \A r \in Row : Moves(rows[r].status, rows'[r].status)
<1>1. \A row \in RowType : Settled(row, "page_off").status = "page_off"
  BY NoRowOK DEF Settled, RowType
<1> QED BY <1>1 DEF FailLeftovers, UpdateQueued, Moves, NotBroughtIn

LEMMA MakeDueMoves ==
    ASSUME NEW b, NEW isDue, rows' = MakeDue(b, isDue), rows \in [Row -> RowType]
    PROVE  \A r \in Row : Moves(rows[r].status, rows'[r].status)
BY DEF MakeDue, UpdateQueued, Moves, RowType

LEMMA WorksLeads ==
    ASSUME TypeInv, NEW t \in Task, Works(t)
    PROVE  NoEnquiry \/ OneEnquiry
<1> DEFINE k == task[t]
<1>0. rows \in [Row -> RowType] /\ k \in TaskType /\ WellPlaced(k)
  BY DEF TypeInv, TypeOK
<1>u. UNCHANGED <<rows, made>> => NoEnquiry
  BY DEF NoEnquiry, Moves
<1> HIDE DEF k
<1>1. CASE Claim(t)
  <2>1. \A r \in Row : [rows[r] EXCEPT !.claim = t, !.lapsed = FALSE].status = rows[r].status
    BY <1>0 DEF RowType
  <2> QED BY <1>1, <2>1 DEF Claim, NoEnquiry, Moves
<1>2. ASSUME NEW r \in Row, Begin(t, r) PROVE NoEnquiry
  <2>1. Freed(rows[r]).status = rows[r].status
    BY <1>0 DEF Freed, RowType
  <2> QED BY <1>0, <1>2, <2>1 DEF Begin, NoEnquiry, Moves
<1>3. CASE Park(t) \/ Wake(t)
  BY <1>0, <1>3, MakeDueMoves DEF Park, Wake, NoEnquiry
<1>4. CASE Hasten(t)
  BY <1>0, <1>4, MakeDueMoves DEF Hasten, NoEnquiry
<1>5. CASE Release(t)
  <2>1. \A row \in RowType : \A status : Settled(row, status).status = status
    BY NoRowOK DEF Settled, RowType
  <2>2. \A row \in RowType : /\ Freed(row).status = row.status
                            /\ [Freed(row) EXCEPT !.due = FALSE].status = row.status
                            /\ \A n : [Freed(row) EXCEPT !.attempts = n, !.due = FALSE].status
                                     = row.status
    BY DEF Freed, RowType
  <2>3. \A row \in RowType : \A verdict, tries :
          AfterTry(row, verdict, tries).status \in {row.status, "out_of_tries", "skipped", "expired"}
    BY <2>1, <2>2 DEF AfterTry
  <2>4. /\ rows' = IF Held(t, k.cur) THEN [rows EXCEPT ![k.cur] = AfterTry(@, k.verdict, k.tries)] ELSE rows
        /\ made' = made
    BY <1>5 DEF Release, k
  <2>5. \A r \in Row : r = k.cur /\ Held(t, k.cur) =>
                 /\ rows'[r] = AfterTry(rows[r], k.verdict, k.tries)
                 /\ rows[r].status = "queued"
    BY <1>0, <2>4 DEF Held
  <2>6. \A r \in Row : ~(r = k.cur /\ Held(t, k.cur)) => rows'[r] = rows[r]
    BY <1>0, <2>4
  <2>7. \A r \in Row : Moves(rows[r].status, rows'[r].status)
    BY <1>0, <2>3, <2>5, <2>6 DEF Moves, NotBroughtIn
  <2> QED BY <2>4, <2>7 DEF NoEnquiry
<1>6. CASE Write(t)
  <2>1. k.cur \in Row
    BY <1>0, <1>6 DEF Write, WellPlaced, LeadSteps, TaskType, k
  <2>2. \A status : Settled(rows[k.cur], status).status = status
    BY <1>0, <2>1, NoRowOK DEF Settled, RowType
  <2>3. CASE UNCHANGED <<rows, made>>
    BY <1>u, <2>3
  <2>4. CASE /\ Held(t, k.cur)
             /\ \E status \in BroughtIn : rows' = [rows EXCEPT ![k.cur] = Settled(@, status)]
             /\ made' = [made EXCEPT ![k.cur] = @ + 1]
    <3>1. PICK status \in BroughtIn : rows' = [rows EXCEPT ![k.cur] = Settled(@, status)]
      BY <2>4
    <3>2. rows'[k.cur].status = status /\ \A q \in Row \ {k.cur} : rows'[q] = rows[q]
      BY <1>0, <2>1, <2>2, <3>1
    <3> QED BY <2>1, <2>4, <3>2 DEF OneEnquiry, Held
  <2> QED BY <1>6, <2>3, <2>4 DEF Write, Writable, k
<1>7. CASE SaveFound(t)
  <2>1. [Queued(FALSE) EXCEPT !.claim = t].status = "queued"
    BY QueuedOK, NoRowOK DEF Queued, RowType
  <2> QED BY <1>7, <2>1 DEF SaveFound, NoEnquiry, Moves
<1>8. CASE InsertTestLead(t)
  <2>1. Queued(TRUE).status = "queued"
    BY NoRowOK DEF Queued, RowType
  <2> QED BY <1>8, <2>1 DEF InsertTestLead, NoEnquiry, Moves
<1>9. CASE CommitTurnOn(t)
  BY <1>0, <1>9, FailLeftoversMoves DEF CommitTurnOn, NoEnquiry, Moves
<1>10. CASE CommitTurnOff(t) \/ LapseLeftovers(t)
  BY <1>0, <1>10, FailLeftoversMoves DEF CommitTurnOff, LapseLeftovers, NoEnquiry
<1>11. CASE Requeue(t)
  <2>1. \A r \in Row :
          [rows[r] EXCEPT !.status = "queued", !.attempts = 0, !.due = TRUE].status = "queued"
    BY <1>0 DEF RowType
  <2> QED BY <1>0, <1>11, <2>1 DEF Requeue, TriesAgain, NoEnquiry, Moves
<1>12. CASE UNCHANGED <<rows, made>>
  BY <1>u, <1>12
<1> QED BY <1>1, <1>2, <1>3, <1>4, <1>5, <1>6, <1>7, <1>8, <1>9, <1>10, <1>11, <1>12
        DEF Works, DrainEnds, Read, Look, Pause, Mark, Clear, ClearThrows, ListLeads, Polled,
            Subscribe, Unsubscribe, StopEvents, HealthAnswer, Reload, LapsePagesOff

LEMMA NextLeads ==
    ASSUME TypeInv, [Next]_vars
    PROVE  NoEnquiry \/ OneEnquiry
<1>0. rows \in [Row -> RowType]
  BY DEF TypeInv, TypeOK
<1>u. UNCHANGED <<rows, made>> => NoEnquiry
  BY DEF NoEnquiry, Moves
<1>1. CASE Arrivals
  <2>1. Queued(FALSE).status = "queued"
    BY NoRowOK DEF Queued, RowType
  <2>2. ASSUME NEW l \in Lead, Webhook(l) PROVE NoEnquiry
    BY <1>0, <2>1, <2>2 DEF Webhook, NoEnquiry, Moves
  <2> QED BY <1>1, <1>u, <2>2 DEF Arrivals, FillLead, StartTestLead
<1>2. ASSUME NEW t \in Task, Works(t) PROVE NoEnquiry \/ OneEnquiry
  BY <1>2, WorksLeads
<1>3. ASSUME NEW t \in Task, Starts(t) \/ Throws(t) PROVE NoEnquiry
  BY <1>3, <1>u DEF Starts, StartDrain, StartCatchUp, StartTurnOn, StartTurnOff, StartHealth,
     StartLapse, Throws
<1>4. CASE Facebook
  <2>1. ASSUME NEW b \in Business, Connect(b) PROVE NoEnquiry
    BY <1>0, <2>1, MakeDueMoves DEF Connect, NoEnquiry, Moves
  <2>2. ASSUME NEW b \in Business, DataDeletion(b) PROVE NoEnquiry
    BY <1>0, <2>2, FailLeftoversMoves DEF DataDeletion, NoEnquiry
  <2> QED BY <1>4, <1>u, <2>1, <2>2 DEF Facebook, ConnectWithoutPermissions, Deauthorize,
          PlanRunsOut
<1>5. CASE Clock
  <2>1. ASSUME NEW r \in Row, LeaseLapses(r) \/ TakesTooLong(r) \/ ComesDue(r) \/ GrowsOld(r)
        PROVE  NoEnquiry
    BY <1>0, <2>1 DEF LeaseLapses, TakesTooLong, ComesDue, GrowsOld, NoEnquiry, Moves, RowType
  <2> QED BY <1>5, <1>u, <2>1 DEF Clock, PauseEnds, HourPasses
<1>6. CASE GiveUpOld
  <2>1. \A r \in Row : Settled(rows[r], "expired").status = "expired"
    BY <1>0, NoRowOK DEF Settled, RowType
  <2> QED BY <1>0, <1>6, <2>1 DEF GiveUpOld, NoEnquiry, Moves, NotBroughtIn
<1>7. CASE Crash \/ UNCHANGED vars
  BY <1>7, <1>u DEF Crash, vars
<1> QED BY <1>1, <1>2, <1>3, <1>4, <1>5, <1>6, <1>7 DEF Next

(* A lead is brought in at most once, and only one that shows as brought in. *)
LEMMA BroughtInOnceStep == TypeInv /\ BroughtInOnce /\ [Next]_vars => BroughtInOnce'
<1> SUFFICES ASSUME TypeInv, BroughtInOnce, [Next]_vars PROVE BroughtInOnce'
  OBVIOUS
<1>0. made \in [Row -> Nat]
  BY DEF TypeInv, TypeOK
<1>1. CASE NoEnquiry
  BY <1>1 DEF NoEnquiry, Moves, BroughtInOnce, BroughtIn, NotBroughtIn
<1>2. CASE OneEnquiry
  BY <1>0, <1>2 DEF OneEnquiry, BroughtInOnce, BroughtIn
<1> QED BY <1>1, <1>2, NextLeads

(* A lead goes through intakeLead exactly once if it shows as brought in, and *)
(* never otherwise, whatever leases, crashes, slow workers and retries do.   *)
THEOREM BroughtInAtMostOnce == Spec => []BroughtInOnce
<1>1. Init => BroughtInOnce
  BY DEF Init, NoRow, BroughtInOnce, BroughtIn
<1>2. Spec => []TypeInv
  BY TypeInit, TypeStep, PTL DEF Spec
<1> QED BY <1>1, <1>2, BroughtInOnceStep, PTL DEF Spec

-----------------------------------------------------------------------------
(* The queue implements the promise.                                         *)

FateOf(status) ==
    CASE status = "absent" -> "unseen"
      [] status = "queued" -> "waiting"
      [] status \in BroughtIn -> "broughtIn"
      [] status = "skipped" -> "skipped"
      [] OTHER -> "notBroughtIn"

LEMMA FateOfStatus ==
    /\ Fate = [r \in Row |-> FateOf(rows[r].status)]
    /\ Fate' = [r \in Row |-> FateOf(rows'[r].status)]
BY DEF Fate, FateOf

LEMMA FateValues ==
    \A s \in RowStatus :
        /\ FateOf(s) \in Promise!Fates
        /\ s = "absent" => FateOf(s) = "unseen"
        /\ s = "queued" => FateOf(s) = "waiting"
        /\ s \in BroughtIn => FateOf(s) = "broughtIn"
        /\ s = "skipped" => FateOf(s) = "skipped"
        /\ s \in NotBroughtIn => FateOf(s) = "notBroughtIn"
BY DEF FateOf, Promise!Fates, RowStatus, BroughtIn, NotBroughtIn

LEMMA FateMoves ==
    ASSUME NEW s \in RowStatus, NEW n \in RowStatus, Moves(s, n)
    PROVE  FateOf(n) \in Promise!Move[FateOf(s)]
<1>1. CASE n = s
  <2>1. \A f \in Promise!Fates : f \in Promise!Move[f]
    BY DEF Promise!Fates, Promise!Move
  <2> QED BY <1>1, <2>1, FateValues
<1>2. CASE s = "absent" /\ n = "queued"
  <2>1. "waiting" \in Promise!Move["unseen"]
    BY DEF Promise!Move
  <2> QED BY <1>2, <2>1, FateValues
<1>3. CASE s = "queued" /\ n \in {"skipped"} \cup NotBroughtIn
  <2>1. {"skipped", "notBroughtIn"} \subseteq Promise!Move["waiting"]
    BY DEF Promise!Move
  <2> QED BY <1>3, <2>1, FateValues
<1>4. CASE s = "out_of_tries" /\ n = "queued"
  <2>1. "waiting" \in Promise!Move["notBroughtIn"]
    BY DEF Promise!Move
  <2>2. s \in NotBroughtIn
    BY <1>4 DEF NotBroughtIn
  <2> QED BY <1>4, <2>1, <2>2, FateValues
<1> QED BY <1>1, <1>2, <1>3, <1>4 DEF Moves

LEMMA PromiseStep ==
    ASSUME TypeInv, TypeInv', [Next]_vars
    PROVE  [Promise!Next]_(Promise!vars)
<1>0. \A r \in Row : rows[r].status \in RowStatus /\ rows'[r].status \in RowStatus
  BY DEF TypeInv, TypeOK, RowType
<1>1. CASE NoEnquiry
  <2>1. \A r \in Row : Fate'[r] \in Promise!Move[Fate[r]]
    BY <1>0, <1>1, FateMoves, FateOfStatus DEF NoEnquiry
  <2>2. Fate' \in [Row -> Promise!Fates]
    BY <1>0, FateValues, FateOfStatus
  <2>3. Promise!Settle
    BY <1>1, <2>1, <2>2 DEF NoEnquiry, Promise!Settle
  <2> QED BY <2>3 DEF Promise!Next
<1>2. CASE OneEnquiry
  <2>1. PICK r \in Row :
          /\ rows[r].status = "queued" /\ rows'[r].status \in BroughtIn
          /\ made' = [made EXCEPT ![r] = @ + 1]
          /\ \A q \in Row \ {r} : rows'[q] = rows[q]
    BY <1>2 DEF OneEnquiry
  <2>2. Fate[r] = "waiting" /\ Fate'[r] = "broughtIn"
    BY <1>0, <2>1, FateValues, FateOfStatus
  <2>3. \A q \in Row \ {r} : Fate'[q] = Fate[q]
    BY <2>1, FateOfStatus
  <2>4. Fate' = [Fate EXCEPT ![r] = "broughtIn"]
    BY <2>2, <2>3, FateOfStatus
  <2>5. Promise!BringIn(r)
    BY <2>1, <2>2, <2>4 DEF Promise!BringIn
  <2> QED BY <2>5 DEF Promise!Next
<1> QED BY <1>1, <1>2, NextLeads

(* Queue, leases, retries, owners, Facebook and crashes together keep what   *)
(* LeadFate promises: a lead is unseen, waiting, brought in exactly once and *)
(* for good, skipped, or not brought in until it is tried again.             *)
THEOREM PromiseKept == Spec => KeepsThePromise
<1>1. Init => Promise!Init
  BY FateOfStatus, FateValues DEF Init, NoRow, Promise!Init, RowStatus
<1>2. TypeInv /\ TypeInv' /\ [Next]_vars => [Promise!Next]_(Promise!vars)
  BY PromiseStep
<1>3. Spec => []TypeInv
  BY TypeInit, TypeStep, PTL DEF Spec
<1> QED BY <1>1, <1>2, <1>3, PTL DEF Spec, Promise!Spec, KeepsThePromise

-----------------------------------------------------------------------------
(* Nothing is brought in for a Page that is off.                             *)

(* Whether leads may still be brought in for a business's Page.              *)
Reached(b) == pages[b].active \/ b \in expired

(* Between the look at its Page and the write a job still holds its row only *)
(* while the Page may be reached: whoever turns it off takes the row away.   *)
AtWork == {"read", "write"}
WriterMay == \A t \in Task : task[t].pc \in AtWork /\ Held(t, task[t].cur) => Reached(task[t].cur[1])

(* Only waiting leads are claimed; a plan's lapse is about a plan that ran   *)
(* out.                                                                      *)
ClaimsWait == \A r \in Row : rows[r].claim # None => rows[r].status = "queued"
LapseIsDue == \A t \in Task : task[t].job = "lapse" => task[t].biz \in expired

OffInv == ClaimsWait /\ LapseIsDue /\ WriterMay

(* What a row's claim may come to in a step: nobody's, the same, or that of  *)
(* a job that has yet to look at the row's Page.                             *)
ClaimMoves(r) ==
    \/ rows'[r].claim = None
    \/ /\ rows'[r].status = "queued"
       /\ \/ rows'[r].claim = rows[r].claim
          \/ task'[rows'[r].claim].pc = "next"

LEMMA SettledUnclaimed ==
    ASSUME NEW row \in RowType, NEW status
    PROVE  Settled(row, status).claim = None
BY NoRowOK DEF Settled, NoRow, RowType

LEMMA FailLeftoversClaims ==
    ASSUME NEW b, rows' = FailLeftovers(b), rows \in [Row -> RowType], ClaimsWait
    PROVE  /\ \A r \in Row : ClaimMoves(r)
           /\ \A r \in RowsOf(b) : rows'[r].claim = None
BY SettledUnclaimed DEF FailLeftovers, UpdateQueued, ClaimMoves, ClaimsWait, RowsOf

LEMMA MakeDueClaims ==
    ASSUME NEW b, NEW isDue, rows' = MakeDue(b, isDue), rows \in [Row -> RowType], ClaimsWait
    PROVE  \A r \in Row : ClaimMoves(r)
<1>1. \A row \in RowType : LET n == [row EXCEPT !.due = isDue] IN
                             n.claim = row.claim /\ n.status = row.status
  BY DEF RowType
<1> QED BY <1>1 DEF MakeDue, UpdateQueued, ClaimMoves, ClaimsWait

LEMMA WorksClaims ==
    ASSUME TypeInv, ClaimsWait, NEW t \in Task, Works(t)
    PROVE  \A r \in Row : ClaimMoves(r)
<1> DEFINE k == task[t]
           Goal == \A r \in Row : ClaimMoves(r)
<1>0. rows \in [Row -> RowType] /\ k \in TaskType /\ WellPlaced(k) /\ task \in [Task -> TaskType]
  BY DEF TypeInv, TypeOK
<1>u. UNCHANGED rows => Goal
  BY DEF ClaimMoves, ClaimsWait
<1>e. \A row \in RowType : \A d, n :
        /\ Freed(row).claim = None
        /\ [Freed(row) EXCEPT !.due = d].claim = None
        /\ [Freed(row) EXCEPT !.attempts = n, !.due = d].claim = None
  BY DEF RowType, Freed
<1> HIDE DEF k
<1>1. CASE Claim(t)
  <2>1. PICK S \in SUBSET Claimable(k) :
          /\ rows' = [r \in Row |-> IF r \in S THEN [rows[r] EXCEPT !.claim = t, !.lapsed = FALSE]
                                               ELSE rows[r]]
          /\ task' = [task EXCEPT ![t] = [k EXCEPT !.pc = "next", !.batch = S, !.skip = @ \cup S]]
    BY <1>1 DEF Claim, Goto, k
  <2>2. task'[t].pc = "next"
    BY <1>0, <2>1 DEF TaskType
  <2>3. \A r \in S : r \in Row /\ rows[r].status = "queued"
    BY <2>1 DEF Claimable
  <2>4. \A r \in S : rows'[r] = [rows[r] EXCEPT !.claim = t, !.lapsed = FALSE]
    BY <2>1, <2>3
  <2>e. \A row \in RowType : LET n == [row EXCEPT !.claim = t, !.lapsed = FALSE] IN
                             n.claim = t /\ n.status = row.status
    BY DEF RowType
  <2>5. \A r \in S : rows'[r].claim = t /\ rows'[r].status = "queued"
    <3> SUFFICES ASSUME NEW r \in S PROVE rows'[r].claim = t /\ rows'[r].status = "queued"
      OBVIOUS
    <3>1. rows[r] \in RowType
      BY <1>0, <2>3
    <3> QED BY <2>3, <2>4, <2>e, <3>1
  <2> QED BY <1>0, <2>1, <2>2, <2>5 DEF ClaimMoves, ClaimsWait
<1>2. ASSUME NEW r \in Row, Begin(t, r) PROVE Goal
  BY <1>0, <1>e, <1>2 DEF Begin, ClaimMoves, ClaimsWait
<1>3. CASE Park(t) \/ Wake(t)
  BY <1>0, <1>3, MakeDueClaims DEF Park, Wake
<1>4. CASE Hasten(t)
  BY <1>0, <1>4, MakeDueClaims DEF Hasten
<1>5. CASE Release(t)
  <2>1. \A row \in RowType : \A verdict, tries : AfterTry(row, verdict, tries).claim = None
    BY <1>e, SettledUnclaimed DEF AfterTry
  <2>2. rows' = IF Held(t, k.cur) THEN [rows EXCEPT ![k.cur] = AfterTry(@, k.verdict, k.tries)] ELSE rows
    BY <1>5 DEF Release, k
  <2> QED BY <1>0, <2>1, <2>2 DEF ClaimMoves, ClaimsWait
<1>6. CASE Write(t)
  <2>1. UNCHANGED rows \/ \E status \in BroughtIn : rows' = [rows EXCEPT ![k.cur] = Settled(@, status)]
    BY <1>6 DEF Write, k
  <2> QED BY <1>0, <1>u, <2>1, SettledUnclaimed DEF ClaimMoves, ClaimsWait
<1>7. CASE SaveFound(t)
  <2> DEFINE new == {r \in k.batch : rows[r].status = "absent"}
  <2>1. /\ rows' = [r \in Row |-> IF r \in new THEN [Queued(FALSE) EXCEPT !.claim = t] ELSE rows[r]]
        /\ new # {} => task' = [task EXCEPT ![t] = [k EXCEPT !.pc = "next", !.batch = new]]
    BY <1>7 DEF SaveFound, Goto, k
  <2>2. new # {} => task'[t].pc = "next"
    BY <1>0, <2>1 DEF TaskType
  <2>3. LET n == [Queued(FALSE) EXCEPT !.claim = t] IN n.claim = t /\ n.status = "queued"
    BY NoRowOK DEF Queued, RowType
  <2> QED BY <1>0, <2>1, <2>2, <2>3 DEF ClaimMoves, ClaimsWait
<1>8. CASE InsertTestLead(t)
  <2>1. Queued(TRUE).claim = None
    BY NoRowOK DEF Queued, NoRow, RowType
  <2> QED BY <1>0, <1>8, <2>1 DEF InsertTestLead, ClaimMoves, ClaimsWait
<1>9. CASE CommitTurnOn(t)
  BY <1>0, <1>9, <1>u, FailLeftoversClaims DEF CommitTurnOn
<1>10. CASE CommitTurnOff(t) \/ LapseLeftovers(t)
  BY <1>0, <1>10, FailLeftoversClaims DEF CommitTurnOff, LapseLeftovers
<1>11. CASE Requeue(t)
  <2>1. \A r \in Row :
          \/ rows'[r] = rows[r]
          \/ rows'[r] = [rows[r] EXCEPT !.status = "queued", !.attempts = 0, !.due = TRUE]
    BY <1>11 DEF Requeue
  <2>2. \A row \in RowType :
          LET n == [row EXCEPT !.status = "queued", !.attempts = 0, !.due = TRUE]
          IN  n.claim = row.claim /\ n.status = "queued"
    BY DEF RowType
  <2>3. \A r \in Row : /\ rows'[r].claim = rows[r].claim
                       /\ rows[r].status = "queued" => rows'[r].status = "queued"
    <3> SUFFICES ASSUME NEW r \in Row
                 PROVE  /\ rows'[r].claim = rows[r].claim
                        /\ rows[r].status = "queued" => rows'[r].status = "queued"
      OBVIOUS
    <3>1. rows[r] \in RowType
      BY <1>0
    <3> QED BY <2>1, <2>2, <3>1
  <2> QED BY <2>3 DEF ClaimMoves, ClaimsWait
<1>12. CASE UNCHANGED rows
  BY <1>u, <1>12
<1> QED BY <1>1, <1>2, <1>3, <1>4, <1>5, <1>6, <1>7, <1>8, <1>9, <1>10, <1>11, <1>12
        DEF Works, DrainEnds, Read, Look, Pause, Mark, Clear, ClearThrows, ListLeads, Polled,
            Subscribe, Unsubscribe, StopEvents, HealthAnswer, Reload, LapsePagesOff

LEMMA NextClaims ==
    ASSUME TypeInv, ClaimsWait, [Next]_vars
    PROVE  \A r \in Row : ClaimMoves(r)
<1> DEFINE Goal == \A r \in Row : ClaimMoves(r)
<1>0. rows \in [Row -> RowType]
  BY DEF TypeInv, TypeOK
<1>u. UNCHANGED rows => Goal
  BY DEF ClaimMoves, ClaimsWait
<1>1. CASE Arrivals
  <2>1. Queued(FALSE).claim = None
    BY NoRowOK DEF Queued, NoRow, RowType
  <2>2. ASSUME NEW l \in Lead, Webhook(l) PROVE Goal
    BY <1>0, <2>1, <2>2 DEF Webhook, ClaimMoves, ClaimsWait
  <2> QED BY <1>1, <1>u, <2>2 DEF Arrivals, FillLead, StartTestLead
<1>2. ASSUME NEW t \in Task, Works(t) PROVE Goal
  BY <1>2, WorksClaims
<1>3. ASSUME NEW t \in Task, Starts(t) \/ Throws(t) PROVE UNCHANGED rows
  BY <1>3 DEF Starts, StartDrain, StartCatchUp, StartTurnOn, StartTurnOff, StartHealth,
     StartLapse, Throws
<1>4. CASE Facebook
  <2>1. ASSUME NEW b \in Business, Connect(b) PROVE Goal
    BY <1>0, <1>u, <2>1, MakeDueClaims DEF Connect
  <2>2. ASSUME NEW b \in Business, DataDeletion(b) PROVE Goal
    BY <1>0, <2>2, FailLeftoversClaims DEF DataDeletion
  <2> QED BY <1>4, <1>u, <2>1, <2>2 DEF Facebook, ConnectWithoutPermissions, Deauthorize,
          PlanRunsOut
<1>5. CASE Clock
  <2>1. ASSUME NEW r \in Row, LeaseLapses(r) \/ TakesTooLong(r) \/ ComesDue(r) \/ GrowsOld(r)
        PROVE  Goal
    BY <1>0, <2>1 DEF LeaseLapses, TakesTooLong, ComesDue, GrowsOld, ClaimMoves, ClaimsWait, RowType
  <2> QED BY <1>5, <1>u, <2>1 DEF Clock, PauseEnds, HourPasses
<1>6. CASE GiveUpOld
  BY <1>0, <1>6, SettledUnclaimed DEF GiveUpOld, ClaimMoves, ClaimsWait
<1>7. CASE Crash \/ UNCHANGED vars
  BY <1>7, <1>u DEF Crash, vars
<1> QED BY <1>1, <1>2, <1>3, <1>4, <1>5, <1>6, <1>7, <1>u DEF Next

(* A job's next state that is not at a lead, and no other plan's lapse.      *)
Quiet(k, n) == n.pc \notin AtWork /\ (n.job = "lapse" => k.job = "lapse" /\ n.biz = k.biz)

LEMMA IdleQuiet == \A k : Quiet(k, Idle)
BY DEF Quiet, AtWork, Idle

LEMMA OnwardQuiet ==
    ASSUME NEW k \in TaskType, NEW r
    PROVE  Quiet(k, Onward(k, r))
<1> DEFINE rest == k.batch \ {r}
           pc == IF rest # {} THEN "next" ELSE IF CatchingUp(k) THEN "polled" ELSE "again"
           n == [k EXCEPT !.batch = rest, !.cur = None, !.tries = 0, !.sick = FALSE,
                          !.verdict = "none", !.pc = pc]
<1>1. pc \notin AtWork
  BY DEF AtWork
<1>2. Onward(k, r) = n
  BY DEF Onward
<1> HIDE DEF rest, pc
<1>3. n.pc = pc /\ n.job = k.job /\ n.biz = k.biz
  BY DEF TaskType
<1> QED BY <1>1, <1>2, <1>3 DEF Quiet

LEMMA ParkedQuiet ==
    ASSUME NEW k \in TaskType, NEW r, NEW problem
    PROVE  Quiet(k, Parked(k, r, problem))
<1> DEFINE n(pc, verdict) == [k EXCEPT !.cur = r, !.pc = pc, !.verdict = verdict]
<1>1. \A pc, verdict : n(pc, verdict).pc = pc /\ n(pc, verdict).job = k.job /\ n(pc, verdict).biz = k.biz
  BY DEF TaskType
<1>2. Parked(k, r, problem) = n("release", "expired") \/ Parked(k, r, problem) = n("mark", problem)
  BY DEF Parked
<1> HIDE DEF n
<1> QED BY <1>1, <1>2 DEF Quiet, AtWork

LEMMA RetriedQuiet ==
    ASSUME NEW k \in TaskType
    PROVE  Quiet(k, Retried(k))
BY DEF Quiet, Retried, AtWork, TaskType

LEMMA CatchUpOverQuiet == \A k : Quiet(k, CatchUpOver(k))
BY IdleQuiet DEF CatchUpOver, Quiet, AtWork, Idle

LEMMA ContinueQuiet ==
    ASSUME NEW k \in TaskType
    PROVE  Quiet(k, Continue(k))
<1>2. Quiet(k, [k EXCEPT !.pc = "release"]) /\ Quiet(k, [k EXCEPT !.pc = "save", !.verdict = "none"])
  BY DEF Quiet, AtWork, TaskType
<1>3. Quiet(k, [Idle EXCEPT !.job = k.job, !.biz = k.biz, !.pc = "requeue"])
  BY DEF Quiet, AtWork, Idle
<1> QED BY <1>2, <1>3, IdleQuiet, CatchUpOverQuiet DEF Continue

(* A job comes to its row's write by a look at the Page, and no other way.   *)
WriterMoves(t) ==
    \/ Quiet(task[t], task'[t])
    \/ /\ task'[t].job = task[t].job /\ task'[t].biz = task[t].biz
       /\ \/ pages'[task'[t].cur[1]].active
          \/ task[t].pc \in AtWork /\ task'[t].cur = task[t].cur

LEMMA WorksWriter ==
    ASSUME TypeInv, NEW t \in Task, Works(t)
    PROVE  WriterMoves(t)
<1> DEFINE k == task[t]
<1>0. k \in TaskType /\ WellPlaced(k) /\ task \in [Task -> TaskType]
  BY DEF TypeInv, TypeOK
<1>g. \A n : Goto(t, n) => task'[t] = n
  BY <1>0 DEF Goto
<1>p. \A pc : pc \notin AtWork => Quiet(k, [k EXCEPT !.pc = pc])
  BY <1>0 DEF Quiet, TaskType
<1>v. \A pc, verdict : pc \notin AtWork => Quiet(k, [k EXCEPT !.pc = pc, !.verdict = verdict])
  BY <1>0 DEF Quiet, TaskType
<1>q. Quiet(k, task'[t]) => WriterMoves(t)
  BY DEF WriterMoves
<1> HIDE DEF k
<1>1. CASE Claim(t)
  <2>1. PICK S : task'[t] = [k EXCEPT !.pc = "next", !.batch = S, !.skip = @ \cup S]
    BY <1>1, <1>g DEF Claim, k
  <2> QED BY <1>0, <1>q, <2>1 DEF Quiet, AtWork, TaskType
<1>2. CASE DrainEnds(t)
  <2>1. \A pc : pc \notin AtWork => Quiet(k, [k EXCEPT !.pc = pc, !.skip = {}])
    BY <1>0 DEF Quiet, TaskType
  <2>2. \/ task'[t] = [k EXCEPT !.pc = "unsub", !.skip = {}]
        \/ task'[t] = [k EXCEPT !.pc = "subscribe", !.skip = {}]
        \/ task'[t] = Idle
    BY <1>2, <1>g DEF DrainEnds, k
  <2> QED BY <1>q, <2>1, <2>2, IdleQuiet DEF AtWork
<1>3. ASSUME NEW r \in Row, Begin(t, r) PROVE WriterMoves(t)
  <2> DEFINE tries == rows[r].attempts
             sick == pages[r[1]].status \in ReadProblems
             seen == [k EXCEPT !.cur = r, !.tries = tries, !.sick = sick]
  <2>0. tries \in 0..(MaxTries - 1) /\ sick \in BOOLEAN
    BY DEF TypeInv, TypeOK, RowType
  <2>i. Begin(t, r) =>
          \/ Goto(t, Onward(k, r))
          \/ Goto(t, Parked(seen, r, "needs_reconnect"))
          \/ pages[r[1]].active /\ UNCHANGED pages /\ \E pc : Goto(t, [seen EXCEPT !.pc = pc])
    BY DEF Begin, k
  <2> HIDE DEF tries, sick
  <2>s. seen \in TaskType /\ seen.job = k.job /\ seen.biz = k.biz /\ seen.cur = r
    BY <1>0, <2>0 DEF TaskType
  <2>1. CASE Goto(t, Onward(k, r))
    BY <1>0, <1>g, <1>q, <2>1, OnwardQuiet
  <2>2. CASE Goto(t, Parked(seen, r, "needs_reconnect"))
    <3>1. Quiet(seen, Parked(seen, r, "needs_reconnect"))
      BY <2>s, ParkedQuiet
    <3> QED BY <1>g, <1>q, <2>2, <2>s, <3>1 DEF Quiet
  <2>3. CASE pages[r[1]].active /\ UNCHANGED pages /\ \E pc : Goto(t, [seen EXCEPT !.pc = pc])
    <3>1. PICK pc : task'[t] = [seen EXCEPT !.pc = pc]
      BY <1>g, <2>3
    <3> HIDE DEF seen
    <3>2. task'[t].cur = r /\ task'[t].job = k.job /\ task'[t].biz = k.biz
      BY <2>s, <3>1 DEF TaskType
    <3> QED BY <2>3, <3>2 DEF WriterMoves, k
  <2> QED BY <1>3, <2>i, <2>1, <2>2, <2>3
<1>4. CASE Read(t)
  <2>1. PICK answer \in Answers : task'[t] = AfterAnswer(k, answer)
    BY <1>4, <1>g DEF Read, k
  <2>2. CASE answer = "ok"
    <3>1. task'[t] = [k EXCEPT !.pc = "write"]
      BY <2>1, <2>2 DEF AfterAnswer
    <3>2. task'[t].cur = k.cur /\ task'[t].job = k.job /\ task'[t].biz = k.biz
      BY <1>0, <3>1 DEF TaskType
    <3> QED BY <1>4, <3>2 DEF Read, AtWork, WriterMoves, k
  <2>3. CASE answer # "ok"
    <3>1. \/ task'[t] = Parked(k, k.cur, "needs_reconnect")
          \/ task'[t] = [k EXCEPT !.pc = "pause", !.verdict = answer]
          \/ task'[t] = [k EXCEPT !.pc = "look", !.verdict = answer]
          \/ task'[t] = Retried(k)
      BY <2>1, <2>3 DEF AfterAnswer
    <3>2. /\ Quiet(k, [k EXCEPT !.pc = "pause", !.verdict = answer])
          /\ Quiet(k, [k EXCEPT !.pc = "look", !.verdict = answer])
      BY <1>v DEF AtWork
    <3> QED BY <1>0, <1>q, <3>1, <3>2, ParkedQuiet, RetriedQuiet
  <2> QED BY <2>2, <2>3
<1>5. CASE Look(t)
  <2>1. \/ \E problem : task'[t] = Parked(k, k.cur, problem)
        \/ task'[t] = [k EXCEPT !.pc = "release", !.verdict = "skip"]
        \/ task'[t] = Retried(k)
    BY <1>5, <1>g DEF Look, k
  <2>2. Quiet(k, [k EXCEPT !.pc = "release", !.verdict = "skip"])
    BY <1>v DEF AtWork
  <2> QED BY <1>0, <1>q, <2>1, <2>2, ParkedQuiet, RetriedQuiet
<1>6. CASE Pause(t) \/ Mark(t) \/ Park(t)
  <2>1. task'[t] = Continue(k) \/ task'[t] = [k EXCEPT !.pc = "park"]
    BY <1>g, <1>6 DEF Pause, Mark, Park, k
  <2>2. Quiet(k, [k EXCEPT !.pc = "park"])
    BY <1>p DEF AtWork
  <2> QED BY <1>0, <1>q, <2>1, <2>2, ContinueQuiet
<1>7. CASE Release(t)
  <2>1. task'[t] = Onward(k, k.cur)
    BY <1>g, <1>7 DEF Release, k
  <2> QED BY <1>0, <1>q, <2>1, OnwardQuiet
<1>8. CASE Write(t)
  <2>1. task'[t] = Onward(k, k.cur) \/ task'[t] = [k EXCEPT !.pc = "clear"] \/ task'[t] = Retried(k)
    BY <1>8, <1>g DEF Write, k
  <2>2. Quiet(k, [k EXCEPT !.pc = "clear"])
    BY <1>p DEF AtWork
  <2> QED BY <1>0, <1>q, <2>1, <2>2, OnwardQuiet, RetriedQuiet
<1>9. CASE Clear(t) \/ ClearThrows(t) \/ Wake(t)
  <2>1. \/ task'[t] = Onward(k, k.cur) \/ task'[t] = Continue(k) \/ task'[t] = Retried(k)
        \/ task'[t] = [k EXCEPT !.pc = "wake"]
    BY <1>9, <1>g DEF Clear, ClearThrows, Wake, AfterClear, k
  <2>2. Quiet(k, [k EXCEPT !.pc = "wake"])
    BY <1>p DEF AtWork
  <2> QED BY <1>0, <1>q, <2>1, <2>2, OnwardQuiet, ContinueQuiet, RetriedQuiet
<1>10. CASE ListLeads(t)
  <2>1. PICK S \in SUBSET {l \in Lead : stamp[l] > k.mark} :
          LET found == [k EXCEPT !.batch = {k.biz} \X S] IN
          \/ task'[t] = Continue(found)
          \/ task'[t] = [found EXCEPT !.pc = "pause"]
          \/ \E problem : task'[t] = [found EXCEPT !.pc = "mark", !.verdict = problem]
    BY <1>10, <1>g DEF ListLeads, k
  <2> DEFINE found == [k EXCEPT !.batch = {k.biz} \X S]
  <2>2. k.biz \in Business
    BY <1>0, <1>10 DEF ListLeads, k, WellPlaced, AnyoneSteps, LeadSteps, PageSteps
  <2>3. {k.biz} \X S \in SUBSET Row
    BY <2>2 DEF Row
  <2>4. found \in TaskType /\ found.job = k.job /\ found.biz = k.biz
    BY <1>0, <2>3 DEF TaskType
  <2>5. /\ Quiet(found, [found EXCEPT !.pc = "pause"])
        /\ \A problem : Quiet(found, [found EXCEPT !.pc = "mark", !.verdict = problem])
    BY <2>4 DEF Quiet, AtWork, TaskType
  <2>6. Quiet(found, task'[t])
    BY <2>1, <2>4, <2>5, ContinueQuiet
  <2> QED BY <1>q, <2>4, <2>6 DEF Quiet
<1>11. CASE SaveFound(t)
  <2>1. \/ task'[t] = CatchUpOver(k)
        \/ \E S : task'[t] = [k EXCEPT !.pc = "next", !.batch = S]
    BY <1>11, <1>g DEF SaveFound, k
  <2>2. \A S : Quiet(k, [k EXCEPT !.pc = "next", !.batch = S])
    BY <1>0 DEF Quiet, AtWork, TaskType
  <2> QED BY <1>q, <2>1, <2>2, CatchUpOverQuiet
<1>12. CASE Polled(t)
  <2>1. \/ task'[t] = CatchUpOver(k)
        \/ task'[t] = [k EXCEPT !.pc = "mark", !.verdict = "not_subscribed"]
    BY <1>12, <1>g DEF Polled, k
  <2>2. Quiet(k, [k EXCEPT !.pc = "mark", !.verdict = "not_subscribed"])
    BY <1>v DEF AtWork
  <2> QED BY <1>q, <2>1, <2>2, CatchUpOverQuiet
<1>13. CASE \/ InsertTestLead(t) \/ CommitTurnOn(t) \/ CommitTurnOff(t) \/ LapseLeftovers(t)
  BY <1>13, <1>g, <1>q, IdleQuiet DEF InsertTestLead, CommitTurnOn, CommitTurnOff, LapseLeftovers
<1>14. CASE \/ Subscribe(t) \/ Unsubscribe(t) \/ StopEvents(t) \/ LapsePagesOff(t)
            \/ Requeue(t) \/ Hasten(t)
  <2>1. \/ task'[t] = Idle
        \/ \E pc \in {"commit", "stop", "leftovers", "hasten", "reload"} :
              task'[t] = [k EXCEPT !.pc = pc]
    BY <1>14, <1>g DEF Subscribe, Unsubscribe, StopEvents, LapsePagesOff, Requeue, Hasten, k
  <2>2. \A pc \in {"commit", "stop", "leftovers", "hasten", "reload"} : pc \notin AtWork
    BY DEF AtWork
  <2> QED BY <1>p, <1>q, <2>1, <2>2, IdleQuiet
<1>15. CASE HealthAnswer(t)
  <2>1. \/ \E problem : task'[t] = [k EXCEPT !.pc = "mark", !.verdict = problem]
        \/ task'[t] = [k EXCEPT !.pc = "clear"] \/ task'[t] = [k EXCEPT !.pc = "pause"]
        \/ task'[t] = Continue(k)
    BY <1>15, <1>g DEF HealthAnswer, k
  <2>2. \A problem : Quiet(k, [k EXCEPT !.pc = "mark", !.verdict = problem])
    BY <1>v DEF AtWork
  <2>3. Quiet(k, [k EXCEPT !.pc = "clear"]) /\ Quiet(k, [k EXCEPT !.pc = "pause"])
    BY <1>p DEF AtWork
  <2> QED BY <1>0, <1>q, <2>1, <2>2, <2>3, ContinueQuiet
<1>16. CASE Reload(t)
  <2>1. \/ \E mark : task'[t] = [Idle EXCEPT !.job = "checkCatchUp", !.biz = k.biz, !.pc = "list",
                                             !.mark = mark]
        \/ task'[t] = [Idle EXCEPT !.job = "checkDrain", !.biz = k.biz, !.pc = "first"]
    BY <1>16, <1>g DEF Reload, k
  <2> QED BY <1>q, <2>1 DEF Quiet, AtWork, Idle
<1> QED BY <1>1, <1>2, <1>3, <1>4, <1>5, <1>6, <1>7, <1>8, <1>9, <1>10, <1>11, <1>12, <1>13, <1>14,
           <1>15, <1>16 DEF Works

(* A Page goes off with its waiting leads, or because its plan ran out.      *)
ReachMoves(b) ==
    Reached(b) => Reached(b)' \/ \A r \in RowsOf(b) : rows'[r].claim = None

LEMMA PagesReach ==
    ASSUME TypeInv, ClaimsWait, LapseIsDue, [Next]_vars
    PROVE  \A b \in Business : ReachMoves(b)
<1> DEFINE Goal == \A b \in Business : ReachMoves(b)
<1>f. pages \in [Business -> PageType] /\ rows \in [Row -> RowType]
  BY DEF TypeInv, TypeOK
<1>a. (\A b \in Business : pages[b].active => pages'[b].active) /\ expired \subseteq expired' => Goal
  BY DEF ReachMoves, Reached
<1>u. UNCHANGED pages /\ UNCHANGED expired => Goal
  BY <1>a
<1>1. ASSUME NEW t \in Task, Works(t) PROVE Goal
  <2> DEFINE k == task[t]
  <2>0. UNCHANGED expired
    BY <1>1 DEF Works, Claim, DrainEnds, Begin, Read, Look, Pause, Mark, Release, Write, Clear,
       ListLeads, SaveFound, Polled, InsertTestLead, Subscribe, CommitTurnOn, Unsubscribe,
       CommitTurnOff, HealthAnswer, Requeue, LapsePagesOff, LapseLeftovers, Park, ClearThrows, Wake,
       StopEvents, Hasten, Reload
  <2>1. CASE Pause(t)
    BY <1>a, <1>f, <2>0, <2>1 DEF Pause, PageType
  <2>2. CASE Mark(t)
    BY <1>a, <1>f, <2>0, <2>2 DEF Mark, PageType
  <2>3. CASE Clear(t)
    BY <1>a, <1>f, <2>0, <2>3 DEF Clear, PageType
  <2>4. CASE CommitTurnOff(t)
    <3>1. \A b \in Business : b # k.biz => pages'[b] = pages[b]
      BY <1>f, <2>4 DEF CommitTurnOff
    <3>2. \A r \in RowsOf(k.biz) : rows'[r].claim = None
      BY <1>f, <2>4, FailLeftoversClaims DEF CommitTurnOff
    <3> QED BY <2>0, <3>1, <3>2 DEF ReachMoves, Reached
  <2>5. CASE CommitTurnOn(t)
    <3>1. CASE UNCHANGED pages
      BY <1>u, <2>0, <3>1
    <3> DEFINE moved == k.other # None /\ pages[k.other].active
    <3>2. CASE /\ \E status : pages' = [b \in Business |->
                     IF b = k.biz THEN [active |-> TRUE, token |-> TRUE, status |-> status,
                                        paused |-> FALSE, since |-> k.mark]
                     ELSE IF b = k.other /\ moved THEN Off(pages[b]) ELSE pages[b]]
               /\ rows' = IF moved THEN FailLeftovers(k.other) ELSE rows
      <4>1. moved => \A r \in RowsOf(k.other) : rows'[r].claim = None
        BY <1>f, <3>2, FailLeftoversClaims
      <4>2. \A b \in Business : pages'[b].active \/ pages'[b] = pages[b] \/ (b = k.other /\ moved)
        BY <3>2
      <4> QED BY <2>0, <4>1, <4>2 DEF ReachMoves, Reached
    <3> QED BY <2>5, <3>1, <3>2 DEF CommitTurnOn
  <2>6. CASE LapsePagesOff(t)
    <3>1. k.biz \in expired
      BY <2>6 DEF LapsePagesOff, LapseIsDue
    <3>2. \A b \in Business : b # k.biz => pages'[b] = pages[b]
      BY <1>f, <2>6 DEF LapsePagesOff
    <3> QED BY <2>0, <3>1, <3>2 DEF ReachMoves, Reached
  <2>7. CASE UNCHANGED pages
    BY <1>u, <2>0, <2>7
  <2> QED BY <1>1, <2>1, <2>2, <2>3, <2>4, <2>5, <2>6, <2>7 DEF Works, Claim, DrainEnds, Begin,
          Read, Look, Release, Write, ListLeads, SaveFound, Polled, InsertTestLead, Subscribe,
          Unsubscribe, HealthAnswer, Requeue, LapseLeftovers, Park, ClearThrows, Wake, StopEvents,
          Hasten, Reload
<1>2. ASSUME NEW b \in Business, Connect(b) PROVE Goal
  <2>1. CASE pages' = [pages EXCEPT ![b] = IF @.active THEN Reconnected(@) ELSE @]
    <3>1. Reconnected(pages[b]).active = pages[b].active
      BY <1>f DEF Reconnected, PageType
    <3> QED BY <1>2, <1>a, <1>f, <2>1, <3>1 DEF Connect
  <2>2. CASE pages' = [pages EXCEPT ![b].status = "needs_reconnect"]
    BY <1>2, <1>a, <1>f, <2>2 DEF Connect, PageType
  <2> QED BY <1>2, <2>1, <2>2 DEF Connect
<1>3. ASSUME NEW b \in Business, ConnectWithoutPermissions(b) PROVE Goal
  BY <1>a, <1>f, <1>3 DEF ConnectWithoutPermissions, PageType
<1>4. ASSUME NEW b \in Business, Deauthorize(b) PROVE Goal
  <2>1. \E status : pages' = [pages EXCEPT ![b] = [@ EXCEPT !.token = FALSE, !.status = status]]
    BY <1>f, <1>4 DEF Deauthorize, PageType
  <2> QED BY <1>4, <1>a, <1>f, <2>1 DEF Deauthorize, PageType
<1>5. ASSUME NEW b \in Business, DataDeletion(b) PROVE Goal
  <2>1. \A c \in Business : c # b => pages'[c] = pages[c]
    BY <1>f, <1>5 DEF DataDeletion
  <2>2. \A r \in RowsOf(b) : rows'[r].claim = None
    BY <1>f, <1>5, FailLeftoversClaims DEF DataDeletion
  <2>3. UNCHANGED expired
    BY <1>5 DEF DataDeletion
  <2> QED BY <2>1, <2>2, <2>3 DEF ReachMoves, Reached
<1>6. ASSUME NEW b \in Business, PauseEnds(b) PROVE Goal
  BY <1>a, <1>f, <1>6 DEF PauseEnds, PageType
<1>7. ASSUME NEW b \in Business, PlanRunsOut(b) PROVE Goal
  BY <1>a, <1>7 DEF PlanRunsOut
<1>8. ASSUME NEW t \in Task, Starts(t) \/ Throws(t) PROVE UNCHANGED <<pages, expired>>
  BY <1>8 DEF Starts, StartDrain, StartCatchUp, StartTurnOn, StartTurnOff, StartHealth, StartLapse,
     Throws
<1>9. CASE Arrivals \/ GiveUpOld \/ Crash \/ UNCHANGED vars
  BY <1>9, <1>u DEF Arrivals, FillLead, Webhook, StartTestLead, GiveUpOld, Crash, vars
<1>10. CASE Facebook
  BY <1>2, <1>3, <1>4, <1>5, <1>7, <1>10 DEF Facebook
<1>11. CASE Clock
  BY <1>6, <1>u, <1>11 DEF Clock, LeaseLapses, TakesTooLong, ComesDue, GrowsOld, HourPasses
<1> QED BY <1>1, <1>8, <1>9, <1>10, <1>11, <1>u DEF Next

(* A job that starts is about no plan's lapse, or about a plan that ran out. *)
LapseMoves(t) == task'[t].job = "lapse" =>
                    \/ task[t].job = "lapse" /\ task'[t].biz = task[t].biz
                    \/ task'[t].biz \in expired

LEMMA StartsMoves ==
    ASSUME TypeInv, NEW t \in Task, Starts(t)
    PROVE  task'[t].pc \notin AtWork /\ LapseMoves(t)
<1>0. \A n : Goto(t, n) => task'[t] = n
  BY DEF TypeInv, TypeOK, Goto
<1>1. CASE StartDrain(t)
  BY <1>0, <1>1 DEF StartDrain, AtWork, LapseMoves, Idle
<1>2. ASSUME NEW b \in Business, StartCatchUp(t, b)
      PROVE  task'[t].pc \notin AtWork /\ LapseMoves(t)
  <2> DEFINE since == pages[b].since
  <2>1. task'[t] = [Idle EXCEPT !.job = "catchUp", !.biz = b, !.pc = "list", !.mark = since]
    BY <1>0, <1>2 DEF StartCatchUp
  <2> HIDE DEF since
  <2> QED BY <2>1 DEF AtWork, LapseMoves, Idle
<1>3. ASSUME NEW b \in Business, StartTurnOn(t, b)
      PROVE  task'[t].pc \notin AtWork /\ LapseMoves(t)
  <2> DEFINE now == Now
             waits == {r \in Row : rows[r].status = "absent"}
             k == [Idle EXCEPT !.job = "turnOn", !.biz = b, !.mark = now]
  <2>1. \/ task'[t] = [k EXCEPT !.pc = "subscribe"]
        \/ \E o : task'[t] = [k EXCEPT !.pc = "first", !.other = o, !.skip = waits]
    BY <1>0, <1>3 DEF StartTurnOn
  <2> HIDE DEF now, waits
  <2>2. task'[t].job = "turnOn" /\ task'[t].pc \in {"subscribe", "first"}
    BY <2>1 DEF Idle
  <2> QED BY <2>2 DEF AtWork, LapseMoves
<1>4. ASSUME NEW b \in Business, StartTurnOff(t, b)
      PROVE  task'[t].pc \notin AtWork /\ LapseMoves(t)
  <2> DEFINE waits == {r \in Row : rows[r].status = "absent"}
  <2>1. \E job \in {"turnOff", "disconnect"} :
            task'[t] = [Idle EXCEPT !.job = job, !.biz = b, !.pc = "first", !.skip = waits]
    BY <1>0, <1>4 DEF StartTurnOff
  <2> HIDE DEF waits
  <2> QED BY <2>1 DEF AtWork, LapseMoves, Idle
<1>5. ASSUME NEW b \in Business, StartHealth(t, b)
      PROVE  task'[t].pc \notin AtWork /\ LapseMoves(t)
  <2> DEFINE sick == pages[b].status \in PageProblems
             k(job) == [Idle EXCEPT !.job = job, !.biz = b, !.sick = sick]
  <2>1. \E job \in {"health", "checkHealth"} :
            \/ task'[t] = [k(job) EXCEPT !.pc = "health"]
            \/ task'[t] = [k(job) EXCEPT !.pc = "mark", !.verdict = "needs_reconnect"]
    BY <1>0, <1>5 DEF StartHealth
  <2> HIDE DEF sick
  <2>2. PICK job \in {"health", "checkHealth"} :
            \/ task'[t] = [k(job) EXCEPT !.pc = "health"]
            \/ task'[t] = [k(job) EXCEPT !.pc = "mark", !.verdict = "needs_reconnect"]
    BY <2>1
  <2>3. task'[t].job = job /\ task'[t].pc \in {"health", "mark"}
    BY <2>2 DEF Idle
  <2>4. job # "lapse"
    OBVIOUS
  <2> QED BY <2>3, <2>4 DEF AtWork, LapseMoves
<1>6. ASSUME NEW b \in Business, StartLapse(t, b)
      PROVE  task'[t].pc \notin AtWork /\ LapseMoves(t)
  <2>1. task'[t] = [Idle EXCEPT !.job = "lapse", !.biz = b, !.pc = "unsub"] /\ b \in expired
    BY <1>0, <1>6 DEF StartLapse
  <2> QED BY <2>1 DEF AtWork, LapseMoves, Idle
<1> QED BY <1>1, <1>2, <1>3, <1>4, <1>5, <1>6 DEF Starts

(* Where every job may be after a step. *)
TaskMoves(t) ==
    \/ task'[t] = task[t]
    \/ WriterMoves(t)
    \/ task'[t].pc \notin AtWork /\ LapseMoves(t)

LEMMA NextTasks ==
    ASSUME TypeInv, [Next]_vars
    PROVE  \A t \in Task : TaskMoves(t)
<1> SUFFICES ASSUME NEW t \in Task PROVE TaskMoves(t)
  OBVIOUS
<1>0. task \in [Task -> TaskType]
  BY DEF TypeInv, TypeOK
<1>g. \A u, n : Goto(u, n) /\ u # t => task'[t] = task[t]
  BY <1>0 DEF Goto
<1>i. task'[t] = Idle => TaskMoves(t)
  BY DEF TaskMoves, LapseMoves, AtWork, Idle
<1>1. ASSUME NEW u \in Task, Works(u) PROVE TaskMoves(t)
  <2>1. CASE u = t
    BY <1>1, <2>1, WorksWriter DEF TaskMoves
  <2>2. CASE u # t
    BY <1>1, <1>g, <2>2 DEF TaskMoves, Works, Claim, DrainEnds, Begin, Read, Look, Pause, Mark,
       Release, Write, Clear, ListLeads, SaveFound, Polled, InsertTestLead, Subscribe,
       CommitTurnOn, Unsubscribe, CommitTurnOff, HealthAnswer, Requeue, LapsePagesOff,
       LapseLeftovers, Park, ClearThrows, Wake, StopEvents, Hasten, Reload
  <2> QED BY <2>1, <2>2
<1>2. ASSUME NEW u \in Task, Starts(u) PROVE TaskMoves(t)
  <2>1. CASE u = t
    BY <1>2, <2>1, StartsMoves DEF TaskMoves
  <2>2. CASE u # t
    BY <1>2, <1>g, <2>2 DEF TaskMoves, Starts, StartDrain, StartCatchUp, StartTurnOn, StartTurnOff,
       StartHealth, StartLapse
  <2> QED BY <2>1, <2>2
<1>3. ASSUME NEW u \in Task, Throws(u) PROVE TaskMoves(t)
  BY <1>0, <1>3, <1>i DEF Throws, Goto, TaskMoves
<1>4. CASE Arrivals
  <2>1. ASSUME NEW l \in Lead, FillLead(l) \/ Webhook(l) PROVE TaskMoves(t)
    BY <2>1 DEF FillLead, Webhook, TaskMoves
  <2>2. ASSUME NEW l \in Lead, NEW u \in Task, NEW b \in Business, StartTestLead(u, b, l)
        PROVE  TaskMoves(t)
    <3> DEFINE lead == {<<b, l>>}
    <3>1. Goto(u, [Idle EXCEPT !.job = "test", !.biz = b, !.pc = "insert", !.batch = lead])
      BY <2>2 DEF StartTestLead
    <3> HIDE DEF lead
    <3>2. CASE u = t
      <4>1. task'[t].job = "test" /\ task'[t].pc = "insert"
        BY <1>0, <3>1, <3>2 DEF Goto, Idle
      <4> QED BY <4>1 DEF TaskMoves, LapseMoves, AtWork
    <3> QED BY <1>g, <3>1, <3>2 DEF TaskMoves
  <2> QED BY <1>4, <2>1, <2>2 DEF Arrivals
<1>5. CASE Facebook \/ Clock \/ GiveUpOld \/ UNCHANGED vars
  BY <1>5 DEF Facebook, Connect, ConnectWithoutPermissions, Deauthorize, DataDeletion, PlanRunsOut,
     Clock, LeaseLapses, TakesTooLong, ComesDue, GrowsOld, PauseEnds, HourPasses, GiveUpOld,
     vars, TaskMoves
<1>6. CASE Crash
  BY <1>6, <1>i DEF Crash
<1> QED BY <1>1, <1>2, <1>3, <1>4, <1>5, <1>6 DEF Next

LEMMA ExpiredGrows ==
    ASSUME [Next]_vars
    PROVE  expired \subseteq expired'
<1>1. ASSUME NEW t \in Task, Works(t) PROVE UNCHANGED expired
  BY <1>1 DEF Works, Claim, DrainEnds, Begin, Read, Look, Pause, Mark, Release, Write, Clear,
     ListLeads, SaveFound, Polled, InsertTestLead, Subscribe, CommitTurnOn, Unsubscribe,
     CommitTurnOff, HealthAnswer, Requeue, LapsePagesOff, LapseLeftovers, Park, ClearThrows, Wake,
     StopEvents, Hasten, Reload
<1>2. ASSUME NEW t \in Task, Starts(t) \/ Throws(t) PROVE UNCHANGED expired
  BY <1>2 DEF Starts, StartDrain, StartCatchUp, StartTurnOn, StartTurnOff, StartHealth, StartLapse,
     Throws
<1>3. CASE Arrivals \/ GiveUpOld \/ Crash \/ Clock \/ UNCHANGED vars
  BY <1>3 DEF Arrivals, FillLead, Webhook, StartTestLead, GiveUpOld, Crash, Clock, LeaseLapses,
     TakesTooLong, ComesDue, GrowsOld, PauseEnds, HourPasses, vars
<1>4. CASE Facebook
  BY <1>4 DEF Facebook, Connect, ConnectWithoutPermissions, Deauthorize, DataDeletion, PlanRunsOut
<1> QED BY <1>1, <1>2, <1>3, <1>4 DEF Next

LEMMA OffInvStep ==
    ASSUME TypeInv, OffInv, [Next]_vars
    PROVE  OffInv'
<1>0. ClaimsWait /\ LapseIsDue /\ WriterMay /\ rows \in [Row -> RowType]
  BY DEF OffInv, TypeInv, TypeOK
<1>t. TypeInv'
  BY TypeStep
<1>c. \A r \in Row : ClaimMoves(r)
  BY <1>0, NextClaims
<1>p. \A b \in Business : ReachMoves(b)
  BY <1>0, PagesReach
<1>m. \A t \in Task : TaskMoves(t)
  BY NextTasks
<1>e. expired \subseteq expired'
  BY ExpiredGrows
<1>1. ClaimsWait'
  BY <1>c DEF ClaimsWait, ClaimMoves
<1>2. LapseIsDue'
  <2> SUFFICES ASSUME NEW t \in Task, task'[t].job = "lapse" PROVE task'[t].biz \in expired'
    BY DEF LapseIsDue
  <2>1. (task[t].job = "lapse" /\ task'[t].biz = task[t].biz) \/ task'[t].biz \in expired
    BY <1>m DEF TaskMoves, WriterMoves, Quiet, LapseMoves
  <2> QED BY <1>0, <1>e, <2>1 DEF LapseIsDue
<1>3. WriterMay'
  <2> SUFFICES ASSUME NEW t \in Task, task'[t].pc \in AtWork, NEW r \in Row, r = task'[t].cur,
                      rows'[r].claim = t
               PROVE  pages'[r[1]].active \/ r[1] \in expired'
    <3>1. ASSUME NEW t \in Task, task'[t].pc \in AtWork PROVE task'[t].cur \in Row
      BY <1>t, <3>1 DEF TypeInv, TypeOK, TaskType, WellPlaced, AtWork, LeadSteps
    <3> QED BY <3>1 DEF WriterMay, AtWork, Held, Reached
  <2>1. r[1] \in Business /\ t # None
    BY IntakeAssumption DEF IntakeAssumption, Row
  <2>2. rows[r].claim = t /\ rows[r].status = "queued"
    <3>1. task'[t].pc # "next"
      BY DEF AtWork
    <3>2. rows[r].claim = t
      BY <1>c, <2>1, <3>1 DEF ClaimMoves
    <3> QED BY <1>0, <2>1, <3>2 DEF ClaimsWait
  <2>3. Reached(r[1]) => pages'[r[1]].active \/ r[1] \in expired'
    BY <1>p, <2>1 DEF ReachMoves, RowsOf, Reached
  <2>4. \/ task[t].pc \in AtWork /\ r = task[t].cur
        \/ pages'[r[1]].active
    BY <1>m DEF TaskMoves, WriterMoves, Quiet
  <2>5. CASE task[t].pc \in AtWork /\ r = task[t].cur
    <3>1. Reached(r[1])
      BY <1>0, <2>2, <2>5 DEF WriterMay, Held
    <3> QED BY <2>3, <3>1
  <2> QED BY <2>4, <2>5
<1> QED BY <1>1, <1>2, <1>3 DEF OffInv

LEMMA OffInit == Init => OffInv
<1> SUFFICES ASSUME Init PROVE OffInv
  OBVIOUS
<1>1. ClaimsWait
  BY DEF Init, ClaimsWait, NoRow
<1>2. LapseIsDue /\ WriterMay
  BY DEF Init, LapseIsDue, WriterMay, AtWork, Idle
<1> QED BY <1>1, <1>2 DEF OffInv

LEMMA OffInvariant == Spec => [](TypeInv /\ OffInv)
<1>1. Init => TypeInv /\ OffInv
  BY TypeInit, OffInit
<1>2. TypeInv /\ OffInv /\ [Next]_vars => TypeInv' /\ OffInv'
  BY TypeStep, OffInvStep
<1> QED BY <1>1, <1>2, PTL DEF Spec

(* Only a job that holds the row brings its lead in. *)
LEMMA WhoeverWrites ==
    ASSUME TypeInv, [Next]_vars, NEW r \in Row, made'[r] # made[r]
    PROVE  \E t \in Task : task[t].pc \in AtWork /\ Held(t, task[t].cur) /\ task[t].cur = r
<1>0. made \in [Row -> Nat]
  BY DEF TypeInv, TypeOK
<1>1. \E t \in Task : Write(t)
  <2>1. ASSUME NEW t \in Task, Works(t), ~Write(t) PROVE UNCHANGED made
    BY <2>1 DEF Works, Claim, DrainEnds, Begin, Read, Look, Pause, Mark, Release, Clear, ListLeads,
       SaveFound, Polled, InsertTestLead, Subscribe, CommitTurnOn, Unsubscribe, CommitTurnOff,
       HealthAnswer, Requeue, LapsePagesOff, LapseLeftovers, Park, ClearThrows, Wake, StopEvents,
       Hasten, Reload
  <2>2. ASSUME NEW t \in Task, Starts(t) \/ Throws(t) PROVE UNCHANGED made
    BY <2>2 DEF Starts, StartDrain, StartCatchUp, StartTurnOn, StartTurnOff, StartHealth,
       StartLapse, Throws
  <2>3. CASE Arrivals \/ GiveUpOld \/ Crash \/ Clock \/ UNCHANGED vars
    BY <2>3 DEF Arrivals, FillLead, Webhook, StartTestLead, GiveUpOld, Crash, Clock, LeaseLapses,
       TakesTooLong, ComesDue, GrowsOld, PauseEnds, HourPasses, vars
  <2>4. CASE Facebook
    BY <2>4 DEF Facebook, Connect, ConnectWithoutPermissions, Deauthorize, DataDeletion, PlanRunsOut
  <2> QED BY <2>1, <2>2, <2>3, <2>4 DEF Next
<1>2. PICK t \in Task : Write(t)
  BY <1>1
<1>3. Held(t, task[t].cur) /\ made' = [made EXCEPT ![task[t].cur] = @ + 1] /\ task[t].pc = "write"
  BY <1>2 DEF Write, Writable
<1> QED BY <1>0, <1>3 DEF AtWork

(* However turning off, moving, revoking, lapsed plans, catch-ups and test   *)
(* leads mix with the workers, no enquiry is made for a business that does   *)
(* not have the Page on, unless its plan ran out.                            *)
THEOREM NothingWhileOff == Spec => NoEnquiryWhileOff
<1>1. TypeInv /\ OffInv /\ [Next]_vars =>
        \A r \in Row : made'[r] > made[r] => pages[r[1]].active \/ r[1] \in expired
  <2> SUFFICES ASSUME TypeInv, OffInv, [Next]_vars, NEW r \in Row, made'[r] > made[r]
               PROVE  Reached(r[1])
    BY DEF Reached
  <2>1. made'[r] # made[r]
    BY DEF TypeInv, TypeOK
  <2>2. PICK t \in Task : task[t].pc \in AtWork /\ Held(t, task[t].cur) /\ task[t].cur = r
    BY <2>1, WhoeverWrites
  <2> QED BY <2>2 DEF OffInv, WriterMay
<1> QED BY <1>1, OffInvariant, PTL DEF Spec, NoEnquiryWhileOff

-----------------------------------------------------------------------------
(* What a step may do to a row somebody holds.                               *)
LeaseKept(r) ==
    \/ rows[r].claim = None
    \/ rows'[r].status = rows[r].status /\ rows'[r].attempts = rows[r].attempts
    \/ rows'[r].status \in {"page_off", "expired"}
    \/ LET t == rows[r].claim IN task[t].cur = r /\ task'[t] # task[t]

LEMMA FailLeftoversLease ==
    ASSUME NEW b, rows' = FailLeftovers(b), rows \in [Row -> RowType]
    PROVE  \A r \in Row : LeaseKept(r)
<1>1. \A row \in RowType : Settled(row, "page_off").status = "page_off"
  BY DEF Settled, NoRow
<1> QED BY <1>1 DEF FailLeftovers, UpdateQueued, LeaseKept

LEMMA MakeDueLease ==
    ASSUME NEW b, NEW isDue, rows' = MakeDue(b, isDue), rows \in [Row -> RowType]
    PROVE  \A r \in Row : LeaseKept(r)
<1>1. \A row \in RowType : LET n == [row EXCEPT !.due = isDue] IN
                             n.attempts = row.attempts /\ n.status = row.status
  BY DEF RowType
<1> QED BY <1>1 DEF MakeDue, UpdateQueued, LeaseKept

LEMMA WorksLease ==
    ASSUME TypeInv, ClaimsWait, NEW t \in Task, Works(t)
    PROVE  \A r \in Row : LeaseKept(r)
<1> DEFINE k == task[t]
           Goal == \A r \in Row : LeaseKept(r)
<1>0. rows \in [Row -> RowType] /\ k \in TaskType /\ WellPlaced(k) /\ task \in [Task -> TaskType]
  BY DEF TypeInv, TypeOK
<1>w. \A r \in Row : rows[r].claim # None => rows[r].status = "queued"
  BY DEF ClaimsWait
<1>u. UNCHANGED rows => Goal
  BY DEF LeaseKept
<1>e. \A row \in RowType : \A c, l : LET n == [row EXCEPT !.claim = c, !.lapsed = l] IN
                             n.attempts = row.attempts /\ n.status = row.status
  BY DEF RowType
<1>g. \A n : Goto(t, n) => task'[t] = n
  BY <1>0 DEF Goto
<1>c. k.pc \in {"release", "write"} => k.cur \in Row
  BY <1>0 DEF WellPlaced, LeadSteps, TaskType
<1>m. \A new : k.pc \in {"release", "write"} /\ k.cur \in Row /\ rows[k.cur].claim = t
                 /\ rows' = [rows EXCEPT ![k.cur] = new] /\ task'[t].pc # k.pc => Goal
  BY <1>0 DEF LeaseKept
<1> HIDE DEF k
<1>1. CASE Claim(t)
  <2>1. PICK S \in SUBSET Claimable(k) :
          rows' = [r \in Row |-> IF r \in S THEN [rows[r] EXCEPT !.claim = t, !.lapsed = FALSE]
                                            ELSE rows[r]]
    BY <1>1 DEF Claim, k
  <2>2. ASSUME NEW r \in Row PROVE LeaseKept(r)
    <3>1. /\ rows[r] \in RowType
          /\ rows'[r] = rows[r] \/ rows'[r] = [rows[r] EXCEPT !.claim = t, !.lapsed = FALSE]
      BY <1>0, <2>1
    <3> DEFINE n == [rows[r] EXCEPT !.claim = t, !.lapsed = FALSE]
    <3>2. n.attempts = rows[r].attempts /\ n.status = rows[r].status
      BY <3>1 DEF RowType
    <3>3. rows'[r].attempts = rows[r].attempts /\ rows'[r].status = rows[r].status
      BY <3>1, <3>2
    <3> QED BY <3>3 DEF LeaseKept
  <2> QED BY <2>2
<1>2. ASSUME NEW r \in Row, Begin(t, r) PROVE Goal
  <2>1. CASE UNCHANGED rows
    BY <1>u, <2>1
  <2>2. CASE rows' = [rows EXCEPT ![r] = Freed(@)]
    BY <1>0, <1>e, <2>2 DEF Freed, LeaseKept
  <2> QED BY <1>2, <2>1, <2>2 DEF Begin
<1>3. CASE Park(t) \/ Wake(t)
  BY <1>0, <1>3, MakeDueLease DEF Park, Wake
<1>4. CASE Hasten(t)
  BY <1>0, <1>4, MakeDueLease DEF Hasten
<1>5. CASE Release(t)
  <2>1. k.pc = "release" /\ task'[t] = Onward(k, k.cur)
    BY <1>5, <1>g DEF Release, k
  <2>2. task'[t].pc # k.pc
    <3> DEFINE rest == k.batch \ {k.cur}
               pc == IF rest # {} THEN "next" ELSE IF CatchingUp(k) THEN "polled" ELSE "again"
    <3>1. task'[t] = [k EXCEPT !.batch = rest, !.cur = None, !.tries = 0, !.sick = FALSE,
                               !.verdict = "none", !.pc = pc]
      BY <2>1 DEF Onward
    <3>2. pc # "release"
      OBVIOUS
    <3> HIDE DEF rest, pc
    <3>3. task'[t].pc = pc
      BY <1>0, <3>1 DEF TaskType
    <3> QED BY <2>1, <3>2, <3>3
  <2>3. CASE UNCHANGED rows
    BY <1>u, <2>3
  <2>4. CASE Held(t, k.cur) /\ rows' = [rows EXCEPT ![k.cur] = AfterTry(@, k.verdict, k.tries)]
    BY <1>c, <1>m, <2>1, <2>2, <2>4 DEF Held
  <2> QED BY <1>5, <2>3, <2>4 DEF Release, k
<1>6. CASE Write(t)
  <2>1. CASE UNCHANGED rows
    BY <1>u, <2>1
  <2>2. CASE /\ Held(t, k.cur) /\ Goto(t, [k EXCEPT !.pc = "clear"])
             /\ \E status \in BroughtIn : rows' = [rows EXCEPT ![k.cur] = Settled(@, status)]
    <3>1. k.pc = "write"
      BY <1>6 DEF Write, k
    <3>2. task'[t].pc = "clear"
      BY <1>0, <1>g, <2>2 DEF TaskType
    <3> QED BY <1>c, <1>m, <2>2, <3>1, <3>2 DEF Held
  <2> QED BY <1>6, <2>1, <2>2 DEF Write, Writable, k
<1>7. CASE SaveFound(t) \/ InsertTestLead(t)
  <2>1. \A r \in Row : rows'[r] = rows[r] \/ rows[r].status = "absent"
    BY <1>7 DEF SaveFound, InsertTestLead
  <2> QED BY <1>w, <2>1 DEF LeaseKept
<1>8. CASE CommitTurnOn(t)
  BY <1>0, <1>8, <1>u, FailLeftoversLease DEF CommitTurnOn
<1>9. CASE CommitTurnOff(t) \/ LapseLeftovers(t)
  BY <1>0, <1>9, FailLeftoversLease DEF CommitTurnOff, LapseLeftovers
<1>10. CASE Requeue(t)
  <2>1. \A r \in Row : rows'[r] = rows[r] \/ rows[r].status = "out_of_tries"
    BY <1>10 DEF Requeue, TriesAgain
  <2> QED BY <1>w, <2>1 DEF LeaseKept
<1>11. CASE UNCHANGED rows
  BY <1>u, <1>11
<1> QED BY <1>1, <1>2, <1>3, <1>4, <1>5, <1>6, <1>7, <1>8, <1>9, <1>10, <1>11
        DEF Works, DrainEnds, Read, Look, Pause, Mark, Clear, ClearThrows, ListLeads, Polled,
            Subscribe, Unsubscribe, StopEvents, HealthAnswer, Reload, LapsePagesOff

LEMMA NextLease ==
    ASSUME TypeInv, ClaimsWait, [Next]_vars
    PROVE  \A r \in Row : LeaseKept(r)
<1> DEFINE Goal == \A r \in Row : LeaseKept(r)
<1>0. rows \in [Row -> RowType]
  BY DEF TypeInv, TypeOK
<1>w. \A r \in Row : rows[r].claim # None => rows[r].status = "queued"
  BY DEF ClaimsWait
<1>u. UNCHANGED rows => Goal
  BY DEF LeaseKept
<1>1. CASE Arrivals
  <2>1. ASSUME NEW l \in Lead, Webhook(l) PROVE Goal
    BY <1>w, <2>1 DEF Webhook, LeaseKept
  <2> QED BY <1>1, <1>u, <2>1 DEF Arrivals, FillLead, StartTestLead
<1>2. ASSUME NEW t \in Task, Works(t) PROVE Goal
  BY <1>2, WorksLease
<1>3. ASSUME NEW t \in Task, Starts(t) \/ Throws(t) PROVE UNCHANGED rows
  BY <1>3 DEF Starts, StartDrain, StartCatchUp, StartTurnOn, StartTurnOff, StartHealth,
     StartLapse, Throws
<1>4. CASE Facebook
  <2>1. ASSUME NEW b \in Business, Connect(b) PROVE Goal
    BY <1>0, <1>u, <2>1, MakeDueLease DEF Connect
  <2>2. ASSUME NEW b \in Business, DataDeletion(b) PROVE Goal
    BY <1>0, <2>2, FailLeftoversLease DEF DataDeletion
  <2> QED BY <1>4, <1>u, <2>1, <2>2 DEF Facebook, ConnectWithoutPermissions, Deauthorize,
          PlanRunsOut
<1>5. CASE Clock
  <2>1. ASSUME NEW r \in Row, LeaseLapses(r) \/ TakesTooLong(r) \/ ComesDue(r) \/ GrowsOld(r)
        PROVE  Goal
    BY <1>0, <2>1 DEF LeaseLapses, TakesTooLong, ComesDue, GrowsOld, LeaseKept, RowType
  <2> QED BY <1>5, <1>u, <2>1 DEF Clock, PauseEnds, HourPasses
<1>6. CASE GiveUpOld
  <2>1. \A row \in RowType : Settled(row, "expired").status = "expired"
    BY DEF Settled, NoRow
  <2> QED BY <1>0, <1>6, <2>1 DEF GiveUpOld, LeaseKept
<1>7. CASE Crash \/ UNCHANGED vars
  BY <1>7, <1>u DEF Crash, vars
<1> QED BY <1>1, <1>2, <1>3, <1>4, <1>5, <1>6, <1>7, <1>u DEF Next

(* While a lease lasts only its holder settles or counts a try on the lead,  *)
(* whoever else drains, catches up, tries again or dies; a Page going off    *)
(* and the lead growing too old override it.                                 *)
THEOREM LeasesRespected == Spec => LeaseRespected
<1>1. TypeInv /\ OffInv /\ [Next]_vars =>
        \A r \in Row :
            LET t == rows[r].claim IN
            (/\ t # None /\ ~rows[r].lapsed
             /\ \/ rows'[r].status # rows[r].status
                \/ rows'[r].attempts # rows[r].attempts)
            => \/ task'[t] # task[t] /\ task[t].cur = r
               \/ rows'[r].status \in {"page_off", "expired"}
  BY NextLease DEF OffInv, LeaseKept
<1> QED BY <1>1, OffInvariant, PTL DEF Spec, LeaseRespected
=============================================================================
