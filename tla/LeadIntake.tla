----------------------------- MODULE LeadIntake -----------------------------
(* How the leads of one Facebook Page reach the businesses that share it:    *)
(* the webhook and the catch-up put them in incoming_leads, workers claim    *)
(* them under a two-minute lease, read them from Meta and bring each one in, *)
(* while owners switch the Page on and off, move it to another business,     *)
(* reconnect or disconnect, Facebook revokes access, and the process dies.   *)
(*                                                                           *)
(* One action is one database statement or transaction, or the answer of one *)
(* Graph call.  A time is abstracted to what the code compares it with: a    *)
(* row is due or not, its lease has lapsed or not, it is past 80 days or     *)
(* not; the clock's actions move these flags.                                *)
EXTENDS Integers, FiniteSets

CONSTANTS
    Business,        \* the workspaces with a meta_pages row for this Page
    Lead,            \* the leads people may fill in
    Task,            \* jobs of the API process that may run at once
    None,            \* no task, no business, no row
    MaxTries,        \* worker.ts: tries before a lead shows as not brought in
    AmbiguousTries,  \* worker.ts: "not found" is a hiccup for this many tries
    PerPage,         \* worker.ts: leads per Page per batch
    Plays,           \* bound: the jobs each task may run
    Answers,         \* bound: what the Graph may answer a read
    MaxUpsets        \* bound: crashes, exceptions, slow goes and interventions by
                     \* Facebook or billing in one behaviour

ASSUME IntakeAssumption ==
    /\ IsFiniteSet(Lead)
    /\ MaxTries \in Nat \ {0}
    /\ AmbiguousTries \in Nat
    /\ PerPage \in Nat \ {0}
    /\ Plays \in [Task -> SUBSET {"drain", "turnOff", "disconnect", "turnOn", "catchUp",
                                  "health", "checkHealth", "lapse", "test"}]
    /\ Answers \subseteq {"ok", "token", "rate_limit", "permission", "not_found", "transient"}
    /\ MaxUpsets \in Nat
    /\ None \notin Business \cup Task \cup (Business \X Lead)

VARIABLES
    pages,       \* meta_pages: this Page's row in each business
    rows,        \* incoming_leads, one per business and lead
    made,        \* history: how often each row went through intakeLead
    stamp,       \* when each lead was filled in: its place in that order, or 0
    task,        \* the running jobs
    probed,      \* worker.ts probedAt: businesses whose Page was probed this hour
    conn,        \* meta_connections: the business's Facebook login
    subscribed,  \* Meta sends this Page's leads to the app
    expired,     \* plans that ran out more than 30 days ago
    upsets       \* crashes, slow goes and interventions so far

vars == <<pages, rows, made, stamp, task, probed, conn, subscribed, expired, upsets>>

Row == Business \X Lead

ReadProblems == {"needs_reconnect", "lead_access", "permission_missing"}
PageProblems == ReadProblems \cup {"not_subscribed"}
PageStatus == PageProblems \cup {"ok", "off"}

(* A failed row keeps the reason "Try again" looks at: out of tries, the     *)
(* Page was turned off first, or past what Meta keeps.                       *)
NotBroughtIn == {"out_of_tries", "page_off", "expired"}
BroughtIn == {"added", "merged"}
RowStatus == {"absent", "queued", "skipped"} \cup BroughtIn \cup NotBroughtIn

NoRow == [status |-> "absent", attempts |-> 0, due |-> FALSE, claim |-> None,
          lapsed |-> FALSE, old |-> FALSE, test |-> FALSE]

Idle == [job |-> "none", biz |-> None, pc |-> "idle", batch |-> {}, skip |-> {},
         cur |-> None, tries |-> 0, sick |-> FALSE, verdict |-> "none", mark |-> 0,
         other |-> None]

Init ==
    /\ pages = [b \in Business |-> [active |-> FALSE, token |-> FALSE, status |-> "off",
                                    paused |-> FALSE, since |-> 0]]
    /\ rows = [r \in Row |-> NoRow]
    /\ made = [r \in Row |-> 0]
    /\ stamp = [l \in Lead |-> 0]
    /\ task = [t \in Task |-> Idle]
    /\ probed = {}
    /\ conn = [b \in Business |-> "ok"]
    /\ subscribed = FALSE
    /\ expired = {}
    /\ upsets = 0

-----------------------------------------------------------------------------
(* Pieces of the statements                                                  *)

RowsOf(b) == {r \in Row : r[1] = b}

(* How many leads have been filled in: the time "now". *)
Now == Cardinality({l \in Lead : stamp[l] > 0})

Off(p) == [p EXCEPT !.active = FALSE, !.token = FALSE, !.status = "off", !.paused = FALSE]

(* The columns an UPDATE clears together: locked_until and claim_token. *)
Freed(row) == [row EXCEPT !.claim = None, !.lapsed = FALSE]

(* A row that is settled; only what "Try again" still reads is kept. *)
Settled(row, status) == [NoRow EXCEPT !.status = status, !.old = row.old, !.test = row.test]

(* The rows R with f of each row in place of the queued ones among them. *)
UpdateQueued(R, f(_)) ==
    [r \in Row |-> IF r \in R /\ rows[r].status = "queued" THEN f(rows[r]) ELSE rows[r]]

(* Mutant: the Page goes off and its waiting leads are left as they are. *)
LeaveLeftovers(b) == rows

FailLeftovers(b) ==
    LET f(row) == Settled(row, "page_off") IN UpdateQueued(RowsOf(b), f)

MakeDue(b, isDue) ==
    LET f(row) == [row EXCEPT !.due = isDue] IN UpdateQueued(RowsOf(b), f)

(* Mutant: a release or a write that does not ask for its own claim. *)
HeldByAnyone(t, r) == rows[r].status = "queued"

(* Claimed by this task and still waiting: the guard of every UPDATE a task  *)
(* makes to a row, checked under the row's lock.                             *)
Held(t, r) == rows[r].status = "queued" /\ rows[r].claim = t

Goto(t, k) == task' = [task EXCEPT ![t] = k]

Upset == upsets < MaxUpsets /\ upsets' = upsets + 1

MayStart(t, job) == task[t] = Idle /\ job \in Plays[t]

-----------------------------------------------------------------------------
(* The queue: claiming a batch                                               *)

Forced(k) == k.job \in {"turnOff", "disconnect", "turnOn"}
CatchingUp(k) == k.job \in {"catchUp", "checkCatchUp"}

(* Whose rows this drain works on; None is everybody's. *)
Target(k) == IF k.job = "turnOn" THEN k.other ELSE k.biz

(* Mutant: a lease that never runs out. *)
FreeIfUnclaimed(r) == rows[r].claim = None

(* Nobody holds the row, or its holder's two minutes are over. *)
Free(r) == rows[r].claim = None \/ rows[r].lapsed

Claimable(k) ==
    {r \in Row :
        LET p == pages[r[1]] IN
        /\ rows[r].status = "queued"
        /\ Free(r)
        /\ p.active /\ p.token
        /\ \/ Forced(k)
           \/ /\ rows[r].due
              /\ ~p.paused
              /\ ~(p.status \in ReadProblems /\ r[1] \in probed)
        /\ Target(k) \in {None, r[1]}
        /\ r \notin k.skip}

BatchLimit(k, b) ==
    IF ~Forced(k) /\ pages[b].status \in ReadProblems THEN 1 ELSE PerPage

(* The timer, a nudge or the tick. *)
StartDrain(t) ==
    /\ MayStart(t, "drain")
    /\ Goto(t, [Idle EXCEPT !.job = "drain", !.pc = "first"])
    /\ UNCHANGED <<pages, rows, made, stamp, probed, conn, subscribed, expired, upsets>>

Claim(t) ==
    LET k == task[t] IN
    /\ k.pc \in {"first", "again"}
    /\ \E S \in SUBSET Claimable(k) :
        /\ S # {}
        /\ \A b \in Business : Cardinality(S \cap RowsOf(b)) <= BatchLimit(k, b)
        /\ rows' = [r \in Row |-> IF r \in S THEN [rows[r] EXCEPT !.claim = t, !.lapsed = FALSE]
                                             ELSE rows[r]]
        /\ Goto(t, [k EXCEPT !.pc = "next", !.batch = S, !.skip = @ \cup S])
    /\ UNCHANGED <<pages, made, stamp, probed, conn, subscribed, expired, upsets>>

(* Nothing left to claim, or the 20 seconds are over (they cannot be over    *)
(* before the first batch).  What follows depends on who asked.              *)
DrainEnds(t) ==
    LET k == task[t] IN
    /\ \/ k.pc = "again"
       \/ k.pc = "first" /\ Claimable(k) = {}
    /\ Goto(t, CASE k.job \in {"turnOff", "disconnect"} -> [k EXCEPT !.pc = "unsub", !.skip = {}]
                 [] k.job = "turnOn" -> [k EXCEPT !.pc = "subscribe", !.skip = {}]
                 [] OTHER -> Idle)
    /\ UNCHANGED <<pages, rows, made, stamp, probed, conn, subscribed, expired, upsets>>

-----------------------------------------------------------------------------
(* One lead: processRow and what a failed read means                         *)

(* On to the next row of the batch, or what comes after the batch. *)
Onward(k, r) ==
    [k EXCEPT !.batch = @ \ {r}, !.cur = None, !.tries = 0, !.sick = FALSE, !.verdict = "none",
              !.pc = IF k.batch \ {r} # {} THEN "next"
                     ELSE IF CatchingUp(k) THEN "polled" ELSE "again"]

(* park(): past 80 days a lead is given up on, else its Page has a problem. *)
Parked(k, r, problem) ==
    IF rows[r].old THEN [k EXCEPT !.cur = r, !.pc = "release", !.verdict = "expired"]
                   ELSE [k EXCEPT !.cur = r, !.pc = "mark", !.verdict = problem]

Retried(k) == [k EXCEPT !.pc = "release", !.verdict = "retry"]

(* The row is read again by its claim, then its Page.  A row whose Page is   *)
(* off goes back to the queue.                                               *)
Begin(t, r) ==
    LET k == task[t]
        p == pages[r[1]]
        seen == [k EXCEPT !.cur = r, !.tries = rows[r].attempts, !.sick = p.status \in ReadProblems]
    IN
    /\ k.pc = "next" /\ r \in k.batch
    /\ \/ /\ ~Held(t, r)
          /\ Goto(t, Onward(k, r))
          /\ UNCHANGED <<rows, probed>>
       \/ /\ Held(t, r) /\ ~p.active
          /\ rows' = [rows EXCEPT ![r] = Freed(@)]
          /\ Goto(t, Onward(k, r))
          /\ UNCHANGED probed
       \/ /\ Held(t, r) /\ p.active
          /\ probed' = IF p.status \in ReadProblems THEN probed \cup {r[1]} ELSE probed
          /\ Goto(t, IF ~p.token THEN Parked(seen, r, "needs_reconnect")
                     ELSE [seen EXCEPT !.pc = IF CatchingUp(k) THEN "write" ELSE "read"])
          /\ UNCHANGED rows
    /\ UNCHANGED <<pages, made, stamp, conn, subscribed, expired, upsets>>

(* What Meta's answer to getLead means for the lead: failure().  "Not found" *)
(* is a hiccup for AmbiguousTries tries, and then looked into.               *)
AfterAnswer(k, answer) ==
    CASE answer = "ok" -> [k EXCEPT !.pc = "write"]
      [] answer = "token" -> Parked(k, k.cur, "needs_reconnect")
      [] answer = "rate_limit" -> [k EXCEPT !.pc = "pause", !.verdict = answer]
      [] answer = "permission" -> [k EXCEPT !.pc = "look", !.verdict = answer]
      [] answer = "not_found" /\ k.tries + 1 > AmbiguousTries ->
            [k EXCEPT !.pc = "look", !.verdict = answer]
      [] OTHER -> Retried(k)

Read(t) ==
    LET k == task[t] IN
    /\ k.pc = "read"
    /\ \E answer \in Answers : Goto(t, AfterAnswer(k, answer))
    /\ UNCHANGED <<pages, rows, made, stamp, probed, conn, subscribed, expired, upsets>>

(* What leadAccessBlock and debugToken say after a refusal. *)
Look(t) ==
    LET k == task[t] IN
    /\ k.pc = "look"
    /\ \/ Goto(t, Parked(k, k.cur, "lead_access"))
       \/ Goto(t, Parked(k, k.cur, "permission_missing"))
       \/ /\ k.verdict = "not_found"
          /\ \/ Goto(t, Parked(k, k.cur, "needs_reconnect"))
             \/ Goto(t, IF rows[k.cur].test
                        THEN [k EXCEPT !.pc = "release", !.verdict = "skip"]
                        ELSE Retried(k))
    /\ UNCHANGED <<pages, rows, made, stamp, probed, conn, subscribed, expired, upsets>>

(* What a job does once it has dealt with the whole Page: a lead's row is    *)
(* released, a catch-up saves what it found, a check goes on.                *)
CatchUpOver(k) ==
    IF k.job = "catchUp" THEN Idle
    ELSE [Idle EXCEPT !.job = "checkDrain", !.biz = k.biz, !.pc = "first"]

Continue(k) ==
    IF k.cur # None THEN [k EXCEPT !.pc = "release"]
    ELSE IF k.job = "checkHealth" THEN [Idle EXCEPT !.job = k.job, !.biz = k.biz, !.pc = "requeue"]
    ELSE IF ~CatchingUp(k) THEN Idle
    ELSE IF k.batch # {} THEN [k EXCEPT !.pc = "save", !.verdict = "none"]
    ELSE CatchUpOver(k)

PageOf(k) == IF k.cur # None THEN k.cur[1] ELSE k.biz

(* Rate limited: pausePage, whether or not the Page is still on. *)
Pause(t) ==
    LET k == task[t] IN
    /\ k.pc = "pause"
    /\ pages' = [pages EXCEPT ![PageOf(k)].paused = TRUE]
    /\ Goto(t, Continue(k))
    /\ UNCHANGED <<rows, made, stamp, probed, conn, subscribed, expired, upsets>>

(* setPageProblem: an active Page gets the status, and then the leads that   *)
(* can't be read wait an hour (parkRows), whoever holds them.                *)
Mark(t) ==
    LET k == task[t]
        b == PageOf(k)
    IN
    /\ k.pc = "mark"
    /\ pages' = IF pages[b].active THEN [pages EXCEPT ![b].status = k.verdict] ELSE pages
    /\ Goto(t, IF k.verdict \in ReadProblems THEN [k EXCEPT !.pc = "park"] ELSE Continue(k))
    /\ UNCHANGED <<rows, made, stamp, probed, conn, subscribed, expired, upsets>>

Park(t) ==
    LET k == task[t] IN
    /\ k.pc = "park"
    /\ rows' = MakeDue(PageOf(k), FALSE)
    /\ Goto(t, Continue(k))
    /\ UNCHANGED <<pages, made, stamp, probed, conn, subscribed, expired, upsets>>

(* Mutant: one try too many. *)
TooManyTries(tries) == tries >= MaxTries

OutOfTries(tries) == tries + 1 >= MaxTries

(* The row after a go that brought nothing in, counted from the tries read   *)
(* when the go began.  A park counts no try.                                 *)
AfterTry(row, verdict, tries) ==
    CASE verdict = "retry" ->
            IF OutOfTries(tries)
            THEN Settled(row, "out_of_tries")
            ELSE [Freed(row) EXCEPT !.attempts = tries + 1, !.due = FALSE]
      [] verdict = "skip" -> Settled(row, "skipped")
      [] verdict = "expired" -> Settled(row, "expired")
      [] OTHER -> [Freed(row) EXCEPT !.due = FALSE]

(* release(): nothing happens when the claim was lost meanwhile. *)
Release(t) ==
    LET k == task[t] IN
    /\ k.pc = "release"
    /\ rows' = IF Held(t, k.cur) THEN [rows EXCEPT ![k.cur] = AfterTry(@, k.verdict, k.tries)] ELSE rows
    /\ Goto(t, Onward(k, k.cur))
    /\ UNCHANGED <<pages, made, stamp, probed, conn, subscribed, expired, upsets>>

(* Mutant: the claim read before the Graph call is trusted, not read again. *)
WritableUnread(t, r) == TRUE

(* The transaction that brings a lead in: still ours and still waiting, then *)
(* intakeLead (a new enquiry, or more on an open one).  It may fail and roll *)
(* back.                                                                     *)
Writable(t, r) == Held(t, r)

Write(t) ==
    LET k == task[t] IN
    /\ k.pc = "write"
    /\ \/ /\ ~Writable(t, k.cur)
          /\ Goto(t, Onward(k, k.cur))
          /\ UNCHANGED <<rows, made>>
       \/ /\ Writable(t, k.cur)
          /\ \E status \in BroughtIn :
                rows' = [rows EXCEPT ![k.cur] = Settled(@, status)]
          /\ made' = [made EXCEPT ![k.cur] = @ + 1]
          /\ Goto(t, [k EXCEPT !.pc = "clear"])
       \/ /\ Goto(t, Retried(k))
          /\ UNCHANGED <<rows, made>>
    /\ UNCHANGED <<pages, stamp, probed, conn, subscribed, expired, upsets>>

AfterClear(k) == IF k.cur # None THEN Onward(k, k.cur) ELSE Continue(k)

(* What throws after the lead is in is handled like any other failure of it. *)
ClearThrows(t) ==
    /\ task[t].pc \in {"clear", "wake"} /\ task[t].cur # None /\ task[t].sick
    /\ Goto(t, Retried(task[t]))
    /\ UNCHANGED <<pages, rows, made, stamp, probed, conn, subscribed, expired, upsets>>

(* clearPageProblem: the status the job saw and the one the row has now must *)
(* both be among the kinds it clears; then the parked leads are tried now.   *)
Clear(t) ==
    LET k == task[t]
        b == PageOf(k)
        kinds == IF k.cur # None THEN ReadProblems ELSE PageProblems
        clears == k.sick /\ pages[b].active /\ pages[b].status \in kinds
    IN
    /\ k.pc = "clear"
    /\ pages' = IF clears THEN [pages EXCEPT ![b].status = "ok"] ELSE pages
    /\ Goto(t, IF clears THEN [k EXCEPT !.pc = "wake"] ELSE AfterClear(k))
    /\ UNCHANGED <<rows, made, stamp, probed, conn, subscribed, expired, upsets>>

Wake(t) ==
    LET k == task[t] IN
    /\ k.pc = "wake"
    /\ rows' = MakeDue(PageOf(k), TRUE)
    /\ Goto(t, AfterClear(k))
    /\ UNCHANGED <<pages, made, stamp, probed, conn, subscribed, expired, upsets>>

-----------------------------------------------------------------------------
(* Leads arriving                                                            *)

Queued(isTest) == [NoRow EXCEPT !.status = "queued", !.due = TRUE, !.test = isTest]

(* Someone fills in the form on the Page. *)
FillLead(l) ==
    /\ stamp[l] = 0
    /\ stamp' = [stamp EXCEPT ![l] = Now + 1]
    /\ UNCHANGED <<pages, rows, made, task, probed, conn, subscribed, expired, upsets>>

(* Meta may send a lead late, more than once or never: ON CONFLICT DO NOTHING. *)
Webhook(l) ==
    /\ subscribed /\ stamp[l] > 0
    /\ \E b \in Business : pages[b].active /\ rows[<<b, l>>].status = "absent"
    /\ rows' = [r \in Row |->
                  IF r[2] = l /\ pages[r[1]].active /\ rows[r].status = "absent"
                  THEN Queued(FALSE) ELSE rows[r]]
    /\ UNCHANGED <<pages, made, stamp, task, probed, conn, subscribed, expired, upsets>>

(* pollDue picks a Page; "Check again" comes to the same read by itself. *)
StartCatchUp(t, b) ==
    LET p == pages[b] IN
    /\ MayStart(t, "catchUp")
    /\ p.active /\ p.token /\ ~p.paused
    /\ p.status \notin {"needs_reconnect", "lead_access"}
    /\ Goto(t, [Idle EXCEPT !.job = "catchUp", !.biz = b, !.pc = "list", !.mark = p.since])
    /\ UNCHANGED <<pages, rows, made, stamp, probed, conn, subscribed, expired, upsets>>

(* The Page problems Meta's refusals stand for: pageGraphError, pageHealth. *)
Troubles ==
    (IF "token" \in Answers THEN {"needs_reconnect"} ELSE {}) \cup
    (IF "permission" \in Answers THEN {"permission_missing", "lead_access"} ELSE {})

(* Meta lists the leads of the forms that are due, none from before the Page *)
(* was switched on; which ones, the cursors decide (module CatchUp).  A form *)
(* it refuses may set the Page's problem; the rest is still brought in.      *)
ListLeads(t) ==
    LET k == task[t] IN
    /\ k.pc = "list"
    /\ \E S \in SUBSET {l \in Lead : stamp[l] > k.mark} :
        LET found == [k EXCEPT !.batch = {k.biz} \X S] IN
        \/ Goto(t, Continue(found))
        \/ "rate_limit" \in Answers /\ Goto(t, [found EXCEPT !.pc = "pause"])
        \/ \E problem \in Troubles :
              Goto(t, [found EXCEPT !.pc = "mark", !.verdict = problem])
    /\ UNCHANGED <<pages, rows, made, stamp, probed, conn, subscribed, expired, upsets>>

(* bringIn saves what is new, already claimed.  It does not look at the Page. *)
SaveFound(t) ==
    LET k == task[t]
        new == {r \in k.batch : rows[r].status = "absent"}
    IN
    /\ k.pc = "save"
    /\ rows' = [r \in Row |-> IF r \in new THEN [Queued(FALSE) EXCEPT !.claim = t] ELSE rows[r]]
    /\ Goto(t, IF new = {} THEN CatchUpOver(k) ELSE [k EXCEPT !.pc = "next", !.batch = new])
    /\ UNCHANGED <<pages, made, stamp, probed, conn, subscribed, expired, upsets>>

(* Leads the webhook missed: Meta may be asked again for this Page's leads. *)
Polled(t) ==
    LET k == task[t] IN
    /\ k.pc = "polled"
    /\ \/ Goto(t, CatchUpOver(k)) /\ UNCHANGED subscribed
       \/ Goto(t, CatchUpOver(k)) /\ subscribed' = TRUE
       \/ /\ "transient" \in Answers
          /\ Goto(t, [k EXCEPT !.pc = "mark", !.verdict = "not_subscribed"])
          /\ UNCHANGED subscribed
    /\ UNCHANGED <<pages, rows, made, stamp, probed, conn, expired, upsets>>

(* "Send a test lead": the Page is read, Meta makes the lead, and the row is *)
(* queued without reading the Page again.                                    *)
StartTestLead(t, b, l) ==
    /\ MayStart(t, "test")
    /\ pages[b].active /\ pages[b].token
    /\ stamp[l] = 0
    /\ stamp' = [stamp EXCEPT ![l] = Now + 1]
    /\ Goto(t, [Idle EXCEPT !.job = "test", !.biz = b, !.pc = "insert", !.batch = {<<b, l>>}])
    /\ UNCHANGED <<pages, rows, made, probed, conn, subscribed, expired, upsets>>

InsertTestLead(t) ==
    LET k == task[t] IN
    /\ k.pc = "insert"
    /\ rows' = [r \in Row |-> IF r \in k.batch /\ rows[r].status = "absent"
                              THEN Queued(TRUE) ELSE rows[r]]
    /\ Goto(t, Idle)
    /\ UNCHANGED <<pages, made, stamp, probed, conn, subscribed, expired, upsets>>

-----------------------------------------------------------------------------
(* Owners: the Page on, off, moved; Facebook connected and disconnected      *)

ActiveBusinesses == {b \in Business : pages[b].active}

(* setPageOn: the clock is read first.  A Page another business has on is    *)
(* moved (takeOver), after the leads already waiting there had a go.         *)
StartTurnOn(t, b) ==
    LET others == ActiveBusinesses \ {b}
        k == [Idle EXCEPT !.job = "turnOn", !.biz = b, !.mark = Now]
    IN
    /\ MayStart(t, "turnOn")
    /\ ~pages[b].active
    /\ conn[b] = "ok"
    /\ \/ others = {} /\ Goto(t, [k EXCEPT !.pc = "subscribe"])
       \/ \E o \in others :
            Goto(t, [k EXCEPT !.pc = "first", !.other = o,
                              !.skip = {r \in Row : rows[r].status = "absent"}])
    /\ UNCHANGED <<pages, rows, made, stamp, probed, conn, subscribed, expired, upsets>>

(* Meta is told to send the Page's leads, or refuses and nothing changes. *)
Subscribe(t) ==
    LET k == task[t] IN
    /\ k.pc = "subscribe"
    /\ \/ subscribed' = TRUE /\ Goto(t, [k EXCEPT !.pc = "commit"])
       \/ Goto(t, Idle) /\ UNCHANGED subscribed
    /\ UNCHANGED <<pages, rows, made, stamp, probed, conn, expired, upsets>>

(* Mutant: what the look at the other businesses said is still trusted. *)
AllowedAsSeen(k) == TRUE

(* The unique index: no business has the Page on but this one and the one it *)
(* is moved from.                                                            *)
Allowed(k) == ActiveBusinesses \subseteq {k.biz, k.other}

(* The transaction: the other business's Page off and its leftovers failed,  *)
(* this one on.  A business that switched it on meanwhile makes the index    *)
(* refuse, and nothing changes.                                              *)
CommitTurnOn(t) ==
    LET k == task[t]
        moved == k.other # None /\ pages[k.other].active
    IN
    /\ k.job = "turnOn" /\ k.pc = "commit"
    /\ IF Allowed(k)
       THEN /\ \E status \in {"ok"} \cup ({"lead_access"} \cap Troubles) :
                 pages' = [b \in Business |->
                     IF b = k.biz THEN [active |-> TRUE, token |-> TRUE, status |-> status,
                                        paused |-> FALSE, since |-> k.mark]
                     ELSE IF b = k.other /\ moved THEN Off(pages[b]) ELSE pages[b]]
            /\ rows' = IF moved THEN FailLeftovers(k.other) ELSE rows
       ELSE UNCHANGED <<pages, rows>>
    /\ Goto(t, Idle)
    /\ UNCHANGED <<made, stamp, probed, conn, subscribed, expired, upsets>>

(* setPageOff and disconnect: the leads already waiting get a go first. *)
StartTurnOff(t, b) ==
    /\ \E job \in {"turnOff", "disconnect"} :
        /\ MayStart(t, job)
        /\ IF job = "turnOff" THEN pages[b].active ELSE conn[b] # "none"
        /\ Goto(t, [Idle EXCEPT !.job = job, !.biz = b, !.pc = "first",
                                !.skip = {r \in Row : rows[r].status = "absent"}])
    /\ UNCHANGED <<pages, rows, made, stamp, probed, conn, subscribed, expired, upsets>>

(* unsubscribeIfLast: the subscription is shared by every business with the  *)
(* Page on.  The job read the Page, and whether it had a token, earlier; only *)
(* disconnect reads it here.                                                 *)
Unsubscribe(t) ==
    LET k == task[t] IN
    /\ k.pc = "unsub"
    /\ \/ /\ ActiveBusinesses \subseteq {k.biz}
          /\ k.job = "disconnect" => pages[k.biz].active
          /\ Goto(t, [k EXCEPT !.pc = "stop"])
       \/ Goto(t, [k EXCEPT !.pc = "commit"])
    /\ UNCHANGED <<pages, rows, made, stamp, probed, conn, subscribed, expired, upsets>>

(* A failure to stop them is logged and ignored. *)
StopEvents(t) ==
    LET k == task[t] IN
    /\ k.pc = "stop"
    /\ subscribed' \in {FALSE, subscribed}
    /\ Goto(t, [k EXCEPT !.pc = "commit"])
    /\ UNCHANGED <<pages, rows, made, stamp, probed, conn, expired, upsets>>

CommitTurnOff(t) ==
    LET k == task[t] IN
    /\ k.job \in {"turnOff", "disconnect"} /\ k.pc = "commit"
    /\ pages' = [pages EXCEPT ![k.biz] = Off(@)]
    /\ rows' = FailLeftovers(k.biz)
    /\ conn' = IF k.job = "disconnect" THEN [conn EXCEPT ![k.biz] = "none"] ELSE conn
    /\ Goto(t, Idle)
    /\ UNCHANGED <<made, stamp, probed, subscribed, expired, upsets>>

Reconnected(p) ==
    [p EXCEPT !.token = TRUE,
              !.status = IF p.status \in {"needs_reconnect", "permission_missing"} THEN "ok"
                         ELSE p.status]

(* finishConnect: a Page already on gets the fresh token and its leads are   *)
(* tried now; one left unticked can't be read any more.                      *)
Connect(b) ==
    /\ Upset
    /\ conn' = [conn EXCEPT ![b] = "ok"]
    /\ \/ /\ pages' = [pages EXCEPT ![b] = IF @.active THEN Reconnected(@) ELSE @]
          /\ rows' = IF pages[b].active THEN MakeDue(b, TRUE) ELSE rows
          /\ subscribed' \in {subscribed, subscribed \/ pages[b].active}
       \/ /\ pages[b].active
          /\ pages' = [pages EXCEPT ![b].status = "needs_reconnect"]
          /\ UNCHANGED <<rows, subscribed>>
    /\ UNCHANGED <<made, stamp, task, probed, expired>>

(* The login came back without every permission: nothing is saved, and the   *)
(* Page it had on can't be read.                                             *)
ConnectWithoutPermissions(b) ==
    /\ Upset
    /\ conn[b] # "none" /\ pages[b].active
    /\ pages' = [pages EXCEPT ![b].status = "permission_missing"]
    /\ UNCHANGED <<rows, made, stamp, task, probed, conn, subscribed, expired>>

(* Someone removed the app on Facebook. *)
Deauthorize(b) ==
    /\ Upset
    /\ conn[b] # "none"
    /\ conn' = [conn EXCEPT ![b] = "revoked"]
    /\ pages' = [pages EXCEPT ![b].token = FALSE,
                              ![b].status = IF pages[b].active THEN "needs_reconnect" ELSE @]
    /\ UNCHANGED <<rows, made, stamp, task, probed, subscribed, expired>>

(* Someone asked Facebook to delete their data. *)
DataDeletion(b) ==
    /\ Upset
    /\ conn[b] # "none"
    /\ conn' = [conn EXCEPT ![b] = "none"]
    /\ pages' = [pages EXCEPT ![b] = Off(@)]
    /\ rows' = FailLeftovers(b)
    /\ UNCHANGED <<made, stamp, task, probed, subscribed, expired>>

-----------------------------------------------------------------------------
(* Health: the daily check, "Check again", and a plan that ran out           *)

StartHealth(t, b) ==
    /\ pages[b].active
    /\ \E job \in {"health", "checkHealth"} :
        LET k == [Idle EXCEPT !.job = job, !.biz = b, !.sick = pages[b].status \in PageProblems] IN
        /\ MayStart(t, job)
        /\ Goto(t, IF pages[b].token THEN [k EXCEPT !.pc = "health"]
                   ELSE [k EXCEPT !.pc = "mark", !.verdict = "needs_reconnect"])
    /\ UNCHANGED <<pages, rows, made, stamp, probed, conn, subscribed, expired, upsets>>

(* debugToken, pageSubscribed, subscribePage and leadAccess, in that order. *)
HealthAnswer(t) ==
    LET k == task[t] IN
    /\ k.pc = "health"
    /\ \/ /\ \E problem \in Troubles \ {"lead_access"} :
                Goto(t, [k EXCEPT !.pc = "mark", !.verdict = problem])
          /\ UNCHANGED subscribed
       \/ /\ ~subscribed /\ "transient" \in Answers
          /\ Goto(t, [k EXCEPT !.pc = "mark", !.verdict = "not_subscribed"])
          /\ UNCHANGED subscribed
       \/ /\ subscribed' = TRUE
          /\ \/ Goto(t, [k EXCEPT !.pc = "clear"])
             \/ /\ "lead_access" \in Troubles
                /\ Goto(t, [k EXCEPT !.pc = "mark", !.verdict = "lead_access"])
       \/ /\ \/ "rate_limit" \in Answers /\ Goto(t, [k EXCEPT !.pc = "pause"])
             \/ "transient" \in Answers /\ Goto(t, Continue(k))
          /\ UNCHANGED subscribed
    /\ UNCHANGED <<pages, rows, made, stamp, probed, conn, expired, upsets>>

(* Mutant: "Try again" takes every settled lead. *)
TriesAnything(row) == row.status \notin {"absent", "queued"}

TriesAgain(row) == row.status = "out_of_tries" /\ ~row.old

(* "Try again": failed leads get fresh tries, then waiting ones go now, and  *)
(* then the Page is read again unless it can't be.                           *)
Requeue(t) ==
    LET k == task[t] IN
    /\ k.pc = "requeue"
    /\ rows' = [r \in Row |->
            IF r[1] = k.biz /\ TriesAgain(rows[r])
            THEN [rows[r] EXCEPT !.status = "queued", !.attempts = 0, !.due = TRUE]
            ELSE rows[r]]
    /\ Goto(t, [k EXCEPT !.pc = "hasten"])
    /\ UNCHANGED <<pages, made, stamp, probed, conn, subscribed, expired, upsets>>

Hasten(t) ==
    LET k == task[t] IN
    /\ k.pc = "hasten"
    /\ rows' = MakeDue(k.biz, TRUE)
    /\ probed' = probed \ {k.biz}
    /\ Goto(t, [k EXCEPT !.pc = "reload"])
    /\ UNCHANGED <<pages, made, stamp, conn, subscribed, expired, upsets>>

Reload(t) ==
    LET k == task[t]
        p == pages[k.biz]
    IN
    /\ k.pc = "reload"
    /\ Goto(t, IF p.active /\ p.token /\ p.status \notin {"needs_reconnect", "lead_access"}
               THEN [Idle EXCEPT !.job = "checkCatchUp", !.biz = k.biz, !.pc = "list",
                                 !.mark = p.since]
               ELSE [Idle EXCEPT !.job = "checkDrain", !.biz = k.biz, !.pc = "first"])
    /\ UNCHANGED <<pages, rows, made, stamp, probed, conn, subscribed, expired, upsets>>

PlanRunsOut(b) ==
    /\ Upset
    /\ b \notin expired
    /\ expired' = expired \cup {b}
    /\ UNCHANGED <<pages, rows, made, stamp, task, probed, conn, subscribed>>

(* pauseIfLapsed is two statements, not a transaction: Pages off, then their *)
(* leftovers failed.                                                         *)
StartLapse(t, b) ==
    /\ MayStart(t, "lapse")
    /\ b \in expired /\ pages[b].active
    /\ Goto(t, [Idle EXCEPT !.job = "lapse", !.biz = b, !.pc = "unsub"])
    /\ UNCHANGED <<pages, rows, made, stamp, probed, conn, subscribed, expired, upsets>>

LapsePagesOff(t) ==
    LET k == task[t] IN
    /\ k.job = "lapse" /\ k.pc = "commit"
    /\ pages' = IF pages[k.biz].active THEN [pages EXCEPT ![k.biz] = Off(@)] ELSE pages
    /\ Goto(t, [k EXCEPT !.pc = "leftovers"])
    /\ UNCHANGED <<rows, made, stamp, probed, conn, subscribed, expired, upsets>>

LapseLeftovers(t) ==
    LET k == task[t] IN
    /\ k.pc = "leftovers"
    /\ rows' = FailLeftovers(k.biz)
    /\ Goto(t, Idle)
    /\ UNCHANGED <<pages, made, stamp, probed, conn, subscribed, expired, upsets>>

-----------------------------------------------------------------------------
(* The clock, and things going wrong                                         *)

(* The lease of a job that ended without giving its rows back. *)
LeaseLapses(r) ==
    /\ rows[r].claim # None /\ ~rows[r].lapsed
    /\ r \notin task[rows[r].claim].batch
    /\ rows' = [rows EXCEPT ![r].lapsed = TRUE]
    /\ UNCHANGED <<pages, made, stamp, task, probed, conn, subscribed, expired, upsets>>

(* The lease of a job still at work: Meta was slow, or the batch long. *)
TakesTooLong(r) ==
    /\ Upset
    /\ rows[r].claim # None /\ ~rows[r].lapsed
    /\ r \in task[rows[r].claim].batch
    /\ rows' = [rows EXCEPT ![r].lapsed = TRUE]
    /\ UNCHANGED <<pages, made, stamp, task, probed, conn, subscribed, expired>>

ComesDue(r) ==
    /\ rows[r].status = "queued" /\ ~rows[r].due
    /\ rows' = [rows EXCEPT ![r].due = TRUE]
    /\ UNCHANGED <<pages, made, stamp, task, probed, conn, subscribed, expired, upsets>>

GrowsOld(r) ==
    /\ Upset
    /\ rows[r].status \in {"queued", "out_of_tries"} /\ ~rows[r].old
    /\ rows' = [rows EXCEPT ![r].old = TRUE]
    /\ UNCHANGED <<pages, made, stamp, task, probed, conn, subscribed, expired>>

PauseEnds(b) ==
    /\ pages[b].paused
    /\ pages' = [pages EXCEPT ![b].paused = FALSE]
    /\ UNCHANGED <<rows, made, stamp, task, probed, conn, subscribed, expired, upsets>>

HourPasses(b) ==
    /\ b \in probed
    /\ probed' = probed \ {b}
    /\ UNCHANGED <<pages, rows, made, stamp, task, conn, subscribed, expired, upsets>>

(* The tick's first statement. *)
GiveUpOld ==
    /\ \E r \in Row : rows[r].status = "queued" /\ rows[r].old
    /\ rows' = [r \in Row |-> IF rows[r].status = "queued" /\ rows[r].old
                              THEN Settled(rows[r], "expired") ELSE rows[r]]
    /\ UNCHANGED <<pages, made, stamp, task, probed, conn, subscribed, expired, upsets>>

(* A statement throws where nobody catches it: the job ends, its claims stay. *)
Throws(t) ==
    /\ Upset
    /\ task[t] # Idle
    /\ Goto(t, Idle)
    /\ UNCHANGED <<pages, rows, made, stamp, probed, conn, subscribed, expired>>

(* The process dies and starts again: what it kept in memory is gone. *)
Crash ==
    /\ Upset
    /\ task' = [t \in Task |-> Idle]
    /\ probed' = {}
    /\ UNCHANGED <<pages, rows, made, stamp, conn, subscribed, expired>>

-----------------------------------------------------------------------------
Arrivals == \E l \in Lead :
    \/ FillLead(l) \/ Webhook(l)
    \/ \E t \in Task, b \in Business : StartTestLead(t, b, l)

Starts(t) ==
    \/ StartDrain(t)
    \/ \E b \in Business : StartCatchUp(t, b) \/ StartTurnOn(t, b) \/ StartTurnOff(t, b)
                           \/ StartHealth(t, b) \/ StartLapse(t, b)

(* What a running job does next. *)
Works(t) ==
    \/ Claim(t) \/ DrainEnds(t)
    \/ \E r \in Row : Begin(t, r)
    \/ Read(t) \/ Look(t) \/ Pause(t) \/ Mark(t) \/ Park(t) \/ Release(t) \/ Write(t)
    \/ Clear(t) \/ ClearThrows(t) \/ Wake(t)
    \/ ListLeads(t) \/ SaveFound(t) \/ Polled(t) \/ InsertTestLead(t)
    \/ Subscribe(t) \/ CommitTurnOn(t)
    \/ Unsubscribe(t) \/ StopEvents(t) \/ CommitTurnOff(t)
    \/ HealthAnswer(t) \/ Requeue(t) \/ Hasten(t) \/ Reload(t)
    \/ LapsePagesOff(t) \/ LapseLeftovers(t)

Facebook == \E b \in Business :
    \/ Connect(b) \/ ConnectWithoutPermissions(b) \/ Deauthorize(b) \/ DataDeletion(b)
    \/ PlanRunsOut(b)

Clock ==
    \/ \E r \in Row : LeaseLapses(r) \/ TakesTooLong(r) \/ ComesDue(r) \/ GrowsOld(r)
    \/ \E b \in Business : PauseEnds(b) \/ HourPasses(b)

Next ==
    \/ Arrivals
    \/ \E t \in Task : Starts(t) \/ Works(t) \/ Throws(t)
    \/ Facebook
    \/ Clock
    \/ GiveUpOld
    \/ Crash

Spec == Init /\ [][Next]_vars

(* Running jobs go on (every Graph call has a timeout), the 15-second timer  *)
(* drains again and again, and time passes.  Draining and the end of a lease *)
(* are strongly fair because a task here runs one job at a time: another job *)
(* taking the task holds back neither the timer nor the clock.               *)
Fairness ==
    /\ \A t \in Task : WF_vars(Works(t)) /\ ("drain" \in Plays[t] => SF_vars(StartDrain(t)))
    /\ \A r \in Row : SF_vars(LeaseLapses(r)) /\ WF_vars(ComesDue(r))

FairSpec == Spec /\ Fairness

-----------------------------------------------------------------------------
(* Properties                                                                *)

RowType == [status : RowStatus, attempts : 0..(MaxTries - 1), due : BOOLEAN, claim : Task \cup {None},
            lapsed : BOOLEAN, old : BOOLEAN, test : BOOLEAN]
PageType == [active : BOOLEAN, token : BOOLEAN, status : PageStatus, paused : BOOLEAN, since : Nat]
Jobs == {"none", "drain", "turnOff", "disconnect", "turnOn", "catchUp", "health",
         "checkHealth", "checkCatchUp", "checkDrain", "lapse", "test"}
Steps == {"idle", "first", "again", "next", "read", "look", "pause", "mark", "park",
          "release", "write", "clear", "wake", "list", "save", "polled", "insert", "subscribe",
          "unsub", "stop", "commit", "leftovers", "health", "requeue", "hasten", "reload"}
Verdicts == PageProblems \cup {"none", "retry", "rate_limit", "permission", "not_found",
                              "skip", "expired"}
TaskType == [job : Jobs, biz : Business \cup {None}, pc : Steps, batch : SUBSET Row,
             skip : SUBSET Row, cur : Row \cup {None}, tries : 0..(MaxTries - 1), sick : BOOLEAN,
             verdict : Verdicts, mark : Nat, other : Business \cup {None}]

TypeOK ==
    /\ pages \in [Business -> PageType]
    /\ rows \in [Row -> RowType]
    /\ made \in [Row -> Nat]
    /\ stamp \in [Lead -> Nat]
    /\ task \in [Task -> TaskType]
    /\ probed \subseteq Business
    /\ conn \in [Business -> {"none", "ok", "revoked"}]
    /\ subscribed \in BOOLEAN
    /\ expired \subseteq Business
    /\ upsets \in 0..MaxUpsets

(* A lead is brought in exactly once: however the webhook, the catch-up,     *)
(* lapsed leases, crashes and "Try again" mix, a row has been through        *)
(* intakeLead once if it shows as brought in, and never otherwise.           *)
BroughtInOnce ==
    \A r \in Row : made[r] = IF rows[r].status \in BroughtIn THEN 1 ELSE 0

(* Meta sends one Page's leads to one business at a time, and a Page that is *)
(* off keeps no token: no mix of switching, moving, reconnecting and         *)
(* revoking leaves the key to a Page behind.                                 *)
OneBusinessHoldsThePage ==
    /\ \A b, c \in ActiveBusinesses : b = c
    /\ \A b \in Business : ~pages[b].active => ~pages[b].token /\ pages[b].status = "off"

(* While a lease lasts nobody but its holder settles or counts a try on the  *)
(* lead; only the Page going off or the lead being too old overrides it.     *)
LeaseRespected ==
    [][\A r \in Row :
        LET t == rows[r].claim IN
        (/\ t # None /\ ~rows[r].lapsed
         /\ \/ rows'[r].status # rows[r].status
            \/ rows'[r].attempts # rows[r].attempts)
        => \/ task'[t] # task[t] /\ task[t].cur = r
           \/ rows'[r].status \in {"page_off", "expired"}]_vars

(* A business gets enquiries only while it has the Page on.  The one         *)
(* exception is a plan that ran out, whose Page goes off a statement before  *)
(* its leftovers do.                                                         *)
NoEnquiryWhileOff ==
    [][\A r \in Row : made'[r] > made[r] =>
        pages[r[1]].active \/ r[1] \in expired]_vars

(* A lead waiting on a Page that can be read does not wait for ever: it is   *)
(* brought in or given up on, whoever crashed holding it, unless its Page    *)
(* stops being readable.                                                     *)
Readable(b) ==
    /\ pages[b].active /\ pages[b].token /\ ~pages[b].paused
    /\ pages[b].status \notin ReadProblems

WaitingLeadSettles ==
    \A r \in Row : rows[r].status = "queued"
                    ~> (rows[r].status # "queued" \/ ~Readable(r[1]))

(* Leads of a Page that is turned off show as not brought in and are never   *)
(* silently dropped (common.ts, failLeftovers): no lead is left waiting on a *)
(* Page that is off.                                                         *)
NoLeadWaitsOnAnOffPage ==
    \A r \in Row : rows[r].status = "queued" => pages[r[1]].active

(* The leads' fates, as LeadFate promises them. *)
Fate ==
    [r \in Row |->
        CASE rows[r].status = "absent" -> "unseen"
          [] rows[r].status = "queued" -> "waiting"
          [] rows[r].status \in BroughtIn -> "broughtIn"
          [] rows[r].status = "skipped" -> "skipped"
          [] OTHER -> "notBroughtIn"]

Promise == INSTANCE LeadFate WITH fate <- Fate, enquiries <- made

(* What a business is promised about its leads holds of this queue. *)
KeepsThePromise == Promise!Spec
=============================================================================
