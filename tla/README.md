# Verification of The Wedding Yantra's backend

The Wedding Yantra is a CRM for wedding businesses: many workspaces (the code's
word for a business) share one Fastify process and one PostgreSQL database.
This directory holds TLA+ models of the parts of `apps/api` in which several
things happen at once, the TLC runs that check them, and TLAPS proofs of their
main properties. Every definition that models code is listed in PROJECT.json
("map") with the lines it stands for; paths below are under `src/`.

To check one run: `tlc -workers 2 -config lead_owners.cfg MCLeadIntake.tla`; to
check one proof module: `tlapm CatchUpProofs.tla`.

## 1. Inventory

The backend is `apps/api/src` (about 21,000 lines in 103 files), 43 SQL
migrations, and tests in `apps/api/test`. There is one API process: request
handlers interleave at every `await`, timers run beside them, and the process
may be restarted at any moment. Transactions run at READ COMMITTED, so a
statement sees what was committed when it began, rows are only protected by
`FOR UPDATE`, by guards in the WHERE of an UPDATE, and by unique indexes.

| Component | State | Operations | What is hard |
|---|---|---|---|
| Facebook lead intake (`modules/meta`: worker, webhook, connect, health, common, and `sales/intake.ts`) | `meta_connections`, `meta_pages`, `incoming_leads` (status, attempts, next attempt, lease and claim token), the drain's in-memory probe times | webhook, drain every 15 s, claim / read / write / park / retry / give up, switch a Page on and off, move it between businesses, reconnect, deauthorize, data deletion, daily health check, "Check again", lapsed plans, test leads | leases that end while their holder is still at work, crashes with a batch in hand, answers from Meta that arrive after the Page changed hands, statements of one handler with others in between |
| Facebook catch-up (`meta/poller.ts`) | `meta_forms` (polled_through, leads_count), the cursors of capped reads in memory, `leads_since` and `swept_at` | list the forms, read one, move its place, save its leads; the timer and "Check again" may both be at it | Meta lists leads late, deletes old ones and refuses calls; a crash forgets the cursors; the owner switches the Page meanwhile |
| Quotes and bookings (`bookings/quotes.ts`, `bookings/events.ts`) | `quotes`, `events` (one live event per lead, a partial unique index), the lead's stage | create, update, mark sent, accept by the team or online, decline, delete; create, update, delete an event | the client and the team answer at once, two quotes of one lead, rows read without a lock and written later, transactions that wait for each other |
| Money (`money/bills.ts`, `payments.ts`, `dues.ts`) | bills numbered per financial year, payments, advances not on a bill yet | make, change, cancel a bill; record, change, delete a payment | numbers must have no gaps or doubles; advances and payments meet bills that are cancelled at that moment |
| Tasks (`tasks/service.ts`, `delegation.ts`, `repeats.ts`, points in `review/points.ts`) | tasks with status, clock, assignee and hand-ins; `points_ledger`; repeat rules with `checked_on` | create, change, move, hand in, approve, send back, snooze, delete; make repeating tasks | legal calls in any order around one clock and one bonus; several makers of the same repeat over midnight and crashes |
| Notifications (`notifications/scheduler.ts`, `service.ts`, `push.ts`, `sales/alerts.ts`) | a lead's follow-up and the time it was alerted for, `notifications` with dedupe keys and push state, `job_runs` | the timer each minute, `notify`, `flushPush` | the follow-up moves, its person leaves or the server stops between reading, telling, marking and pushing |
| Invoice sums (`packages/core`: `quotes.ts`, `bills.ts`, and `money/bills.ts`) | lines, discount, GST, total and plan of a bill | save, edit with or without the lines, change the discount, GST or plan | rounding to paise and rupees; stored lines and percentages read back by the next edit |
| Vendors and expenses (`vendors/service.ts`, `money/expenses.ts`) | payouts, and the expense each payment makes | pay, change, unpay, delete; change, review, delete an expense | one fact in two rows, changed from two places |
| Team (`team/service.ts`) | invitations, memberships | invite, revoke, join, remove | an invitation read before the transaction that uses it; links left behind |
| Sales (`sales/intake.ts`, `routing.ts`, `lead-routing.ts`, `leads.ts`, public form, clients, partners) | leads with stage, phone, assignee; who gets new ones; clients, activities | an enquiry by the public form or a lead form; create, change, delete a lead; change who gets leads | enquiries that arrive at once: one person twice, two leads for the one with the fewest |
| Billing of the product (`billing/service.ts`) | `subscriptions`, `billing_events` | start a checkout, set a plan by hand, a message of the payment provider, where a business stands | messages come again, late and out of order, to several handlers at once; a crash between recording one and applying it |
| Stock (`inventory/service.ts`) | items and what is out | take out, give back | a quantity clamped at zero (section 6) |
| Sign-in, files, export, search, reports, workspace lists, deliverables | tables edited one row at a time | forms and queries | no protocol of their own |
| Web app, shared packages | none that counts | screens, types | the API decides every state change |

How they meet: the catch-up and the webhook write rows that the intake's workers
drain; `intakeLead` turns one into a lead of the sales pipeline; accepting a
quote moves that lead to the won stage and makes its event; bills are made for
events. The plan's expiry, from billing, switches Pages off. Whoever has a lead is
told when its follow-up is due; leaving the business, which an invitation led into,
changes who that is.

## 2. Modules

| Module | What it is |
|---|---|
| `LeadFate` | the abstract specification: what a business is promised about a lead |
| `LeadIntake` | the queue with its workers and everyone who interferes, one action per statement or Graph answer; implements `LeadFate` |
| `LeadIntakeProofs` | types, single ownership, exactly-once, leases, nothing while off, and the refinement |
| `CatchUp` | how far each form has been read |
| `CatchUpProofs` | types, that no lead falls behind the place reads start from, nothing from while the Page was off |
| `QuoteBooking` | quotes answered and booked by concurrent requests |
| `QuoteBookingProofs` | types, one event per lead, answers that stay, one message, an acceptance that books |
| `Accounts` | the abstract specification: where a business's money is |
| `BillLedger` | bills, payments, advances and running numbers under concurrent requests; implements `Accounts` |
| `BillLedgerProofs` | types, numbers without gaps, the refinement, and new bills not overpaid |
| `TaskLife` | one task, its hand-ins and its points |
| `Repeats` | repeating tasks made by several makers |
| `TaskProofs` | of `Repeats`, no day missed and no day twice; of `TaskLife`, the clock, the bonus and the decisions |
| `Alerts` | follow-up alerts, from the due lead to the buzzing phone |
| `AlertsProofs` | types, marked means told, buzzes once |
| `BillLines` | the sums of one invoice and its plan through edits |
| `Payouts` | vendor payouts and their expenses |
| `Joining` | invitations of one person to one business |
| `Billing` | a business's own plan under the messages of the payment provider |
| `Enquiries` | enquiries that arrive at once: which lead they join, who gets a new one |
| `MoneyProofs` | of `Payouts`, the two agree; of `Billing`, no message changes its row twice; of `BillLines`, invoices add up and saving again changes nothing |
| `OfficeProofs` | of `Joining`, a link lets in once and none waits for somebody in the team; of `Enquiries`, one lead per number and the fewest first; the types of all eight |
| `MC...` | the instances TLC checks; `MCOffice` holds the eight models from `TaskLife` on |

### LeadIntake and LeadFate

One Page, the businesses that may have it, the leads people fill in, and a set
of tasks, each a job of the API process: a drain, a catch-up, a switch-on, a
switch-off, a disconnect, a health check, "Check again", a lapsed plan, a test
lead. `pages[b]` is the `meta_pages` row, `rows[<<b, l>>]` the `incoming_leads`
row. A time is kept only as what the code compares it with: a row is *due*, its
lease has *lapsed*, it is *old* (80 days); the actions under "Clock" move these.
A task's `pc` names the statement it runs next, and `cur`, `batch` and `tries`
are the values it has read and may find stale.

Every awaited statement that changes a row is an action: a Page's problem is `Mark`,
then `Park` for its rows; a Page found well is `Clear`, then `Wake` for its rows;
"Check again" is `Requeue`, `Hasten`, `Reload`, then the health check, a catch-up and
a drain; a Page that goes off is `Unsubscribe`, the Graph's `StopEvents`, then the
rows. `Claim` is `claimBatch` (locked rows skipped, per-Page limit); `ReadLead`, the
Graph's answer; the guarded write is the transaction of `processRow`, whose
WHERE asks for the claim token again. `Throws` is an exception between any two
statements of a job: what was committed stays, a claim stays until its lease
ends. `Crash` ends all jobs and forgets the probe times.

`made` is a history variable: how often a row went through `intakeLead`.
`LeadFate` has two variables, the lead's fate and how many enquiries it made,
and two steps, `BringIn` and `Settle`. The mapping is `LeadIntake!Fate`: a row's
status, with the three reasons for failing taken together.

### CatchUp

One action per Graph answer or statement of `poller.ts`, for any number of
catch-ups at once that share the `cursors` map. Lead times and places are ticks
of one clock; an hour is `Hour` ticks. `ReadForm` is the listing (which may omit
leads filled in less than an hour ago, and stops at `Cap`), `MovePlace` the
UPDATE of `polled_through` and `leads_count`, `BringIn` the insert. `poll` is what
`pollDue` and "Check again" ask of the Page row before they take it: whether its
status is `needs_reconnect` or `lead_access` (`barred`), whether `paused_until` is to
come (`paused`) and whether `next_poll_at` has come (`due`). A call that Meta refuses
is followed by `pageGraphError` in a step of its own (`Blame`), which writes those; the
worker and the health check write them too (`PageProblem`, `ClearPageProblem`).
`closed` is a history variable: leads filled in while the Page was off.

### QuoteBooking

`req[p]` is a request: its handler, the statement it is at, the rows it holds or
has read. The lock on a quote lasts from an acceptance's first statement to its
end, the lock on the lead from its second; `QuoteLocked` and `LeadLocked` are
the guards of everyone who would wait. `Book` is atomic: from its first write to
the commit an acceptance holds every row that it changes. `createEvent` is
three steps because its row is in the unique index before its foreign key waits
for the lead. `markSent`, `deleteQuote` and `deleteEvent` have no transaction:
one step per statement. An event's value is the total of the quote that last
set it, or `ByHand`.

`Alone` names handlers that are run with nothing beside them. The passing run
names the three handlers without a transaction; the violation run names none.

### BillLedger and Accounts

`req[p]` is a request, as in `QuoteBooking`; a transaction's rows enter the tables
with the step that commits it. A running number is a row of `workspace_counters`:
`TakersOf` and `ReceiptTakers` are those who added one to it and have not
committed, and a year's or the receipts' next taker waits for them.
`attachAdvances` reads the free payments (`ReadAdvances`) and gives them to the new
bill one UPDATE at a time (`AttachAdvance`); `recordPayment` for an event picks the
oldest bill with a balance without a lock (`StartRecord`) and writes the payment
after its receipt number. `Fails` is an exception or a crash anywhere: `RolledBack`
is what PostgreSQL restores. In `Accounts` a payment is an advance of one party or
on one issued bill of it; a bill takes only waiting money; cancelling frees it.

### The office: TaskLife, Repeats, Alerts, BillLines, Payouts, Joining, Billing, Enquiries

Eight models of parts that keep tables of their own. They share one run: `MCOffice`
has a variable `focus`, chosen at the start, that says which of them moves, so each
behaviour is one of a single model, and each has its own `Init`, `Next` and `Spec`
for the proofs.

- `TaskLife`: handlers that lock the task's row are one step each. Days are
  numbers; `completed` is the day the clock stopped. `points` is the ledger as a
  set: its unique key is what makes a second payment of the same thing nothing.
  Whom a task belongs to, by department, is only "runs it" or not.
- `Repeats`: `makeDueRepeats` is not a transaction. `BeginMaking` reads the rules
  and the day, `MakeCopy` and `MarkChecked` are its two statements per rule, and
  any number of makers are at it over midnight. `stood` is a history variable: the days
  a copy has been due.
- `Alerts`: `ReadDue`, `Tell` and `MarkAlerted` are the statements of `followUps`;
  `ClaimAlerts` marks what is pending as sent in one statement, and its pushes
  follow one by one. One lead: leads meet only in the query's limit of 500.
- `BillLines`: exact integers (paise, GST in percent). `Write` is
  `prepareBillLines`, `computeLines`, `computeBillTotals`, `writeLines` and
  `savePlan`; an edit that leaves the lines out writes the stored ones again.
  A line's `taxable` is clamped at zero as in `computeLines`, so what GST is charged on
  may exceed the price less the discount; `BillAddsUp` says by how much at most.
- `Payouts`: every operation is one transaction or one statement.
- `Joining`: `inviteMember` and `acceptInvitation` are two steps each, at their
  unprotected reads.
- `Billing`: `Receive`, `Apply` and `Answer` are the two statements of
  `handleRazorpayEvent` and its answer, in any number of handlers at once. Any message
  may come at any time, again, before or after others, and `HandlerCrash` ends a
  handler wherever it is. Two history variables: `applied`, how often a message
  changed its row, and `answered`, the messages the provider need not send again.
  `CheckoutLooks` and `CheckoutEnds` are the two ends of `startCheckout`, which asks
  the gateway in between. What the provider has of a subscription is external,
  and so is when it tells us.
- `Enquiries`: `intakeLead`'s transaction is its two waits: `LooksForLead` when it has
  the number's lock, `pickAssignee` when it has the business's routing lock, and
  `WritesLead`, which commits and lets both go. The lock is `NumberFree` and
  `RoutingFree`: nobody else holds it. A repeat, which only adds to its lead, ends where
  it began. A transaction is short against a window of days, and a tie between
  people is left open. `routing` is who the settings and their access leave; its
  changes stand for both. Two history variables name what the promises do not
  cover: `handled`, a lead made, reopened or renumbered by hand, where nobody looks
  for numbers, and `stirred`, a choice under which leads, leave or settings changed.

## 3. Runs

| Run | Instance | Question |
|---|---|---|
| `lead_owners` | two casts of two tasks: one business and one lead, the timer's jobs in one task and the owner's in the other; and two businesses with the Page, both tasks switching it on | exactly once, leases, nothing brought in for a Page that is off; one business holds the Page, and no token outlives being off |
| `lead_retries` | two casts of two tasks: one lead under token, not-found and transient failures; and two leads in batches of one on a Page that Meta asks to leave alone | the refinement of `LeadFate`, with it exactly once; a waiting lead settles |
| `lead_stranded` | as `lead_owners` | *violation*: a lead left waiting on a Page that is off |
| `catchup_reach` | three leads, two catch-ups, capped reads | nothing falls out of reach |
| `catchup_owner` | two leads, two switch-ons, a refusal, which may bar or pause the Page, and a failure | nothing from while it was off; caught up in the end, unless the Page is barred again and again |
| `catchup_lost` | one failed statement | *violation*: leads out of reach |
| `catchup_reopened` | the Page switched off and on during a catch-up | *violation*: a lead from while it was off |
| `quote_answers` | two quotes of one lead, two requests, two events | one event, answers that stay, one message, no wait for good |
| `quote_overtaken` | the same, nothing held apart; one quote is a client's without a lead | *violation*: an answer overwritten |
| `bill_ledger` | two bills, two payments, one event, two requests | numbers without gaps, money as `Accounts` promises, no bill made with more advances than it comes to, no wait for good |
| `office` | the eight models above, one at a time | the clock, the bonus and the decisions of a task; repeats once and never missed; due follow-ups told, marked and buzzed once; sums that add up and stay; payouts and expenses that agree; links that let in once; no message of the provider applied twice; one lead per number, the fewest first |
| `billing_lost` | two messages, two handlers, a crash | *violation*: a message recorded, answered and never applied |

Every property of a passing run has a mutant in PROJECT.json: an operator,
defined beside the one it replaces, that is a plausible bug of that code (a
dropped guard, a value not written, a lock not taken) and makes TLC find the
property violated on the same instance.

The bounds, and why they suffice:

- *Two tasks, two requests, two catch-ups.* Every interference here is between
  one who has read something and one who changes it; the hazards listed in
  PROJECT.json all need two. The proofs of safety hold for any number.
- *Casts of LeadIntake.* All jobs, businesses and leads at once are beyond five
  minutes of TLC, so a run of `MCLeadIntake` chooses at the start which jobs its two
  tasks may be, whose Page and whose leads there are, how much may go wrong and
  whether Meta may answer that it is too much: `Owners`, `Sharers`, `Retries` and
  `Batches`. What a cast leaves out are steps nobody has to take, so a behaviour of a
  cast is one of the model, its fairness included. In `Sharers` both tasks may be
  switching on, at once and for different businesses, which only the unique index
  settles (`Allowed`). In `Batches` two leads of a Page are more than
  `PerPage = 1`, and a pause ends a batch.
- *`MaxTries = 2`, `AmbiguousTries = 1`* keep the three outcomes apart that the
  code's 12 and 4 do: retried, given up, ambiguous for a while.
- *`MaxUpsets = 2`*, and less in a cast: one crash, exception, slow worker or
  intervention in a behaviour of `Owners` and `Retries`, two of `Sharers`, none of
  `Batches`, anywhere; the proofs have no such bound.
- *`Hour = 1` or `0`, `Cap = 1`, `MaxTime`*: with an hour of no ticks every read
  starts exactly at the last place, the tightest case; with one there is time to
  be late. A cap of one lead makes every second read a capped one. Leads listed up to
  an hour late are beside that in the proof, for every `Hour`.
- *`InOrder`* of `catchup_owner` leaves out the states in which the second lead was
  filled in before the first: leads of one form are interchangeable, so each
  behaviour it leaves out is one it keeps with the names exchanged. (A symmetry
  set would say the same, but not for liveness.)
- *`Apart`* of `bill_ledger` keeps apart what the code should and does not: a payment
  for an event and a cancellation, a new bill and a changed payment (section 6).
- *`Settled`, `Unhurried`, `OnlyVendors`, `Unraced`* are the same for the office: a copy
  is moved only when its rule is checked and nobody is at it; nobody leaves while
  an alert to them is being written; an expense made by paying is not reviewed;
  nobody joins while being invited again. With each of them FALSE the property it
  is for fails, as section 6 tells; the other properties do not need it.
- *`MaxHandIns = 2`, `MaxMoved = 1`, `LastDay = 2`*: a hand-in after a hand-in, a date moved,
  and a day on which the work is late. *`LastRepeat = 3`, `Falls = {1, 3}`*: a day
  that is missed, one between, and one more. *`LastTime = 2`*: a follow-up moved on
  and back. One server and two flushes; the proofs are for any number.
- *`ItemList`, `PlanList`, `Discount`, `Percent`, `MaxEdits = 2`*: lines whose shares round up
  or down together, a free line at the bottom, a small line that is left with a share
  larger than itself; plans in thirds, halves and mixed; an edit of an edit.
- *Three links, two requests; two payouts, two expenses.* A link that replaces one
  that was used, and a payment that follows another.
- *`MaxMessages`, `MaxPlans`, `LastDate`* of `Billing`: three messages about one
  subscription (two about one of two in `billing_lost`), in any order and to two
  handlers, with periods of a day and a trial (`Period`, `TrialEnd`). Nothing else
  is bounded: messages come, and handlers stop, as often as they like.
- *`Sender` of two, `MaxLeads = 2`, `MaxByHand = 1`*: two enquiries at once, the second of
  which must join the first or go to the other person, with one change by hand
  anywhere. `FormWindow = 1`, `MetaWindow = 2` and `LastMorning = 1`: the form's window is
  over when Meta's is not. With `MaxByHand = 2` the module alone has ten times the
  states, and holds too.
- *`Room`*: two events are made at most in a behaviour; a request that may make one
  starts only while one is left for it.

All runs have `CHECK_DEADLOCK FALSE`: when the leads, ticks, events and upsets of
an instance are used up and every job is idle, the model stops, which says
nothing of the code. That nobody waits for good is stated as a liveness
property where waiting exists (`EveryRequestEnds`).

## 4. Fairness

- `LeadIntake`: running jobs go on (every Graph call has a timeout), the
  15-second timer drains again (`StartDrain`), leases end and retries come due
  because time passes. Draining and the end of a lease are strongly fair because
  a task of the model runs one job at a time, while in the process the timer is
  not held back by the owner's requests. Nothing is assumed of the webhook, the
  owner, or Facebook.
- `CatchUp`: the timer takes the Page whenever `pollDue` would (on, not barred, not
  paused, due); a running catch-up goes on, through what Meta refuses too; time and
  days pass, and with them pauses end and the next poll comes due. "Check again" is
  nobody's duty, nor is the webhook, the owner's reconnecting or a health check that
  clears a problem: that a Page is not barred again and again is a premise of
  `CaughtUp`, not fairness. Answers may always be refused; how often is bounded
  by `MaxTroubles`, since a Page whose every call is refused catches up on nothing.
- `QuoteBooking`: a request that has begun goes on when it can, strongly: who
  waits for a row gets it in turn, as PostgreSQL queues lock waiters. Its
  deadlock detector is `BreakDeadlock`, one of the steps a waiting request
  takes. No handler is ever obliged to start.
- `BillLedger`: as `QuoteBooking`.
- `Alerts`: the timer fires every minute (weak fairness of `ReadDue`), what was told is
  marked when nothing stops the server, and `Tell` is strongly fair: a server
  that is started again does not stop at the same statement every time. Nothing
  is assumed of pushes.

## 5. Proofs

All constants are arbitrary under the named assumptions of each module.

- `LeadIntakeProofs`. `TypeCorrect`: the type invariant together with
  `WellPlaced`, which says what a task holds at each of its steps, is inductive.
  `OneBusiness`: inductive with it, because only `CommitTurnOn` switches a Page on,
  in one transaction that the unique index refuses when a third business has it.
  `BroughtInAtMostOnce`: every step of the system either makes no enquiry and moves
  statuses only as `Moves` allows, or makes one for one queued row (`NextLeads`);
  the exactly-once count is inductive under these two. `PromiseKept`: initial states map to initial states and every action to
  `BringIn`, to `Settle`, or to nothing. `NothingWhileOff` and `LeasesRespected` need
  `OffInv`: only waiting rows are claimed (`ClaimsWait`), a lapse is about a plan that ran
  out (`LapseIsDue`), and a job between its look at the Page and its write holds its row
  only while the Page is on or its plan ran out (`WriterMay`), because whatever turns a
  Page off takes the claims of its rows in the same statement (`PagesReach`). That covers
  any number of businesses, where the run has one.
- `CatchUpProofs`. `CatchUpTypes`; `NeverOutOfReach`, with `MaxFailures = 0`. The
  property is not inductive: what a job will write as a form's next place was
  decided when it began to read. The invariant `IInv` adds `Times` (no place,
  cursor or beginning of a read is later than the latest moment a read may have
  begun), `Stages` (what a job holds where) and `Reach`: every wanted lead is
  covered by the place, by the cursor, and, for every running job, by the
  beginning of its read or by the part of the listing still to come.
  `ClosedStaysOut`, with `Overlapping = FALSE`, needs no bound on failures: the leads
  filled in while the Page was off are earlier than its `since` (`OffInv`), and a
  catch-up runs only on a Page that is on and reads from that `since` (`RunsWhileOn`).
- `QuoteBookingProofs`. `LeadHasOneEvent` and `AcceptanceNotRefused` follow from
  `IInv`: one acceptance holds a lead (`LeadHeldOnce`), an event that waits to be
  committed has no rival (`Committing`), an acceptance that found no event still
  finds none (`Unbooked`). `AnswersStay` and `TeamToldOnce` assume that `markSent`
  and `deleteQuote` are among `Alone`, and add `AInv`: one acceptance holds a
  quote and that quote is open (`Answering`), a quote about to be rewritten is as
  it was read (`Rewriting`), the team was told only of an accepted one
  (`Telling`). Without the assumption `quote_overtaken` shows the counterexample.
  `AcceptanceBooks` assumes `deleteEvent` among `Alone` and adds `Found`: the event an
  acceptance is about to update is live and of its lead, which nobody but a deletion
  could change.
- `BillLedgerProofs`. `LedgerTypes` from `Typed`. `NoGapsNoDoubles` adds `Numbered`: at most
  one request has taken a counter's next number, the numbers given are those up to
  the counter, and no two rows have the same. It needs no bound. `PromiseKept`, the
  refinement, assumes `KeepsApart` (a payment for an event and a cancellation; two
  new bills, unless there is a single year, whose counter keeps them apart anyway)
  and adds `Placed`: money is on issued bills of its party, two new bills do
  not hold the same payment, and a payment about to be written still finds its
  bill as it was read. `AdvancesFit` assumes that amounts are not changed while a bill is
  made (`NoAmountChanges`): what a new bill has read and is still live fits it
  (`Fitting`), and no row names a bill that was not made (`OnMade`). What a set of
  payments is worth is a fold that takes them in an order of its own; `FoldIs`,
  `FoldsAgree` and `FoldsInAnyOrder` show that there is one such sum, that it depends only
  on the amounts, and not on the order.
- `AlertsProofs`. `NobodyUntold` (with `Unhurried`): `JobsOnTrack` says that a job about to
  tell has somebody in the team to tell, and that one about to mark has told.
  `NobodyBuzzedTwice`, without any bound: one alert per person and time, claimed by
  one flush at most (`ClaimedOnce`), whose phone has not buzzed for what a flush
  still holds (`BuzzedWasClaimed`).
- `TaskProofs`. `NoDayMissed`: a maker that is about to mark has its rule's copy
  (`MakersKnow`), and what a rule is checked for it has had (`CheckedHad`); the latest
  day exists by the well-foundedness of the numbers. `CopiedOnceADay` (with `Settled`)
  adds `MovedSettled`: a copy due on another day than its own was moved when its rule
  had been checked for it. `ClockStandsWhenDone`, `BonusIsEarned` and `DecidedForGood`
  are of `TaskLife` and share `TaskInv`: the clock's own property is inductive beside
  the types, for the bonus `SentBackCounted` ties the counter `revisions`, which is all
  the code looks at, to the hand-ins that were sent back.
- `MoneyProofs`.
  - `TheTwoAgree` (with `OnlyVendors`): a payout owns an expense exactly while
    it is paid (or was when it was deleted), no expense has two owners.
  - `HandledOnceAtMost`, without any assumption on the order of messages, the number
    of handlers or their crashes: two handlers are never at one message, and what
    one is at is recorded (`HandlersHold`); a message not recorded, or not come to by
    its handler yet, has changed nothing (`ChangesNothingYet`).
  - `InvoicesAddUp` and `SavedIsSettled`, for all quantities, prices, rates, discounts
    and plans. The invariant `AsSaved` says that a saved invoice is what saving
    it would make of it again. One step makes it true because the second pass finds a
    discount that is settled (`OffSettled`): clamping and taking the percentage once
    more give the same. `Sum` is a function defined by recursion over positions; what
    is needed of it (of two columns, of a constant, of a multiple, of one entry, a bound
    entry by entry) is proved from `SumSoFar`, the existence of the running sums. That
    rounding leaves the last line at most half a paisa a line too much is `SharesAddUp`
    and the lemmas before it: the shares times twice the subtotal are compared, entry by
    entry, with the exact ones.
- `OfficeProofs`.
  - `OneWayIn`: a membership comes of a link that is used up. `RemovedStaysOut` (with
    `Unraced`): one link is pending at most, and nobody in the team is being invited.
  - `OneLeadEach` and `TheFewestGetIt`: a number and the routing are held by one
    enquiry at most (`NumberHeld`, `RoutingHeld`), so that what was looked at before
    the wait is still so at the write: no untouched lead to join has come
    (`NoneToJoin`), the one chosen still has the fewest (`StillFewest`).
  - `OfficeKeepsItsShape`: the specification of the office implies that of each of
    its eight parts (`OfficeRunsItsParts`, a step of another part leaves this one
    alone), so whatever is proved of a part holds of the office.

The assumptions that are more than the kind of a constant are the ones section 3
names: `MaxFailures = 0` and `Overlapping = FALSE` of the catch-up, handlers in
`Alone` and `Apart`, `Settled`, `Unhurried`, `OnlyVendors`, `Unraced`. Each is
needed, as the disagreements of section 6 show. The limits on failures, edits, leads,
messages and days that keep TLC's instances small are arbitrary in the proofs.

Only model-checked: all liveness (`WaitingLeadSettles`, `CaughtUp`,
`EveryRequestEnds`, `DueIsTold`; the prover has no fairness or ENABLED). Induction
theorems with an operator for a parameter are out of the provers' reach too; where a
proof needs induction it is over a set of numbers or of sets, by the least one
that is not in it (`OneByOne`, `OneMore`, `OneFewer`).

## 6. Disagreements found

Each has a violation run and a finding in PROJECT.json with the lines it quotes.

1. `lead_stranded`: a test lead or a catch-up saved after its Page went off waits
   on a Page nobody drains, although leftovers "show as not brought in (never
   silently dropped)".
2. `catchup_lost`: `readForm` moves a form's place before its leads are inserted;
   a failed insert or a crash between loses those older than an hour.
3. `catchup_reopened`: a catch-up judges leads by the `leads_since` it read at its
   start; a Page switched off and on meanwhile gets leads from while it was off.
4. `quote_overtaken`: `markSent` and `deleteQuote` overwrite an answer committed
   between their read and their write.
5. `billing_lost`: "Each message is handled once" (`billing/service.ts:186`), but
   `handleRazorpayEvent` records a message and applies it in two statements: a crash
   between loses it, since the provider's retry is answered as a repeat (199).

Seen while modelling, and kept out of the passing runs by a bound or left out:

- *Quotes.* `deleteEvent` between `book`'s look for the event and its update leaves
  an accepted quote that points to a deleted event (`BookedWhenAccepted` fails once
  `deleteEvent` is not in `Alone`).
- *Money.* A payment for an event that meets a cancellation ends on the cancelled
  bill, and two new bills of different years take the same advance (`Promised`
  fails when either is taken out of `Apart`, or with a second year). A payment
  raised while a bill is being made gives the bill more than it comes to
  (`NewBillNotOverpaid`). A payment on a bill and one for its event can wait for
  each other; PostgreSQL rolls one back.
- *Payouts.* "Expenses made by paying a vendor change only from Vendors, so the two
  never disagree" (`money/expenses.ts:324`), but `reviewExpense` (383) does not ask:
  a second manager may reject one, and the payout stays paid (`PaidIsSpent` fails
  without `OnlyVendors`).
- *Repeats.* A copy moved before its rule is marked (the maker crashed, or another is
  at the rule with an older read) frees its day in the index, and a second copy is
  made. A copy moved to the rule's next day takes that day's place.
- *Alerts.* Who leaves between `salesRecipients` and `notify` is skipped, and the lead
  is marked with nobody told. A round-up claimed in `job_runs`, or a push claimed in
  `flushPush`, is lost by a crash; the code prefers that to telling twice.
- *Invitations.* `inviteMember` overlapping `acceptInvitation` leaves a pending link
  for somebody in the team, with which they can join again after being removed.
- *Tasks.* "Finishing a task again after it was reopened earns nothing more"
  (`review/points.ts:29`) is not so when its priority, date or assignee changed in between: the
  key holds the rule and the person. A hand-in taken back by moving the task to
  work stays undecided, and a later decision may close that older one.
- *Invoice sums.* Four equal lines with a discount of two paise make the last
  line's share negative. A small last line may be left with a share larger than
  itself (three lines of ten rupees, one of three paise, thirty rupees and a paisa off):
  "What GST is charged on: amount minus discount" (`core/src/quotes.ts:31`) is then
  clamped at zero (58), and the lines' taxable values come to more than the price
  less the discount, by half a paisa a line at most (`BillAddsUp`). Retyping lines with GST included while the discount is left out shrinks
  the stored discount again. GST switched off and on leaves kept lines at 0%.
- *Billing of the product.* A message that comes late moves a status or a period's end
  back: the model has it, and nothing in the code promises otherwise. "Cancelled or
  finished plans keep working until the end of what was paid for" (`plans.ts:75`),
  but `standing` (39) looks at one subscription: a cancelled one with paid time left
  is hidden by a newer checkout nobody has paid, or by a plan set by hand that has
  run out. "One plan at a time" (`test/billing.test.ts:137`) is not so for two
  checkouts begun before either is paid.
- *Enquiries.* `intakeLead` finds the lead to join without locking it (`intake.ts:95`), so the
  note of a repeat may land on a lead that was deleted or lost in the meantime, and
  nobody has a new one.
- *Stock.* The quantity is clamped at zero, so undoing a booking may put back more than
  it took; `deleteBooking` reads the status without a lock.

## 7. Not modelled, and why

- Meta: wording and timing of alerts, the OAuth round trip and its state rows, the
  listings of the screens, `fake-graph.ts`, which is a test double. What the Graph does is external and
  nondeterministic within what the code distinguishes.
- Leads: clients and partners, a business's own stages, the questions of the public
  form and its limit per device, activities, what a repeat fills in.
- Quotes: lines and tax (a total is a number), the client's record, event
  functions, packages, the calendar, a business without a won stage.
- Tasks: steps, comments, files, checklists of events, event teams, time off.
- Alerts other than follow-ups; preferences, push switched off, alerts older than a day.
- Streaks, recognition and the leaderboards, which are computed from the ledger.
- Billing: the limits on people and events, signatures, prices, messages about
  a subscription that is not ours.
- Stock: what it leaves open (section 6) would make any property a violation.
- Sign-in, lists, files, export, reports, web: edits of one row
  or queries; see the notes in PROJECT.json.

## 8. Plan

What would come next, in this order:

1. `LeadToBooking`: the pipeline from `LeadIntake`'s enquiry to `QuoteBooking`'s event
   and `BillLedger`'s bill as one abstract specification of a lead's life.
2. A violation run for each disagreement of section 6 that a comment promises
   against, beginning with payouts and repeats.
3. The daily round-ups and reminders beside `Alerts`.
