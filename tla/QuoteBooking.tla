---------------------------- MODULE QuoteBooking ----------------------------
(* Quotes answered by the client or by the team, and the booking a yes makes: *)
(* the lead moves to the won stage and gets its one event, worth the quote.  *)
(* Several requests run at once over PostgreSQL at READ COMMITTED: a         *)
(* statement sees what is committed when it starts, a row locked by a        *)
(* transaction is waited for, an UPDATE with only the id in its WHERE writes *)
(* whatever the row has become.                                              *)
(*                                                                           *)
(* One action is one transaction, or one statement of a handler whose        *)
(* statements other requests can come between.                               *)
EXTENDS Naturals, FiniteSets

CONSTANTS
    Quote,      \* the quotes the team makes
    Lead,       \* the leads
    LeadOf,     \* the lead each quote is for, or None (a quote for a client)
    Event,      \* bound: the events that may be made
    Total,      \* what a quote may come to
    Request,    \* requests under way at once
    None,       \* no quote, no lead, no event
    Plays,      \* bound: the handlers each request may run
    Alone       \* bound: the handlers that run only while no other does

Handler == {"accept", "acceptOnline", "markSent", "deleteQuote", "createEvent", "deleteEvent"}

ASSUME BookingAssumption ==
    /\ LeadOf \in [Quote -> Lead \cup {None}]
    /\ Total \subseteq Nat \ {0}
    /\ None \notin Quote \cup Lead \cup Event
    /\ IsFiniteSet(Event) /\ IsFiniteSet(Request)
    /\ Plays \in [Request -> SUBSET Handler]
    /\ Alone \subseteq Handler

VARIABLES
    quotes,     \* the quotes table
    leads,      \* the leads: at the won stage, deleted
    events,     \* the events table
    req,        \* what each request is doing
    told        \* how often the team was told a quote was accepted online

vars == <<quotes, leads, events, req, told>>

Idle == [op |-> "none", pc |-> "idle", quote |-> None, lead |-> None, event |-> None]

(* The value of an event that somebody typed, or left blank. *)
ByHand == 0

NoQuote == [status |-> "absent", deleted |-> FALSE, lapsed |-> FALSE, total |-> 0, event |-> None]
NoEvent == [made |-> FALSE, live |-> FALSE, lead |-> None, value |-> ByHand]

Init ==
    /\ quotes = [q \in Quote |-> NoQuote]
    /\ leads = [l \in Lead |-> [won |-> FALSE, deleted |-> FALSE]]
    /\ events = [e \in Event |-> NoEvent]
    /\ req = [p \in Request |-> Idle]
    /\ told = [q \in Quote |-> 0]

-----------------------------------------------------------------------------
(* Locks, reads and bounds                                                   *)

Accepting == {"accept", "acceptOnline"}

(* Mutant: the quote is read without FOR UPDATE. *)
NeverLocked(q) == FALSE

(* An acceptance holds its quote's row from its first statement, and its     *)
(* lead's row from its second, to its commit.                                *)
QuoteLocked(q) == \E p \in Request : req[p].op \in Accepting /\ req[p].quote = q

(* Mutant: nobody waits for a lead. *)
LeadFree(l) == FALSE

(* Mutant: those who wait for the lead keep each other waiting. *)
LeadAwaited(l) ==
    \E p \in Request : req[p].op \in Accepting /\ req[p].quote # None /\ LeadOf[req[p].quote] = l

LeadLocked(l) == \E p \in Request : req[p].op \in Accepting /\ req[p].lead = l

Visible(q) == quotes[q].status # "absent" /\ ~quotes[q].deleted

EventsOf(l) == {e \in Event : events[e].live /\ events[e].lead = l}

(* Mutant: no unique index on the lead of the events. *)
AnyMayHave(l) == TRUE

(* events_one_per_lead: a live event of the lead refuses another. *)
MayHaveEvent(l) == l = None \/ EventsOf(l) = {}

(* An event of this lead inserted by createEvent and not committed yet. *)
Inserting(l) == l # None /\ \E p \in Request : req[p].pc = "commit" /\ req[p].lead = l

(* A handler that is to run alone has the database to itself. *)
Undisturbed == \A p \in Request : req[p].op \notin Alone

MayStart(p, op) ==
    /\ req[p] = Idle /\ op \in Plays[p] /\ Undisturbed
    /\ op \in Alone => \A r \in Request : req[r] = Idle

Unmade == {e \in Event : ~events[e].made}

(* Bound: an event is left for every request that may make one. *)
Room == Cardinality(Unmade) >
          Cardinality({p \in Request : req[p].op \in Accepting \cup {"createEvent"}})

Goto(p, k) == req' = [req EXCEPT ![p] = k]

(* Mutant: a request that has ended keeps what it held. *)
EndedHolding(k) == [k EXCEPT !.op = "none", !.pc = "idle"]

Ended(k) == Idle

End(p) == Goto(p, Ended(req[p]))

-----------------------------------------------------------------------------
(* Quotes that are made, changed, sent, declined and deleted                 *)

CreateQuote(q) ==
    /\ Undisturbed
    /\ quotes[q].status = "absent"
    /\ LeadOf[q] # None => ~leads[LeadOf[q]].deleted
    /\ \E t \in Total : quotes' = [quotes EXCEPT ![q].status = "draft", ![q].total = t]
    /\ UNCHANGED <<leads, events, req, told>>

Closed(q) == quotes[q].status \in {"accepted", "declined"}

(* updateQuote: new lines, a new validity. *)
UpdateQuote(q) ==
    /\ Undisturbed
    /\ Visible(q) /\ ~QuoteLocked(q) /\ ~Closed(q)
    /\ \E t \in Total, lapsed \in {FALSE, quotes[q].lapsed} :
          quotes' = [quotes EXCEPT ![q].total = t, ![q].lapsed = lapsed]
    /\ UNCHANGED <<leads, events, req, told>>

(* The day after valid_until, of a quote that is still open. *)
Lapse(q) ==
    /\ Undisturbed
    /\ Visible(q) /\ ~Closed(q) /\ ~quotes[q].lapsed
    /\ quotes' = [quotes EXCEPT ![q].lapsed = TRUE]
    /\ UNCHANGED <<leads, events, req, told>>

(* declineQuote and declinePublicQuote; declined again, nothing happens. *)
Decline(q) ==
    /\ Undisturbed
    /\ Visible(q) /\ ~QuoteLocked(q) /\ ~Closed(q)
    /\ quotes' = [quotes EXCEPT ![q].status = "declined"]
    /\ UNCHANGED <<leads, events, req, told>>

(* Mutant: whatever is not marked sent yet is. *)
NotSentYet(status) == status # "sent"

Sendable(status) == status = "draft"

(* markSent and deleteQuote read the quote, and write it in a statement of   *)
(* its own whatever it has become.                                           *)
StartMarkSent(p, q) ==
    /\ MayStart(p, "markSent")
    /\ Visible(q) /\ Sendable(quotes[q].status)
    /\ Goto(p, [Idle EXCEPT !.op = "markSent", !.pc = "write", !.quote = q])
    /\ UNCHANGED <<quotes, leads, events, told>>

MarkSent(p) ==
    LET q == req[p].quote IN
    /\ req[p].op = "markSent" /\ ~QuoteLocked(q)
    /\ quotes' = [quotes EXCEPT ![q].status = "sent"]
    /\ End(p)
    /\ UNCHANGED <<leads, events, told>>

StartDeleteQuote(p, q) ==
    /\ MayStart(p, "deleteQuote")
    /\ Visible(q) /\ quotes[q].status # "accepted"
    /\ Goto(p, [Idle EXCEPT !.op = "deleteQuote", !.pc = "write", !.quote = q])
    /\ UNCHANGED <<quotes, leads, events, told>>

DeleteQuote(p) ==
    LET q == req[p].quote IN
    /\ req[p].op = "deleteQuote" /\ ~QuoteLocked(q)
    /\ quotes' = [quotes EXCEPT ![q].deleted = TRUE]
    /\ End(p)
    /\ UNCHANGED <<leads, events, told>>

-----------------------------------------------------------------------------
(* Accepting: one transaction, statement by statement                        *)

(* The quote is locked and read.  Accepted already, or refused (declined, or *)
(* expired online), the transaction ends there; of those no step is needed.  *)
StartAccept(p, q, op) ==
    /\ op \in Accepting /\ MayStart(p, op) /\ Room
    /\ Visible(q) /\ ~QuoteLocked(q) /\ ~Closed(q)
    /\ op = "acceptOnline" => ~(quotes[q].status = "sent" /\ quotes[q].lapsed)
    /\ Goto(p, [Idle EXCEPT !.op = op, !.pc = IF LeadOf[q] = None THEN "book" ELSE "lead",
                            !.quote = q])
    /\ UNCHANGED <<quotes, leads, events, told>>

(* book: the lead is locked, after whoever holds it. *)
LockLead(p) ==
    LET l == LeadOf[req[p].quote] IN
    /\ req[p].pc = "lead" /\ ~LeadLocked(l)
    /\ Goto(p, [req[p] EXCEPT !.pc = "find", !.lead = l])
    /\ UNCHANGED <<quotes, leads, events, told>>

FindEvent(p) ==
    LET found == EventsOf(req[p].lead) IN
    /\ req[p].pc = "find"
    /\ \E e \in IF found = {} THEN {None} ELSE found :
            Goto(p, [req[p] EXCEPT !.pc = "book", !.event = e])
    /\ UNCHANGED <<quotes, leads, events, told>>

(* Mutant: an event that is there already keeps its value. *)
KeepsValue(e, total) == events[e]

Revalued(e, total) == [events[e] EXCEPT !.value = total]

(* The event that was found takes the quote's value, found dead or alive, or *)
(* a new one is made; the lead is won, the quote accepted; online, the team  *)
(* is told; and it commits.                                                  *)
Book(p) ==
    LET k == req[p]
        q == k.quote
        total == quotes[q].total
    IN
    /\ k.pc = "book"
    /\ \E e \in IF k.event # None THEN {k.event} ELSE Unmade :
        /\ k.event = None => ~Inserting(k.lead) /\ MayHaveEvent(k.lead)
        /\ events' = [events EXCEPT ![e] =
              IF k.event # None THEN Revalued(e, total)
              ELSE [made |-> TRUE, live |-> TRUE, lead |-> k.lead, value |-> total]]
        /\ quotes' = [quotes EXCEPT ![q].status = "accepted", ![q].event = e]
    /\ leads' = IF k.lead = None THEN leads ELSE [leads EXCEPT ![k.lead].won = TRUE]
    /\ told' = IF k.op = "acceptOnline" THEN [told EXCEPT ![q] = @ + 1] ELSE told
    /\ End(p)

-----------------------------------------------------------------------------
(* Events and leads changed by hand                                          *)

(* createEvent: the lead is there and has no event; then the event goes into *)
(* the unique index, after whoever is inserting one, or is refused; then its *)
(* foreign key waits for whoever has the lead locked, and it commits.        *)
StartCreateEvent(p, l) ==
    /\ MayStart(p, "createEvent") /\ Room
    /\ ~leads[l].deleted /\ EventsOf(l) = {}
    /\ Goto(p, [Idle EXCEPT !.op = "createEvent", !.pc = "insert", !.lead = l])
    /\ UNCHANGED <<quotes, leads, events, told>>

InsertEvent(p) ==
    LET l == req[p].lead IN
    /\ req[p].pc = "insert" /\ ~Inserting(l)
    /\ IF MayHaveEvent(l) THEN Goto(p, [req[p] EXCEPT !.pc = "commit"]) ELSE End(p)
    /\ UNCHANGED <<quotes, leads, events, told>>

CommitEvent(p) ==
    LET l == req[p].lead IN
    /\ req[p].pc = "commit" /\ ~LeadLocked(l)
    /\ \E e \in Unmade :
          events' = [events EXCEPT ![e] = [made |-> TRUE, live |-> TRUE, lead |-> l, value |-> ByHand]]
    /\ End(p)
    /\ UNCHANGED <<quotes, leads, told>>

(* An acceptance waits for the inserted event, and its insertion for the     *)
(* acceptance's lead: PostgreSQL rolls one of them back.                     *)
BreakDeadlock(p) ==
    /\ \E r, s \in Request :
        /\ req[r].pc = "book" /\ req[r].event = None
        /\ req[s].pc = "commit" /\ req[s].lead = req[r].lead
        /\ p \in {r, s}
    /\ End(p)
    /\ UNCHANGED <<quotes, leads, events, told>>

UpdateEvent(e) ==
    /\ Undisturbed /\ events[e].live
    /\ events' = [events EXCEPT ![e].value = ByHand]
    /\ UNCHANGED <<quotes, leads, req, told>>

(* deleteEvent: the event first, then the quotes that point to it. *)
StartDeleteEvent(p, e) ==
    /\ MayStart(p, "deleteEvent")
    /\ events[e].live
    /\ events' = [events EXCEPT ![e].live = FALSE]
    /\ Goto(p, [Idle EXCEPT !.op = "deleteEvent", !.pc = "unlink", !.event = e])
    /\ UNCHANGED <<quotes, leads, told>>

UnlinkQuotes(p) ==
    LET e == req[p].event IN
    /\ req[p].pc = "unlink"
    /\ \A q \in Quote : quotes[q].event = e => ~QuoteLocked(q)
    /\ quotes' = [q \in Quote |-> IF quotes[q].event = e THEN [quotes[q] EXCEPT !.event = None]
                                  ELSE quotes[q]]
    /\ End(p)
    /\ UNCHANGED <<leads, events, told>>

(* updateLead, to or from the won stage, and deleteLead. *)
MoveLead(l) ==
    /\ Undisturbed /\ ~LeadLocked(l) /\ ~leads[l].deleted
    /\ \E won \in BOOLEAN \ {leads[l].won} : leads' = [leads EXCEPT ![l].won = won]
    /\ UNCHANGED <<quotes, events, req, told>>

DeleteLead(l) ==
    /\ Undisturbed /\ ~LeadLocked(l) /\ ~leads[l].deleted
    /\ leads' = [leads EXCEPT ![l].deleted = TRUE]
    /\ UNCHANGED <<quotes, events, req, told>>

(* A statement throws or the process dies: an open transaction is rolled     *)
(* back, a statement that ran on its own stays.                              *)
Fails(p) ==
    /\ req[p] # Idle
    /\ Goto(p, Idle)
    /\ UNCHANGED <<quotes, leads, events, told>>

-----------------------------------------------------------------------------
Works(p) ==
    \/ MarkSent(p) \/ DeleteQuote(p) \/ LockLead(p) \/ FindEvent(p) \/ Book(p)
    \/ InsertEvent(p) \/ CommitEvent(p) \/ BreakDeadlock(p) \/ UnlinkQuotes(p)

Starts(p) ==
    \/ \E q \in Quote : \/ StartMarkSent(p, q) \/ StartDeleteQuote(p, q)
                        \/ \E op \in Accepting : StartAccept(p, q, op)
    \/ \E l \in Lead : StartCreateEvent(p, l)
    \/ \E e \in Event : StartDeleteEvent(p, e)

Next ==
    \/ \E p \in Request : Starts(p) \/ Works(p) \/ Fails(p)
    \/ \E q \in Quote : CreateQuote(q) \/ UpdateQuote(q) \/ Lapse(q) \/ Decline(q)
    \/ \E e \in Event : UpdateEvent(e)
    \/ \E l \in Lead : MoveLead(l) \/ DeleteLead(l)

Spec == Init /\ [][Next]_vars

(* A request that has begun goes on when it can, and those who wait for a    *)
(* row get it in turn: PostgreSQL queues them.                               *)
FairSpec == Spec /\ \A p \in Request : SF_vars(Works(p))

-----------------------------------------------------------------------------
(* Properties                                                                *)

Statuses == {"absent", "draft", "sent", "accepted", "declined"}
Steps == {"idle", "write", "lead", "find", "book", "insert", "commit",
          "unlink"}
QuoteType == [status : Statuses, deleted : BOOLEAN, lapsed : BOOLEAN, total : Total \cup {0},
              event : Event \cup {None}]
LeadType == [won : BOOLEAN, deleted : BOOLEAN]
EventType == [made : BOOLEAN, live : BOOLEAN, lead : Lead \cup {None}, value : Total \cup {ByHand}]
RequestType == [op : Handler \cup {"none"}, pc : Steps, quote : Quote \cup {None},
                lead : Lead \cup {None}, event : Event \cup {None}]

TypeOK ==
    /\ quotes \in [Quote -> QuoteType]
    /\ leads \in [Lead -> LeadType]
    /\ events \in [Event -> EventType]
    /\ req \in [Request -> RequestType]
    /\ told \in [Quote -> Nat]
    /\ \A p \in Request : req[p].op = "none" => req[p] = Idle

(* A lead has one event at most, however its quotes are accepted and its     *)
(* events made by hand at the same time.                                     *)
OneEventPerLead == \A l \in Lead : Cardinality(EventsOf(l)) <= 1

(* An acceptance that found no event for its lead is not refused for one     *)
(* that was made by hand meanwhile.                                          *)
NoEventComesBetween ==
    \A p \in Request : req[p].pc = "book" /\ req[p].event = None => MayHaveEvent(req[p].lead)

(* An answer is for good: an accepted quote stays accepted, at its total,    *)
(* and is kept; a declined one stays declined.                               *)
AnsweredForGood ==
    [][\A q \in Quote : Closed(q) =>
          /\ quotes'[q].status = quotes[q].status
          /\ quotes'[q].total = quotes[q].total
          /\ quotes[q].status = "accepted" => quotes'[q].deleted = quotes[q].deleted]_vars

(* When a quote becomes accepted the job is booked: its lead is won, and it  *)
(* points to a live event of its lead that is worth its total.               *)
BookedWhenAccepted ==
    [][\A q \in Quote : quotes[q].status # "accepted" /\ quotes'[q].status = "accepted" =>
          /\ LeadOf[q] # None => leads'[LeadOf[q]].won
          /\ quotes'[q].event # None
          /\ LET e == events'[quotes'[q].event] IN
             e.live /\ e.lead = LeadOf[q] /\ e.value = quotes'[q].total]_vars

(* The team is told of an acceptance once, however often and at whichever    *)
(* moment the client presses the button.                                     *)
ToldOnce == \A q \in Quote : told[q] <= 1

(* No two requests wait for each other for good. *)
EveryRequestEnds == \A p \in Request : (req[p] # Idle) ~> (req[p] = Idle)
=============================================================================
