------------------------- MODULE QuoteBookingProofs -------------------------
(* What is proved of QuoteBooking for any number of quotes, leads, events    *)
(* and requests at once: its types, that a lead never has two events, that   *)
(* an acceptance never meets an event made by hand meanwhile; and, as long   *)
(* as marking as sent and deleting a quote run alone, that an answer is for  *)
(* good and the team is told of it once; as long as deleting an event runs   *)
(* alone, that an acceptance books its job.                                  *)
EXTENDS QuoteBooking, FiniteSetTheorems, TLAPS

-----------------------------------------------------------------------------
(* The inductive invariants                                                  *)

(* What a request holds at each of its steps. *)
RequestOK(k) ==
    /\ k \in RequestType
    /\ k.op = "none" => k = Idle
    /\ k.pc \in {"lead", "find", "book"} <=> k.op \in Accepting
    /\ k.pc \in {"insert", "commit"} => k.op = "createEvent" /\ k.lead \in Lead
    /\ k.pc \in {"lead", "find", "book", "write"} => k.quote \in Quote
    /\ k.pc = "write" <=> k.op \in {"markSent", "deleteQuote"}
    /\ k.pc = "lead" => LeadOf[k.quote] \in Lead
    /\ k.pc = "find" => k.lead \in Lead

Tables ==
    /\ quotes \in [Quote -> QuoteType]
    /\ leads \in [Lead -> LeadType]
    /\ events \in [Event -> EventType]
    /\ told \in [Quote -> Nat]

Requests == req \in [Request -> RequestType] /\ \A p \in Request : RequestOK(req[p])

(* One acceptance at most holds a lead. *)
LeadHeldOnce ==
    \A p, r \in Request :
        /\ req[p].op \in Accepting /\ req[r].op \in Accepting
        /\ req[p].lead # None /\ req[p].lead = req[r].lead
        => p = r

(* The lead of an event that waits to be committed has no other, there or    *)
(* waiting.                                                                  *)
Committing ==
    \A p \in Request : req[p].pc = "commit" =>
        /\ EventsOf(req[p].lead) = {}
        /\ \A r \in Request : req[r].pc = "commit" /\ req[r].lead = req[p].lead => r = p

Unbooked ==
    \A p \in Request : req[p].pc = "book" /\ req[p].event = None => MayHaveEvent(req[p].lead)

OneEach == \A l \in Lead : \A e, f \in EventsOf(l) : e = f

IInv == Tables /\ Requests /\ LeadHeldOnce /\ Committing /\ Unbooked /\ OneEach

(* A handler that runs alone does. *)
RunsAlone ==
    \A p, r \in Request : req[p].op \in Alone /\ r # p => req[r] = Idle

(* One acceptance at most holds a quote, and it is open until that commits. *)
Answering ==
    \A p \in Request : req[p].op \in Accepting =>
        /\ ~Closed(req[p].quote)
        /\ \A r \in Request : req[r].op \in Accepting /\ req[r].quote = req[p].quote => r = p

(* The quote is still as it was read. *)
Rewriting ==
    \A p \in Request :
        /\ req[p].op = "markSent" => ~Closed(req[p].quote)
        /\ req[p].op = "deleteQuote" => quotes[req[p].quote].status # "accepted"

Telling == \A q \in Quote : told[q] = 0 \/ (told[q] = 1 /\ quotes[q].status = "accepted")

AInv == RunsAlone /\ Answering /\ Rewriting /\ Telling

-----------------------------------------------------------------------------
(* Requests                                                                  *)

LEMMA IdleOK == RequestOK(Idle)
BY DEF RequestOK, RequestType, Idle, Handler, Steps, Accepting

(* A request that moves to a step it may be at leaves all requests at such.  *)
LEMMA GotoKeeps ==
    ASSUME Requests, NEW p \in Request, NEW k, RequestOK(k), Goto(p, k)
    PROVE  Requests' /\ req' = [req EXCEPT ![p] = k]
BY DEF Requests, RequestOK, Goto

LEMMA EndKeeps ==
    ASSUME Requests, NEW p \in Request, End(p)
    PROVE  Requests' /\ req' = [req EXCEPT ![p] = Idle]
BY IdleOK, GotoKeeps DEF End, Ended

-----------------------------------------------------------------------------
(* Events                                                                    *)

(* No event comes to life or changes its lead. *)
Fewer == \A e \in Event : events'[e].live => events[e].live /\ events'[e].lead = events[e].lead

LEMMA FewerOf ==
    ASSUME Fewer, NEW l
    PROVE  EventsOf(l)' \subseteq EventsOf(l)
BY DEF Fewer, EventsOf

EventParts == LeadHeldOnce /\ Committing /\ Unbooked /\ OneEach

LEMMA FewerKeeps ==
    ASSUME EventParts, Fewer, UNCHANGED req
    PROVE  EventParts'
<1>1. \A l : EventsOf(l)' \subseteq EventsOf(l)
  BY FewerOf
<1>2. LeadHeldOnce' /\ Unbooked'
  BY <1>1 DEF EventParts, LeadHeldOnce, Unbooked, MayHaveEvent
<1>3. Committing' /\ OneEach'
  BY <1>1 DEF EventParts, Committing, OneEach
<1> QED BY <1>2, <1>3 DEF EventParts

(* A step that takes no lead and lets no event go ahead. *)
LEMMA QuietStepKeeps ==
    ASSUME EventParts, Requests, Fewer, NEW p \in Request, NEW k, req' = [req EXCEPT ![p] = k],
           k.op \in Accepting => k.lead = None \/ (k.lead = req[p].lead /\ req[p].op \in Accepting),
           k.pc # "commit",
           k.pc = "book" /\ k.event = None => MayHaveEvent(k.lead)
    PROVE  EventParts'
<1>1. \A l : EventsOf(l)' \subseteq EventsOf(l)
  BY FewerOf
<1>2. \A r \in Request : req'[r] = IF r = p THEN k ELSE req[r]
  BY DEF Requests
<1>3. LeadHeldOnce'
  BY <1>2 DEF EventParts, LeadHeldOnce
<1>4. Committing'
  BY <1>1, <1>2 DEF EventParts, Committing
<1>5. Unbooked'
  BY <1>1, <1>2 DEF EventParts, Unbooked, MayHaveEvent
<1>6. OneEach'
  BY <1>1 DEF EventParts, OneEach
<1> QED BY <1>3, <1>4, <1>5, <1>6 DEF EventParts

(* A request that ends. *)
LEMMA EndStepKeeps ==
    ASSUME EventParts, Requests, Fewer, NEW p \in Request, End(p)
    PROVE  EventParts' /\ Requests'
<1>1. Requests' /\ req' = [req EXCEPT ![p] = Idle]
  BY EndKeeps
<1>2. Idle.op \notin Accepting /\ Idle.pc = "idle"
  BY DEF Idle, Accepting
<1> QED BY <1>1, <1>2, QuietStepKeeps

(* A new event for a lead that has none, and none waiting: made by a request *)
(* that ends.                                                                *)
LEMMA NewEventKeeps ==
    ASSUME IInv, NEW p \in Request, NEW e \in Event, NEW l \in Lead \cup {None}, NEW v,
           End(p),
           events' = [events EXCEPT ![e] = [made |-> TRUE, live |-> TRUE, lead |-> l, value |-> v]],
           l # None => EventsOf(l) = {},
           \A r \in Request : l # None /\ r # p /\ req[r].pc = "commit" => req[r].lead # l,
           \A r \in Request : l # None /\ r # p /\ req[r].pc = "book" => req[r].lead # l
    PROVE  EventParts' /\ Requests'
<1> USE DEF IInv
<1>1. Requests' /\ req' = [req EXCEPT ![p] = Idle]
  BY EndKeeps
<1>2. \A r \in Request : req'[r] = IF r = p THEN Idle ELSE req[r]
  BY <1>1 DEF Requests
<1>3. \A x \in Event : events'[x].live =>
         IF x = e THEN events'[x].lead = l ELSE events[x].live /\ events'[x].lead = events[x].lead
  BY DEF Tables
<1>4. \A m : m # l => EventsOf(m)' \subseteq EventsOf(m)
  BY <1>3 DEF EventsOf
<1>5. l # None => EventsOf(l)' \subseteq {e}
  BY <1>3 DEF EventsOf
<1>6. LeadHeldOnce'
  BY <1>2 DEF LeadHeldOnce, Idle, Accepting
<1>7. Committing'
  <2>1. \A r \in Request : req'[r].pc = "commit" => r # p /\ req[r].lead \in Lead /\ req[r].lead # l
    BY <1>2, BookingAssumption DEF Idle, Requests, RequestOK
  <2> QED BY <1>2, <1>4, <2>1 DEF Committing
<1>8. Unbooked'
  <2>1. \A r \in Request : req'[r].pc = "book" => r # p /\ (req[r].lead = l => l = None)
    BY <1>2 DEF Idle
  <2> QED BY <1>2, <1>4, <2>1 DEF Unbooked, MayHaveEvent
<1>9. OneEach'
  BY <1>4, <1>5, BookingAssumption DEF OneEach
<1> QED BY <1>1, <1>6, <1>7, <1>8, <1>9 DEF EventParts

-----------------------------------------------------------------------------
(* The tables keep their types                                               *)

LEMMA QuoteChanged ==
    ASSUME Tables, NEW q \in Quote, NEW new \in QuoteType, quotes' = [quotes EXCEPT ![q] = new]
    PROVE  quotes' \in [Quote -> QuoteType]
BY DEF Tables

LEMMA EventChanged ==
    ASSUME Tables, NEW e \in Event, NEW new \in EventType, events' = [events EXCEPT ![e] = new]
    PROVE  events' \in [Event -> EventType]
BY DEF Tables

(* The steps of a quote's life outside acceptance. *)
LEMMA QuoteStepTypes ==
    ASSUME Tables, NEW q \in Quote, CreateQuote(q) \/ UpdateQuote(q) \/ Lapse(q) \/ Decline(q)
    PROVE  Tables' /\ UNCHANGED <<leads, events, req, told>>
<1>1. quotes \in [Quote -> QuoteType]
  BY DEF Tables
<1>2. PICK new \in QuoteType : quotes' = [quotes EXCEPT ![q] = new]
  <2>1. CASE CreateQuote(q)
    <3>1. PICK t \in Total : quotes' = [quotes EXCEPT ![q].status = "draft", ![q].total = t]
      BY <2>1 DEF CreateQuote
    <3>2. [quotes[q] EXCEPT !.status = "draft", !.total = t] \in QuoteType
      BY <1>1 DEF QuoteType, Statuses
    <3> QED BY <3>1, <3>2, <1>1
  <2>2. CASE UpdateQuote(q)
    <3>1. PICK t \in Total, lapsed \in {FALSE, quotes[q].lapsed} :
              quotes' = [quotes EXCEPT ![q].total = t, ![q].lapsed = lapsed]
      BY <2>2 DEF UpdateQuote
    <3>2. [quotes[q] EXCEPT !.total = t, !.lapsed = lapsed] \in QuoteType
      BY <1>1 DEF QuoteType
    <3> QED BY <3>1, <3>2, <1>1
  <2>3. CASE Lapse(q)
    <3>1. quotes' = [quotes EXCEPT ![q].lapsed = TRUE]
      BY <2>3 DEF Lapse
    <3>2. [quotes[q] EXCEPT !.lapsed = TRUE] \in QuoteType
      BY <1>1 DEF QuoteType
    <3> QED BY <3>1, <3>2, <1>1
  <2>4. CASE Decline(q)
    <3>1. quotes' = [quotes EXCEPT ![q].status = "declined"]
      BY <2>4 DEF Decline
    <3>2. [quotes[q] EXCEPT !.status = "declined"] \in QuoteType
      BY <1>1 DEF QuoteType, Statuses
    <3> QED BY <3>1, <3>2, <1>1
  <2> QED BY <2>1, <2>2, <2>3, <2>4
<1>3. UNCHANGED <<leads, events, req, told>>
  BY DEF CreateQuote, UpdateQuote, Lapse, Decline
<1> QED BY <1>2, <1>3, QuoteChanged DEF Tables

-----------------------------------------------------------------------------
(* Requests' steps                                                           *)

LEMMA StartWriteKeeps ==
    ASSUME IInv, NEW p \in Request, NEW q \in Quote, StartMarkSent(p, q) \/ StartDeleteQuote(p, q)
    PROVE  IInv'
<1> DEFINE k(op) == [Idle EXCEPT !.op = op, !.pc = "write", !.quote = q]
<1>1. PICK op \in {"markSent", "deleteQuote"} : Goto(p, k(op))
  BY DEF StartMarkSent, StartDeleteQuote
<1>2. RequestOK(k(op))
  BY DEF RequestOK, RequestType, Idle, Handler, Steps, Accepting
<1>3. Requests' /\ req' = [req EXCEPT ![p] = k(op)]
  BY <1>1, <1>2, GotoKeeps DEF IInv
<1>4. Tables' /\ UNCHANGED events
  BY DEF StartMarkSent, StartDeleteQuote, IInv, Tables
<1>5. k(op).op \notin Accepting /\ k(op).pc = "write"
  BY DEF Idle, Accepting
<1>6. EventParts'
  BY <1>3, <1>4, <1>5, QuietStepKeeps DEF IInv, EventParts, Fewer
<1> QED BY <1>3, <1>4, <1>6 DEF IInv, EventParts

LEMMA WriteKeeps ==
    ASSUME IInv, NEW p \in Request, MarkSent(p) \/ DeleteQuote(p)
    PROVE  IInv'
<1> DEFINE q == req[p].quote
<1>1. q \in Quote /\ quotes[q] \in QuoteType
  BY DEF MarkSent, DeleteQuote, IInv, Requests, RequestOK, Tables
<1>2. PICK new \in QuoteType : quotes' = [quotes EXCEPT ![q] = new]
  <2>1. CASE MarkSent(p)
    <3>1. quotes' = [quotes EXCEPT ![q].status = "sent"]
      BY <2>1 DEF MarkSent
    <3>2. [quotes[q] EXCEPT !.status = "sent"] \in QuoteType
      BY <1>1 DEF QuoteType, Statuses
    <3> QED BY <3>1, <3>2, <1>1 DEF IInv, Tables
  <2>2. CASE DeleteQuote(p)
    <3>1. quotes' = [quotes EXCEPT ![q].deleted = TRUE]
      BY <2>2 DEF DeleteQuote
    <3>2. [quotes[q] EXCEPT !.deleted = TRUE] \in QuoteType
      BY <1>1 DEF QuoteType
    <3> QED BY <3>1, <3>2, <1>1 DEF IInv, Tables
  <2> QED BY <2>1, <2>2
<1>3. Tables' /\ UNCHANGED events
  BY <1>1, <1>2, QuoteChanged DEF MarkSent, DeleteQuote, IInv, Tables
<1>4. EventParts' /\ Requests'
  BY <1>3, EndStepKeeps DEF MarkSent, DeleteQuote, IInv, EventParts, Fewer
<1> QED BY <1>3, <1>4 DEF IInv, EventParts

LEMMA StartAcceptKeeps ==
    ASSUME IInv, NEW p \in Request, NEW q \in Quote, NEW op \in Accepting, StartAccept(p, q, op)
    PROVE  IInv'
<1> DEFINE k == [Idle EXCEPT !.op = op, !.pc = IF LeadOf[q] = None THEN "book" ELSE "lead", !.quote = q]
<1>1. RequestOK(k)
  BY BookingAssumption DEF RequestOK, RequestType, Idle, Handler, Steps, Accepting
<1>2. Goto(p, k)
  BY DEF StartAccept
<1>3. Requests' /\ req' = [req EXCEPT ![p] = k]
  BY <1>1, <1>2, GotoKeeps DEF IInv
<1>4. Tables' /\ UNCHANGED events
  BY DEF StartAccept, IInv, Tables
<1>5. k.lead = None /\ k.pc # "commit"
  BY DEF Idle
<1>6. Fewer /\ MayHaveEvent(k.lead)
  BY <1>4, <1>5 DEF Fewer, MayHaveEvent
<1> HIDE DEF k
<1>7. EventParts'
  BY <1>3, <1>5, <1>6, QuietStepKeeps DEF IInv, EventParts
<1> QED BY <1>3, <1>4, <1>7 DEF IInv, EventParts

LEMMA LockLeadKeeps ==
    ASSUME IInv, NEW p \in Request, LockLead(p)
    PROVE  IInv'
<1> DEFINE l == LeadOf[req[p].quote]
           k == [req[p] EXCEPT !.pc = "find", !.lead = l]
<1>1. RequestOK(req[p]) /\ req[p].pc = "lead" /\ req[p].op \in Accepting /\ l \in Lead
  BY DEF LockLead, IInv, Requests, RequestOK
<1>2. RequestOK(k) /\ k.op = req[p].op /\ k.lead = l /\ k.pc = "find"
  BY <1>1 DEF RequestOK, RequestType, Steps, Accepting
<1>3. Requests' /\ req' = [req EXCEPT ![p] = k]
  BY <1>2, GotoKeeps DEF IInv, LockLead
<1>4. Tables' /\ UNCHANGED events
  BY DEF LockLead, IInv, Tables
<1>5. \A r \in Request : req'[r] = IF r = p THEN k ELSE req[r]
  BY <1>3 DEF IInv, Requests
<1>6. \A r \in Request : req[r].op \in Accepting => req[r].lead # l
  BY DEF LockLead, LeadLocked
<1> HIDE DEF k, l
<1>7. LeadHeldOnce'
  BY <1>1, <1>2, <1>5, <1>6 DEF IInv, LeadHeldOnce
<1>8. \A m : EventsOf(m)' = EventsOf(m)
  BY <1>4 DEF EventsOf
<1>9. Committing'
  BY <1>2, <1>5, <1>8 DEF IInv, Committing
<1>10. Unbooked' /\ OneEach'
  BY <1>2, <1>5, <1>8 DEF IInv, Unbooked, OneEach, MayHaveEvent
<1> QED BY <1>3, <1>4, <1>7, <1>9, <1>10 DEF IInv

LEMMA FindEventKeeps ==
    ASSUME IInv, NEW p \in Request, FindEvent(p)
    PROVE  IInv'
<1> DEFINE found == EventsOf(req[p].lead)
           k(e) == [req[p] EXCEPT !.pc = "book", !.event = e]
<1>1. PICK e \in IF found = {} THEN {None} ELSE found : Goto(p, k(e))
  BY DEF FindEvent
<1>2. RequestOK(req[p]) /\ req[p].pc = "find" /\ req[p].op \in Accepting
  BY DEF FindEvent, IInv, Requests, RequestOK
<1>3. e \in Event \cup {None} /\ (e = None => found = {})
  BY <1>1, BookingAssumption DEF EventsOf
<1>4. RequestOK(k(e)) /\ k(e).op = req[p].op /\ k(e).lead = req[p].lead /\ k(e).pc = "book" /\ k(e).event = e
  BY <1>2, <1>3 DEF RequestOK, RequestType, Steps, Accepting
<1>5. Requests' /\ req' = [req EXCEPT ![p] = k(e)]
  BY <1>1, <1>4, GotoKeeps DEF IInv
<1>6. Tables' /\ UNCHANGED events
  BY DEF FindEvent, IInv, Tables
<1>7. EventParts'
  BY <1>2, <1>3, <1>4, <1>5, <1>6, QuietStepKeeps DEF IInv, EventParts, Fewer, MayHaveEvent
<1> QED BY <1>5, <1>6, <1>7 DEF IInv, EventParts

(* The quote and the lead's row after an acceptance has committed. *)
LEMMA BookWrites ==
    ASSUME IInv, NEW p \in Request, Book(p)
    PROVE  /\ quotes' \in [Quote -> QuoteType]
           /\ leads' \in [Lead -> LeadType]
           /\ told' \in [Quote -> Nat]
<1> DEFINE k == req[p]
           q == k.quote
<1>1. RequestOK(k) /\ q \in Quote /\ k.lead \in Lead \cup {None} /\ k.event \in Event \cup {None}
  BY DEF Book, IInv, Requests, RequestOK, RequestType
<1>2. quotes \in [Quote -> QuoteType] /\ leads \in [Lead -> LeadType] /\ told \in [Quote -> Nat]
  BY DEF IInv, Tables
<1>3. PICK e \in Event : quotes' = [quotes EXCEPT ![q].status = "accepted", ![q].event = e]
  <2>1. PICK e \in IF k.event # None THEN {k.event} ELSE Unmade :
            quotes' = [quotes EXCEPT ![q].status = "accepted", ![q].event = e]
    BY DEF Book
  <2>2. e \in Event
    BY <1>1, <2>1 DEF Unmade
  <2> QED BY <2>1, <2>2
<1>4. quotes' \in [Quote -> QuoteType]
  <2>1. quotes[q] \in QuoteType
    BY <1>1, <1>2
  <2> HIDE DEF q
  <2>2. [quotes[q] EXCEPT !.status = "accepted", !.event = e] \in QuoteType
    BY <2>1 DEF QuoteType, Statuses
  <2> QED BY <1>1, <1>2, <1>3, <2>2
<1>5. leads' \in [Lead -> LeadType]
  <2>1. CASE k.lead = None
    BY <1>2, <2>1 DEF Book
  <2>2. CASE k.lead \in Lead /\ k.lead # None
    <3>1. leads' = [leads EXCEPT ![k.lead].won = TRUE]
      BY <2>2 DEF Book
    <3>2. [leads[k.lead] EXCEPT !.won = TRUE] \in LeadType
      BY <1>2, <2>2 DEF LeadType
    <3> QED BY <1>2, <3>1, <3>2, <2>2
  <2> QED BY <1>1, <2>1, <2>2
<1>6. told' \in [Quote -> Nat]
  BY <1>1, <1>2 DEF Book
<1> QED BY <1>4, <1>5, <1>6

LEMMA BookKeeps ==
    ASSUME IInv, NEW p \in Request, Book(p)
    PROVE  IInv'
<1> DEFINE k == req[p]
           q == k.quote
           total == quotes[q].total
           new == [made |-> TRUE, live |-> TRUE, lead |-> k.lead, value |-> total]
<1>1. /\ RequestOK(k) /\ q \in Quote /\ k.pc = "book" /\ k.op \in Accepting
      /\ k.lead \in Lead \cup {None} /\ k.event \in Event \cup {None}
  BY DEF Book, IInv, Requests, RequestOK, RequestType
<1>2. total \in Total \cup {0} /\ End(p) /\ events \in [Event -> EventType]
  BY <1>1 DEF Book, IInv, Tables, QuoteType
<1>3. CASE k.event # None
  <2> DEFINE e == k.event
  <2>1. e \in Event
    BY <1>1, <1>3
  <2>2. events' = [events EXCEPT ![e] = Revalued(e, total)]
    BY <1>3 DEF Book
  <2>3. Revalued(e, total) = [events[e] EXCEPT !.value = total]
    BY DEF Revalued
  <2>4. Revalued(e, total) \in EventType
    BY <1>2, <2>1, <2>3 DEF EventType, ByHand
  <2>5. events' \in [Event -> EventType]
    BY <2>1, <2>2, <2>4, EventChanged DEF IInv
  <2>6. Fewer
    BY <1>2, <2>1, <2>2, <2>3 DEF Fewer, EventType
  <2>7. EventParts' /\ Requests'
    BY <1>2, <2>6, EndStepKeeps DEF IInv, EventParts
  <2> QED BY <2>5, <2>7, BookWrites DEF IInv, EventParts, Tables
<1>4. CASE k.event = None
  <2>1. PICK e \in Unmade :
          /\ ~Inserting(k.lead) /\ MayHaveEvent(k.lead)
          /\ events' = [events EXCEPT ![e] = new]
    BY <1>4 DEF Book
  <2>2. e \in Event /\ new \in EventType
    BY <1>1, <1>2, <2>1 DEF Unmade, EventType, ByHand
  <2>3. events' \in [Event -> EventType]
    BY <2>1, <2>2, EventChanged DEF IInv
  <2>4. k.lead # None => EventsOf(k.lead) = {}
    BY <2>1 DEF MayHaveEvent
  <2>5. \A r \in Request : k.lead # None /\ r # p /\ req[r].pc = "commit" => req[r].lead # k.lead
    BY <2>1 DEF Inserting
  <2>6. \A r \in Request : k.lead # None /\ r # p /\ req[r].pc = "book" => req[r].lead # k.lead
    BY <1>1 DEF IInv, LeadHeldOnce, Requests, RequestOK
  <2>7. EventParts' /\ Requests'
    BY <1>1, <1>2, <2>1, <2>2, <2>4, <2>5, <2>6, NewEventKeeps
  <2> QED BY <2>3, <2>7, BookWrites DEF IInv, EventParts, Tables
<1> QED BY <1>3, <1>4

LEMMA StartCreateEventKeeps ==
    ASSUME IInv, NEW p \in Request, NEW l \in Lead, StartCreateEvent(p, l)
    PROVE  IInv'
<1> DEFINE k == [Idle EXCEPT !.op = "createEvent", !.pc = "insert", !.lead = l]
<1>1. RequestOK(k) /\ k.op \notin Accepting /\ k.pc = "insert"
  BY DEF RequestOK, RequestType, Idle, Handler, Steps, Accepting
<1>2. Requests' /\ req' = [req EXCEPT ![p] = k]
  BY <1>1, GotoKeeps DEF IInv, StartCreateEvent
<1>3. Tables' /\ Fewer
  BY DEF StartCreateEvent, IInv, Tables, Fewer
<1> HIDE DEF k
<1>4. EventParts'
  BY <1>1, <1>2, <1>3, QuietStepKeeps DEF IInv, EventParts
<1> QED BY <1>2, <1>3, <1>4 DEF IInv, EventParts

LEMMA InsertEventKeeps ==
    ASSUME IInv, NEW p \in Request, InsertEvent(p)
    PROVE  IInv'
<1> DEFINE l == req[p].lead
           k == [req[p] EXCEPT !.pc = "commit"]
<1>1. Tables' /\ UNCHANGED events
  BY DEF InsertEvent, IInv, Tables
<1>2. RequestOK(req[p]) /\ req[p].pc = "insert" /\ req[p].op = "createEvent" /\ l \in Lead
  BY DEF InsertEvent, IInv, Requests, RequestOK
<1>3. CASE ~MayHaveEvent(l)
  <2>1. EventParts' /\ Requests'
    BY <1>1, <1>3, EndStepKeeps DEF InsertEvent, IInv, EventParts, Fewer
  <2> QED BY <1>1, <2>1 DEF IInv, EventParts
<1>4. CASE MayHaveEvent(l)
  <2>1. RequestOK(k) /\ k.op = "createEvent" /\ k.lead = l /\ k.pc = "commit"
    BY <1>2 DEF RequestOK, RequestType, Steps, Accepting
  <2>2. Requests' /\ req' = [req EXCEPT ![p] = k]
    BY <1>4, <2>1, GotoKeeps DEF IInv, InsertEvent
  <2>3. \A r \in Request : req'[r] = IF r = p THEN k ELSE req[r]
    BY <2>2 DEF IInv, Requests
  <2>4. \A m : EventsOf(m)' = EventsOf(m)
    BY <1>1 DEF EventsOf
  <2>5. EventsOf(l) = {} /\ \A r \in Request : req[r].pc = "commit" => req[r].lead # l
    BY <1>2, <1>4, BookingAssumption DEF MayHaveEvent, InsertEvent, Inserting
  <2> HIDE DEF k, l
  <2>6. LeadHeldOnce'
    BY <2>1, <2>3 DEF IInv, LeadHeldOnce, Accepting
  <2>7. Committing'
    BY <2>1, <2>3, <2>4, <2>5 DEF IInv, Committing
  <2>8. Unbooked' /\ OneEach'
    BY <2>1, <2>3, <2>4 DEF IInv, Unbooked, OneEach, MayHaveEvent
  <2> QED BY <1>1, <2>2, <2>6, <2>7, <2>8 DEF IInv
<1> QED BY <1>3, <1>4

LEMMA CommitEventKeeps ==
    ASSUME IInv, NEW p \in Request, CommitEvent(p)
    PROVE  IInv'
<1> DEFINE l == req[p].lead
           new == [made |-> TRUE, live |-> TRUE, lead |-> l, value |-> ByHand]
<1>1. req[p].pc = "commit" /\ l \in Lead /\ EventsOf(l) = {} /\ End(p)
  BY DEF CommitEvent, IInv, Requests, RequestOK, Committing
<1>2. PICK e \in Unmade : events' = [events EXCEPT ![e] = new]
  BY DEF CommitEvent
<1>3. e \in Event /\ new \in EventType
  BY <1>1, <1>2 DEF Unmade, EventType
<1>4. Tables'
  BY <1>2, <1>3, EventChanged DEF CommitEvent, IInv, Tables
<1>5. \A r \in Request : r # p /\ req[r].pc = "commit" => req[r].lead # l
  BY <1>1 DEF IInv, Committing
<1>6. \A r \in Request : req[r].pc = "book" => req[r].lead # l
  BY DEF CommitEvent, LeadLocked, IInv, Requests, RequestOK
<1>7. EventParts' /\ Requests'
  BY <1>1, <1>2, <1>3, <1>5, <1>6, NewEventKeeps
<1> QED BY <1>4, <1>7 DEF IInv, EventParts

LEMMA DeleteEventKeeps ==
    ASSUME IInv, NEW p \in Request, NEW e \in Event, StartDeleteEvent(p, e)
    PROVE  IInv'
<1> DEFINE k == [Idle EXCEPT !.op = "deleteEvent", !.pc = "unlink", !.event = e]
<1>1. RequestOK(k) /\ k.op \notin Accepting /\ k.pc = "unlink"
  BY DEF RequestOK, RequestType, Idle, Handler, Steps, Accepting
<1>2. Requests' /\ req' = [req EXCEPT ![p] = k]
  BY <1>1, GotoKeeps DEF IInv, StartDeleteEvent
<1>3. events' = [events EXCEPT ![e].live = FALSE] /\ events[e] \in EventType
  BY DEF StartDeleteEvent, IInv, Tables
<1>4. [events[e] EXCEPT !.live = FALSE] \in EventType
  BY <1>3 DEF EventType
<1>5. Tables' /\ Fewer
  BY <1>3, <1>4, EventChanged DEF StartDeleteEvent, IInv, Tables, Fewer, EventType
<1> HIDE DEF k
<1>6. EventParts'
  BY <1>1, <1>2, <1>5, QuietStepKeeps DEF IInv, EventParts
<1> QED BY <1>2, <1>5, <1>6 DEF IInv, EventParts

LEMMA UnlinkKeeps ==
    ASSUME IInv, NEW p \in Request, UnlinkQuotes(p)
    PROVE  IInv'
<1>1. Tables'
  <2>1. \A q \in Quote : [quotes[q] EXCEPT !.event = None] \in QuoteType
    BY DEF IInv, Tables, QuoteType
  <2> QED BY <2>1 DEF UnlinkQuotes, IInv, Tables
<1>2. EventParts' /\ Requests'
  BY EndStepKeeps DEF UnlinkQuotes, IInv, EventParts, Fewer
<1> QED BY <1>1, <1>2 DEF IInv, EventParts

(* An event or a lead edited by hand. *)
LEMMA EditKeeps ==
    ASSUME IInv,
           (\E e \in Event : UpdateEvent(e)) \/ (\E l \in Lead : MoveLead(l) \/ DeleteLead(l))
    PROVE  IInv'
<1>1. UNCHANGED req
  BY DEF UpdateEvent, MoveLead, DeleteLead
<1>2. Tables' /\ Fewer
  <2>1. ASSUME NEW e \in Event, UpdateEvent(e)
        PROVE  Tables' /\ Fewer
    <3>1. events' = [events EXCEPT ![e].value = ByHand] /\ events[e] \in EventType
      BY <2>1 DEF UpdateEvent, IInv, Tables
    <3>2. [events[e] EXCEPT !.value = ByHand] \in EventType
      BY <3>1 DEF EventType
    <3> QED BY <2>1, <3>1, <3>2, EventChanged DEF UpdateEvent, IInv, Tables, Fewer, EventType
  <2>2. ASSUME NEW l \in Lead, MoveLead(l) \/ DeleteLead(l)
        PROVE  Tables' /\ Fewer
    <3>1. leads \in [Lead -> LeadType]
      BY DEF IInv, Tables
    <3>2. leads' \in [Lead -> LeadType]
      <4>1. CASE MoveLead(l)
        <5>1. PICK won \in BOOLEAN : leads' = [leads EXCEPT ![l].won = won]
          BY <4>1 DEF MoveLead
        <5>2. [leads[l] EXCEPT !.won = won] \in LeadType
          BY <3>1 DEF LeadType
        <5> QED BY <3>1, <5>1, <5>2
      <4>2. CASE DeleteLead(l)
        <5>1. [leads[l] EXCEPT !.deleted = TRUE] \in LeadType
          BY <3>1 DEF LeadType
        <5> QED BY <3>1, <4>2, <5>1 DEF DeleteLead
      <4> QED BY <2>2, <4>1, <4>2
    <3> QED BY <2>2, <3>2 DEF MoveLead, DeleteLead, IInv, Tables, Fewer
  <2> QED BY <2>1, <2>2
<1>3. EventParts'
  BY <1>1, <1>2, FewerKeeps DEF IInv, EventParts
<1> QED BY <1>1, <1>2, <1>3 DEF IInv, EventParts, Requests

(* A transaction that is rolled back, a request that dies. *)
LEMMA CutShortKeeps ==
    ASSUME IInv, NEW p \in Request, Fails(p) \/ BreakDeadlock(p)
    PROVE  IInv'
<1>1. End(p) /\ UNCHANGED <<quotes, leads, events, told>>
  BY DEF Fails, BreakDeadlock, End, Ended
<1>2. EventParts' /\ Requests'
  BY <1>1, EndStepKeeps DEF IInv, EventParts, Fewer
<1> QED BY <1>1, <1>2 DEF IInv, EventParts, Tables

-----------------------------------------------------------------------------
(* Events of a lead                                                          *)

LEMMA IInvHolds == Spec => []IInv
<1>1. Init => IInv
  <2> SUFFICES ASSUME Init PROVE IInv
    OBVIOUS
  <2>1. Tables
    BY DEF Init, Tables, QuoteType, LeadType, EventType, NoQuote, NoEvent, Statuses, ByHand
  <2>2. Requests
    BY IdleOK DEF Init, Requests, RequestOK
  <2>3. \A p \in Request : req[p].pc = "idle" /\ req[p].op \notin Accepting
    BY DEF Init, Idle, Accepting
  <2>4. \A l : EventsOf(l) = {}
    BY DEF Init, EventsOf, NoEvent
  <2> QED BY <2>1, <2>2, <2>3, <2>4 DEF IInv, LeadHeldOnce, Committing, Unbooked, OneEach
<1>2. IInv /\ [Next]_vars => IInv'
  <2> SUFFICES ASSUME IInv, [Next]_vars PROVE IInv'
    OBVIOUS
  <2>1. ASSUME NEW p \in Request, Starts(p)
        PROVE  IInv'
    BY <2>1, StartWriteKeeps, StartAcceptKeeps, StartCreateEventKeeps, DeleteEventKeeps DEF Starts
  <2>2. ASSUME NEW p \in Request, Works(p) \/ Fails(p)
        PROVE  IInv'
    BY <2>2, WriteKeeps, LockLeadKeeps, FindEventKeeps, BookKeeps, InsertEventKeeps, CommitEventKeeps,
       CutShortKeeps, UnlinkKeeps DEF Works
  <2>3. ASSUME NEW q \in Quote, CreateQuote(q) \/ UpdateQuote(q) \/ Lapse(q) \/ Decline(q)
        PROVE  IInv'
    <3>1. Tables' /\ UNCHANGED <<leads, events, req, told>>
      BY <2>3, QuoteStepTypes DEF IInv
    <3>2. EventParts'
      BY <3>1, FewerKeeps DEF IInv, EventParts, Fewer
    <3> QED BY <3>1, <3>2 DEF IInv, EventParts, Requests
  <2>4. CASE UNCHANGED vars
    <3>1. EventParts'
      BY <2>4, FewerKeeps DEF vars, IInv, EventParts, Fewer
    <3> QED BY <2>4, <3>1 DEF vars, IInv, EventParts, Tables, Requests
  <2> QED BY <2>1, <2>2, <2>3, <2>4, EditKeeps DEF Next
<1> QED BY <1>1, <1>2, PTL DEF Spec

(* Every table and every request stays of its type. *)
THEOREM BookingTypes == Spec => []TypeOK
<1>1. IInv => TypeOK
  BY DEF IInv, Tables, Requests, RequestOK, TypeOK
<1> QED BY <1>1, IInvHolds, PTL

(* However many quotes of a lead are accepted and events made for it by hand *)
(* at the same time, and whatever of it fails, the lead has one event.       *)
THEOREM LeadHasOneEvent == Spec => []OneEventPerLead
<1>1. IInv => OneEventPerLead
  <2> SUFFICES ASSUME IInv, NEW l \in Lead PROVE Cardinality(EventsOf(l)) <= 1
    BY DEF OneEventPerLead
  <2>1. CASE EventsOf(l) = {}
    BY <2>1, FS_EmptySet
  <2>2. CASE EventsOf(l) # {}
    <3>1. PICK e : EventsOf(l) = {e}
      BY <2>2 DEF IInv, OneEach
    <3>2. Cardinality({e}) = 1
      BY FS_Singleton
    <3> QED BY <3>1, <3>2
  <2> QED BY <2>1, <2>2
<1> QED BY <1>1, IInvHolds, PTL

(* An acceptance that found no event for its lead still finds none when it   *)
(* makes one: the lead it holds keeps events made by hand from committing.   *)
THEOREM AcceptanceNotRefused == Spec => []NoEventComesBetween
<1>1. IInv => NoEventComesBetween
  BY DEF IInv, Unbooked, NoEventComesBetween
<1> QED BY <1>1, IInvHolds, PTL

-----------------------------------------------------------------------------
(* Answers                                                                   *)

Writers == {"markSent", "deleteQuote"}

(* What one step leaves of the answers that were given. *)
Kept ==
    \A q \in Quote : Closed(q) =>
        /\ quotes'[q].status = quotes[q].status
        /\ quotes'[q].total = quotes[q].total
        /\ quotes[q].status = "accepted" => quotes'[q].deleted = quotes[q].deleted

(* No quote changes but in the event it points to. *)
SameAnswers ==
    /\ \A q \in Quote : /\ quotes'[q].status = quotes[q].status
                        /\ quotes'[q].total = quotes[q].total
                        /\ quotes'[q].deleted = quotes[q].deleted
    /\ told' = told

LEMMA AloneKeeps ==
    ASSUME Requests, RunsAlone, NEW p \in Request, NEW k, req' = [req EXCEPT ![p] = k],
           \/ k = Idle
           \/ k.op = req[p].op /\ req[p] # Idle
           \/ MayStart(p, k.op)
    PROVE  RunsAlone'
<1>1. \A r \in Request : req'[r] = IF r = p THEN k ELSE req[r]
  BY DEF Requests
<1>2. Idle.op \notin Alone
  BY BookingAssumption DEF Idle, Handler
<1>3. CASE k = Idle
  BY <1>1, <1>2, <1>3 DEF RunsAlone
<1>4. CASE k.op = req[p].op /\ req[p] # Idle
  BY <1>1, <1>4 DEF RunsAlone
<1>5. CASE MayStart(p, k.op)
  BY <1>1, <1>5 DEF RunsAlone, MayStart, Undisturbed
<1> QED BY <1>3, <1>4, <1>5

(* While a request is at a step, only it may be marking or deleting a quote. *)
LEMMA NoWriter ==
    ASSUME Writers \subseteq Alone, RunsAlone, NEW p \in Request, req[p] # Idle, req[p].op \notin Writers
    PROVE  \A r \in Request : req[r].op \notin Writers
BY DEF RunsAlone

(* A step of a request that answers nothing. *)
LEMMA QuietAnswers ==
    ASSUME Requests, AInv, NEW p \in Request, NEW k, req' = [req EXCEPT ![p] = k], SameAnswers,
           \/ k = Idle
           \/ k.op = req[p].op /\ k.quote = req[p].quote /\ req[p] # Idle
           \/ k.op \notin Accepting \cup Writers /\ MayStart(p, k.op)
    PROVE  AInv' /\ Kept
<1>1. \A r \in Request : req'[r] = IF r = p THEN k ELSE req[r]
  BY DEF Requests
<1>2. RunsAlone'
  BY AloneKeeps DEF AInv
<1>3. Idle.op \notin Accepting /\ Idle.op \notin Writers
  BY DEF Idle, Accepting, Writers
<1>4. \A r \in Request : req'[r].op \in Accepting \cup Writers =>
          req'[r].op = req[r].op /\ req'[r].quote = req[r].quote
  BY <1>1, <1>3
<1>5. \A r \in Request : req[r].op \in Accepting \cup Writers => req[r].quote \in Quote
  BY DEF Requests, RequestOK, Writers
<1>6. Answering'
  BY <1>4, <1>5 DEF AInv, Answering, Closed, SameAnswers
<1>7. Rewriting'
  BY <1>4, <1>5 DEF AInv, Rewriting, Closed, SameAnswers, Writers
<1>8. Telling' /\ Kept
  BY DEF AInv, Telling, SameAnswers, Kept
<1> QED BY <1>2, <1>6, <1>7, <1>8 DEF AInv

(* Nothing happens to the requests. *)
LEMMA UnansweredKeeps ==
    ASSUME Requests, AInv, UNCHANGED req, SameAnswers
    PROVE  AInv' /\ Kept
<1>1. RunsAlone'
  BY DEF AInv, RunsAlone
<1>2. \A r \in Request : req[r].op \in Accepting \cup Writers => req[r].quote \in Quote
  BY DEF Requests, RequestOK, Writers
<1>3. Answering' /\ Rewriting'
  BY <1>2 DEF AInv, Answering, Rewriting, Closed, SameAnswers, Writers
<1>4. Telling' /\ Kept
  BY DEF AInv, Telling, SameAnswers, Kept
<1> QED BY <1>1, <1>3, <1>4 DEF AInv

LEMMA QuoteStepAnswers ==
    ASSUME Writers \subseteq Alone, Tables, Requests, AInv, NEW q \in Quote,
           CreateQuote(q) \/ UpdateQuote(q) \/ Lapse(q) \/ Decline(q)
    PROVE  AInv' /\ Kept
<1>1. UNCHANGED <<req, told>> /\ ~Closed(q)
  BY DEF CreateQuote, UpdateQuote, Lapse, Decline, Closed
<1>2. \A x \in Quote : x # q => quotes'[x] = quotes[x]
  BY DEF Tables, CreateQuote, UpdateQuote, Lapse, Decline
<1>3. \A r \in Request : req[r].op \notin Writers
  BY DEF Undisturbed, CreateQuote, UpdateQuote, Lapse, Decline
<1>4. QuoteLocked(q) => ~Closed(q)'
  <2>1. quotes \in [Quote -> QuoteType] /\ quotes[q] \in QuoteType
    BY DEF Tables
  <2>2. CASE CreateQuote(q)
    <3>1. PICK t \in Total : quotes' = [quotes EXCEPT ![q].status = "draft", ![q].total = t]
      BY <2>2 DEF CreateQuote
    <3> QED BY <2>1, <3>1 DEF QuoteType, Closed
  <2>3. CASE UpdateQuote(q)
    <3>1. PICK t \in Total, lapsed \in {FALSE, quotes[q].lapsed} :
              quotes' = [quotes EXCEPT ![q].total = t, ![q].lapsed = lapsed]
      BY <2>3 DEF UpdateQuote
    <3> QED BY <1>1, <2>1, <3>1 DEF QuoteType, Closed
  <2>4. CASE Lapse(q)
    BY <1>1, <2>1, <2>4 DEF Lapse, QuoteType, Closed
  <2>5. CASE Decline(q)
    BY <2>5 DEF Decline
  <2> QED BY <2>2, <2>3, <2>4, <2>5
<1>5. RunsAlone'
  BY <1>1 DEF AInv, RunsAlone
<1>6. Answering'
  <2>1. ASSUME NEW p \in Request, req[p].op \in Accepting
        PROVE  ~Closed(req[p].quote)'
    <3>1. CASE req[p].quote = q
      BY <1>1, <1>4, <2>1, <3>1 DEF QuoteLocked
    <3>2. CASE req[p].quote # q
      <4>1. req[p].quote \in Quote /\ ~Closed(req[p].quote)
        BY <2>1 DEF AInv, Answering, Requests, RequestOK
      <4> QED BY <1>1, <1>2, <3>2, <4>1 DEF Closed
    <3> QED BY <3>1, <3>2
  <2> QED BY <1>1, <2>1 DEF AInv, Answering
<1>7. Rewriting'
  BY <1>1, <1>3 DEF Rewriting, Writers
<1>8. Telling' /\ Kept
  BY <1>1, <1>2 DEF AInv, Telling, Kept, Closed
<1> QED BY <1>5, <1>6, <1>7, <1>8 DEF AInv

LEMMA WriteAnswers ==
    ASSUME Writers \subseteq Alone, Tables, Requests, AInv, NEW p \in Request,
           MarkSent(p) \/ DeleteQuote(p)
    PROVE  AInv' /\ Kept
<1> DEFINE q == req[p].quote
<1>1. req[p].op \in Writers /\ q \in Quote /\ End(p) /\ told' = told
  BY DEF MarkSent, DeleteQuote, Requests, RequestOK, Writers
<1>2. \A x \in Quote : x # q => quotes'[x] = quotes[x]
  BY DEF Tables, MarkSent, DeleteQuote
<1>3. \/ ~Closed(q) /\ quotes'[q].status = "sent"
      \/ quotes[q].status # "accepted" /\ quotes'[q].status = quotes[q].status /\ quotes'[q].total = quotes[q].total
  <2>1. quotes \in [Quote -> QuoteType] /\ quotes[q] \in QuoteType
    BY <1>1 DEF Tables
  <2>2. CASE MarkSent(p)
    BY <1>1, <2>1, <2>2 DEF MarkSent, AInv, Rewriting, QuoteType
  <2>3. CASE DeleteQuote(p)
    BY <1>1, <2>1, <2>3 DEF DeleteQuote, AInv, Rewriting, QuoteType
  <2> QED BY <2>2, <2>3
<1>4. req' = [req EXCEPT ![p] = Idle]
  BY <1>1, EndKeeps
<1>5. \A r \in Request : req'[r] = Idle
  BY <1>1, <1>4 DEF AInv, RunsAlone, Requests
<1>6. RunsAlone' /\ Answering' /\ Rewriting'
  BY <1>5 DEF RunsAlone, Answering, Rewriting, Idle, Accepting
<1>7. Telling' /\ Kept
  BY <1>1, <1>2, <1>3 DEF AInv, Telling, Kept, Closed
<1> QED BY <1>6, <1>7 DEF AInv

LEMMA StartWriteAnswers ==
    ASSUME Writers \subseteq Alone, Tables, Requests, AInv, NEW p \in Request, NEW q \in Quote,
           StartMarkSent(p, q) \/ StartDeleteQuote(p, q)
    PROVE  AInv' /\ Kept
<1> DEFINE k(op) == [Idle EXCEPT !.op = op, !.pc = "write", !.quote = q]
<1>1. UNCHANGED <<quotes, told>>
  BY DEF StartMarkSent, StartDeleteQuote
<1>2. PICK op \in Writers :
         /\ MayStart(p, op) /\ Goto(p, k(op))
         /\ op = "markSent" => ~Closed(q)
         /\ op = "deleteQuote" => quotes[q].status # "accepted"
  BY DEF StartMarkSent, StartDeleteQuote, Writers, Sendable, Closed
<1>3. k(op).op = op /\ k(op).quote = q /\ req' = [req EXCEPT ![p] = k(op)]
  BY <1>2 DEF Idle, Goto
<1> HIDE DEF k
<1>4. \A r \in Request : req'[r] = IF r = p THEN k(op) ELSE Idle
  BY <1>2, <1>3 DEF MayStart, Requests
<1>5. RunsAlone'
  BY <1>2, <1>3, AloneKeeps DEF AInv
<1>6. Answering'
  BY <1>2, <1>3, <1>4 DEF Answering, Writers, Accepting, Idle
<1>7. Rewriting'
  BY <1>1, <1>2, <1>3, <1>4 DEF Rewriting, Writers, Idle, Closed
<1>8. Telling' /\ Kept
  BY <1>1 DEF AInv, Telling, Kept
<1> QED BY <1>5, <1>6, <1>7, <1>8 DEF AInv

LEMMA StartAcceptAnswers ==
    ASSUME Writers \subseteq Alone, Requests, AInv, NEW p \in Request, NEW q \in Quote,
           NEW op \in Accepting, StartAccept(p, q, op)
    PROVE  AInv' /\ Kept
<1> DEFINE k == [Idle EXCEPT !.op = op, !.pc = IF LeadOf[q] = None THEN "book" ELSE "lead", !.quote = q]
<1>1. UNCHANGED <<quotes, told>> /\ MayStart(p, op) /\ ~QuoteLocked(q) /\ ~Closed(q)
  BY DEF StartAccept
<1>2. k.op = op /\ k.quote = q /\ req' = [req EXCEPT ![p] = k]
  BY DEF StartAccept, Idle, Goto
<1> HIDE DEF k
<1>3. \A r \in Request : req'[r] = IF r = p THEN k ELSE req[r]
  BY <1>2 DEF Requests
<1>4. RunsAlone'
  BY <1>1, <1>2, AloneKeeps DEF AInv
<1>5. Answering'
  BY <1>1, <1>2, <1>3 DEF AInv, Answering, QuoteLocked, Closed
<1>6. Rewriting'
  <2>1. \A r \in Request : req[r].op \notin Writers
    BY <1>1 DEF MayStart, Undisturbed
  <2> QED BY <1>2, <1>3, <2>1 DEF Rewriting, Writers, Accepting
<1>7. Telling' /\ Kept
  BY <1>1 DEF AInv, Telling, Kept
<1> QED BY <1>4, <1>5, <1>6, <1>7 DEF AInv

LEMMA BookAnswers ==
    ASSUME Writers \subseteq Alone, Tables, Requests, AInv, NEW p \in Request, Book(p)
    PROVE  AInv' /\ Kept
<1> DEFINE q == req[p].quote
<1>1. req[p].op \in Accepting /\ q \in Quote /\ ~Closed(q) /\ End(p)
  BY DEF Book, Requests, RequestOK, AInv, Answering
<1>2. PICK e : quotes' = [quotes EXCEPT ![q].status = "accepted", ![q].event = e]
  BY DEF Book
<1>3. \A x \in Quote : IF x = q THEN quotes'[x].status = "accepted" ELSE quotes'[x] = quotes[x]
  BY <1>1, <1>2 DEF Tables, QuoteType
<1>4. /\ told'[q] \in {told[q], told[q] + 1}
      /\ \A x \in Quote : x # q => told'[x] = told[x]
  BY <1>1 DEF Book, Tables
<1>5. told[q] = 0
  BY <1>1 DEF AInv, Telling, Closed
<1>6. req' = [req EXCEPT ![p] = Idle]
  BY <1>1, EndKeeps
<1>7. \A r \in Request : req'[r] = IF r = p THEN Idle ELSE req[r]
  BY <1>6 DEF Requests
<1>8. RunsAlone'
  BY <1>6, AloneKeeps DEF AInv
<1>9. Answering'
  <2>1. ASSUME NEW r \in Request, req'[r].op \in Accepting
        PROVE  r # p /\ req[r].op \in Accepting /\ req[r].quote \in Quote /\ req[r].quote # q
    BY <1>1, <1>7, <2>1 DEF Idle, Accepting, AInv, Answering, Requests, RequestOK
  <2> QED BY <1>3, <1>7, <2>1 DEF AInv, Answering, Closed
<1>10. Rewriting'
  <2>1. req[p] # Idle /\ req[p].op \notin Writers
    BY <1>1 DEF Idle, Accepting, Writers
  <2>2. \A r \in Request : req[r].op \notin Writers
    BY <2>1, NoWriter DEF AInv
  <2> QED BY <1>7, <2>2 DEF Rewriting, Writers, Idle
<1>11. Telling'
  BY <1>1, <1>3, <1>4, <1>5 DEF AInv, Telling
<1>12. Kept
  BY <1>1, <1>3 DEF Kept, Closed
<1> QED BY <1>8, <1>9, <1>10, <1>11, <1>12 DEF AInv

(* The other steps of a request that has begun, and those that end it early. *)
LEMMA OtherStepsAnswers ==
    ASSUME Writers \subseteq Alone, Tables, Requests, AInv, NEW p \in Request,
           \/ LockLead(p) \/ FindEvent(p) \/ InsertEvent(p) \/ CommitEvent(p) \/ UnlinkQuotes(p)
           \/ BreakDeadlock(p) \/ Fails(p)
    PROVE  AInv' /\ Kept
<1>1. SameAnswers
  <2>1. CASE UnlinkQuotes(p)
    <3>1. \A q \in Quote : quotes[q] \in QuoteType
      BY DEF Tables
    <3> QED BY <2>1, <3>1 DEF UnlinkQuotes, SameAnswers, QuoteType
  <2>2. CASE ~UnlinkQuotes(p)
    BY <2>2 DEF SameAnswers, LockLead, FindEvent, InsertEvent, CommitEvent, BreakDeadlock, Fails
  <2> QED BY <2>1, <2>2
<1>2. PICK k : /\ req' = [req EXCEPT ![p] = k]
               /\ k = Idle \/ (k.op = req[p].op /\ k.quote = req[p].quote /\ req[p] # Idle)
  <2>1. req[p] \in RequestType
    BY DEF Requests
  <2>2. CASE LockLead(p)
    <3> DEFINE k == [req[p] EXCEPT !.pc = "find", !.lead = LeadOf[req[p].quote]]
    <3>1. k.op = req[p].op /\ k.quote = req[p].quote /\ req[p] # Idle
      BY <2>1, <2>2 DEF LockLead, RequestType, Idle
    <3>2. req' = [req EXCEPT ![p] = k]
      BY <2>2 DEF LockLead, Goto
    <3> HIDE DEF k
    <3> QED BY <3>1, <3>2
  <2>3. CASE FindEvent(p)
    <3>1. PICK e : Goto(p, [req[p] EXCEPT !.pc = "book", !.event = e])
      BY <2>3 DEF FindEvent
    <3> DEFINE k == [req[p] EXCEPT !.pc = "book", !.event = e]
    <3>2. req[p].pc = "find"
      BY <2>3 DEF FindEvent
    <3>3. k.op = req[p].op /\ k.quote = req[p].quote /\ req[p] # Idle
      BY <2>1, <3>2 DEF RequestType, Idle
    <3>4. req' = [req EXCEPT ![p] = k]
      BY <3>1 DEF Goto
    <3> HIDE DEF k
    <3> QED BY <3>3, <3>4
  <2>4. CASE InsertEvent(p)
    BY <2>1, <2>4 DEF InsertEvent, Goto, End, Ended, RequestType, Idle
  <2>5. CASE CommitEvent(p) \/ UnlinkQuotes(p) \/ BreakDeadlock(p) \/ Fails(p)
    BY <2>5 DEF CommitEvent, UnlinkQuotes, BreakDeadlock, Fails, Goto, End, Ended
  <2> QED BY <2>2, <2>3, <2>4, <2>5
<1> QED BY <1>1, <1>2, QuietAnswers

LEMMA StartEventAnswers ==
    ASSUME Requests, AInv, NEW p \in Request,
           (\E l \in Lead : StartCreateEvent(p, l)) \/ (\E e \in Event : StartDeleteEvent(p, e))
    PROVE  AInv' /\ Kept
<1>1. PICK k : /\ req' = [req EXCEPT ![p] = k]
               /\ k.op \notin Accepting \cup Writers /\ MayStart(p, k.op)
  <2>1. CASE \E l \in Lead : StartCreateEvent(p, l)
    <3>1. PICK l \in Lead : StartCreateEvent(p, l)
      BY <2>1
    <3> DEFINE k == [Idle EXCEPT !.op = "createEvent", !.pc = "insert", !.lead = l]
    <3>2. k.op = "createEvent"
      BY DEF Idle
    <3> QED BY <3>1, <3>2 DEF StartCreateEvent, Goto, Accepting, Writers
  <2>2. CASE \E e \in Event : StartDeleteEvent(p, e)
    <3>1. PICK e \in Event : StartDeleteEvent(p, e)
      BY <2>2
    <3> DEFINE k == [Idle EXCEPT !.op = "deleteEvent", !.pc = "unlink", !.event = e]
    <3>2. k.op = "deleteEvent"
      BY DEF Idle
    <3> QED BY <3>1, <3>2 DEF StartDeleteEvent, Goto, Accepting, Writers
  <2> QED BY <2>1, <2>2
<1>2. SameAnswers
  BY DEF StartCreateEvent, StartDeleteEvent, SameAnswers
<1> QED BY <1>1, <1>2, QuietAnswers

LEMMA AnswersInit ==
    ASSUME Init
    PROVE  AInv
<1>1. \A p \in Request : req[p] = Idle
  BY DEF Init
<1>2. RunsAlone /\ Answering /\ Rewriting
  BY <1>1 DEF RunsAlone, Answering, Rewriting, Idle, Accepting
<1>3. Telling
  BY DEF Init, Telling
<1> QED BY <1>2, <1>3 DEF AInv

LEMMA AnswersStep ==
    ASSUME Writers \subseteq Alone, IInv, AInv, [Next]_vars
    PROVE  AInv' /\ Kept
<1> USE DEF IInv
<1>1. ASSUME NEW p \in Request, Starts(p)
      PROVE  AInv' /\ Kept
  BY <1>1, StartWriteAnswers, StartAcceptAnswers, StartEventAnswers DEF Starts
<1>2. ASSUME NEW p \in Request, Works(p) \/ Fails(p)
      PROVE  AInv' /\ Kept
  BY <1>2, WriteAnswers, BookAnswers, OtherStepsAnswers DEF Works
<1>3. ASSUME NEW q \in Quote, CreateQuote(q) \/ UpdateQuote(q) \/ Lapse(q) \/ Decline(q)
      PROVE  AInv' /\ Kept
  BY <1>3, QuoteStepAnswers
<1>4. CASE \/ \E e \in Event : UpdateEvent(e)
           \/ \E l \in Lead : MoveLead(l) \/ DeleteLead(l)
           \/ UNCHANGED vars
  <2>1. UNCHANGED req /\ SameAnswers
    BY <1>4 DEF UpdateEvent, MoveLead, DeleteLead, vars, SameAnswers
  <2> QED BY <2>1, UnansweredKeeps
<1> QED BY <1>1, <1>2, <1>3, <1>4 DEF Next

LEMMA AnswersHold ==
    ASSUME Writers \subseteq Alone
    PROVE  Spec => [](IInv /\ AInv)
<1>1. Init => AInv
  BY AnswersInit
<1>2. IInv /\ AInv /\ [Next]_vars => AInv'
  BY AnswersStep
<1> QED BY <1>1, <1>2, IInvHolds, PTL DEF Spec

(* As long as nothing runs beside marking as sent and deleting a quote, an   *)
(* answer is for good, however the acceptances of any number of requests     *)
(* interleave with changes, refusals, events made or deleted, and failures.  *)
THEOREM AnswersStay ==
    ASSUME {"markSent", "deleteQuote"} \subseteq Alone
    PROVE  Spec => AnsweredForGood
<1>1. Writers \subseteq Alone
  BY DEF Writers
<1>2. IInv /\ AInv /\ [Next]_vars => [\A q \in Quote : Closed(q) =>
          /\ quotes'[q].status = quotes[q].status
          /\ quotes'[q].total = quotes[q].total
          /\ quotes[q].status = "accepted" => quotes'[q].deleted = quotes[q].deleted]_vars
  BY <1>1, AnswersStep DEF Kept
<1>3. Spec => [](IInv /\ AInv)
  BY <1>1, AnswersHold
<1> QED BY <1>2, <1>3, PTL DEF Spec, AnsweredForGood

(* Under the same condition the team is told of an acceptance once, however  *)
(* many requests accept the quote online at the same time.                   *)
THEOREM TeamToldOnce ==
    ASSUME {"markSent", "deleteQuote"} \subseteq Alone
    PROVE  Spec => []ToldOnce
<1>1. Writers \subseteq Alone
  BY DEF Writers
<1>2. IInv /\ AInv => ToldOnce
  BY DEF AInv, Telling, ToldOnce
<1>3. Spec => [](IInv /\ AInv)
  BY <1>1, AnswersHold
<1> QED BY <1>2, <1>3, PTL

-----------------------------------------------------------------------------
(* What an acceptance books                                                  *)

(* An acceptance holds its quote's lead, and the event it found is a live    *)
(* one of that lead. *)
Found ==
    \A p \in Request : req[p].pc \in {"find", "book"} =>
        /\ req[p].lead = LeadOf[req[p].quote]
        /\ req[p].pc = "book" /\ req[p].event # None =>
             events[req[p].event].live /\ events[req[p].event].lead = req[p].lead

LiveIsMade == \A e \in Event : events[e].live => events[e].made

BInv == RunsAlone /\ Found /\ LiveIsMade

(* What one step books of the quotes it accepts. *)
Booked ==
    \A q \in Quote : quotes[q].status # "accepted" /\ quotes'[q].status = "accepted" =>
        /\ LeadOf[q] # None => leads'[LeadOf[q]].won
        /\ quotes'[q].event # None
        /\ LET e == events'[quotes'[q].event] IN
           e.live /\ e.lead = LeadOf[q] /\ e.value = quotes'[q].total

(* An event stays what it was found to be, but for its value. *)
FoundStays ==
    \A e \in Event : events[e].made =>
        /\ events'[e].made
        /\ events'[e].live = events[e].live /\ events'[e].lead = events[e].lead

(* A step of one request that changes no event but new ones. *)
LEMMA FoundKeeps ==
    ASSUME IInv, BInv, FoundStays, LiveIsMade', NEW p \in Request, NEW k \in RequestType,
           req' = [req EXCEPT ![p] = k],
           \/ k = Idle
           \/ k.op = req[p].op /\ req[p] # Idle
           \/ MayStart(p, k.op),
           k.pc \in {"find", "book"} =>
               /\ k.lead = LeadOf[k.quote]
               /\ k.pc = "book" /\ k.event # None =>
                    events[k.event].live /\ events[k.event].lead = k.lead
    PROVE  BInv'
<1>1. RunsAlone'
  BY AloneKeeps DEF IInv, BInv
<1>2. \A r \in Request : req'[r] = IF r = p THEN k ELSE req[r]
  BY DEF IInv, Requests
<1>3. \A r \in Request : req'[r].pc \in {"find", "book"} =>
        /\ req'[r].lead = LeadOf[req'[r].quote]
        /\ req'[r].pc = "book" /\ req'[r].event # None =>
             events[req'[r].event].live /\ events[req'[r].event].lead = req'[r].lead
  BY <1>2 DEF BInv, Found
<1>4. \A r \in Request : req'[r].event # None => req'[r].event \in Event
  BY <1>2 DEF IInv, Requests, RequestType
<1>5. Found'
  BY <1>3, <1>4 DEF Found, FoundStays, BInv, LiveIsMade
<1> QED BY <1>1, <1>5 DEF BInv

(* No quote becomes accepted. *)
LEMMA NothingBooked ==
    ASSUME \A q \in Quote : quotes'[q].status = quotes[q].status \/ quotes'[q].status # "accepted"
    PROVE  Booked
BY DEF Booked

LEMMA SameEvents ==
    ASSUME BInv, UNCHANGED events
    PROVE  FoundStays /\ LiveIsMade'
BY DEF BInv, FoundStays, LiveIsMade

LEMMA StartsBook ==
    ASSUME "deleteEvent" \in Alone, IInv, BInv, NEW p \in Request, Starts(p)
    PROVE  BInv' /\ Booked
<1>1. Booked
  BY NothingBooked DEF Starts, StartMarkSent, StartDeleteQuote, StartAccept, StartCreateEvent,
                       StartDeleteEvent
<1>2. ASSUME NEW q \in Quote, StartMarkSent(p, q)
      PROVE  BInv'
  <2> DEFINE k == [Idle EXCEPT !.op = "markSent", !.pc = "write", !.quote = q]
  <2>1. k \in RequestType /\ k.op = "markSent" /\ k.pc = "write"
    BY DEF RequestType, Idle, Handler, Steps
  <2>2. req' = [req EXCEPT ![p] = k] /\ MayStart(p, "markSent") /\ UNCHANGED events
    BY <1>2 DEF StartMarkSent, Goto
  <2> HIDE DEF k
  <2> QED BY <2>1, <2>2, SameEvents, FoundKeeps
<1>3. ASSUME NEW q \in Quote, StartDeleteQuote(p, q)
      PROVE  BInv'
  <2> DEFINE k == [Idle EXCEPT !.op = "deleteQuote", !.pc = "write", !.quote = q]
  <2>1. k \in RequestType /\ k.op = "deleteQuote" /\ k.pc = "write"
    BY DEF RequestType, Idle, Handler, Steps
  <2>2. req' = [req EXCEPT ![p] = k] /\ MayStart(p, "deleteQuote") /\ UNCHANGED events
    BY <1>3 DEF StartDeleteQuote, Goto
  <2> HIDE DEF k
  <2> QED BY <2>1, <2>2, SameEvents, FoundKeeps
<1>4. ASSUME NEW q \in Quote, NEW op \in Accepting, StartAccept(p, q, op)
      PROVE  BInv'
  <2> DEFINE pc == IF LeadOf[q] = None THEN "book" ELSE "lead"
             k == [Idle EXCEPT !.op = op, !.pc = pc, !.quote = q]
  <2>1. /\ k \in RequestType /\ k.op = op /\ k.pc = pc /\ k.quote = q /\ k.lead = None
        /\ k.event = None
    BY DEF RequestType, Idle, Handler, Steps, Accepting
  <2>2. req' = [req EXCEPT ![p] = k] /\ MayStart(p, op) /\ UNCHANGED events
    BY <1>4 DEF StartAccept, Goto
  <2>3. k.pc \in {"find", "book"} => LeadOf[q] = None
    BY <2>1
  <2> HIDE DEF k, pc
  <2> QED BY <2>1, <2>2, <2>3, SameEvents, FoundKeeps
<1>5. ASSUME NEW l \in Lead, StartCreateEvent(p, l)
      PROVE  BInv'
  <2> DEFINE k == [Idle EXCEPT !.op = "createEvent", !.pc = "insert", !.lead = l]
  <2>1. k \in RequestType /\ k.op = "createEvent" /\ k.pc = "insert"
    BY DEF RequestType, Idle, Handler, Steps
  <2>2. req' = [req EXCEPT ![p] = k] /\ MayStart(p, "createEvent") /\ UNCHANGED events
    BY <1>5 DEF StartCreateEvent, Goto
  <2> HIDE DEF k
  <2> QED BY <2>1, <2>2, SameEvents, FoundKeeps
<1>6. ASSUME NEW e \in Event, StartDeleteEvent(p, e)
      PROVE  BInv'
  <2> DEFINE k == [Idle EXCEPT !.op = "deleteEvent", !.pc = "unlink", !.event = e]
  <2>1. k \in RequestType /\ k.op = "deleteEvent" /\ k.pc = "unlink"
    BY DEF RequestType, Idle, Handler, Steps
  <2>2. /\ req' = [req EXCEPT ![p] = k] /\ MayStart(p, "deleteEvent")
        /\ events' = [events EXCEPT ![e].live = FALSE]
    BY <1>6 DEF StartDeleteEvent, Goto
  <2> HIDE DEF k
  <2>3. \A r \in Request : r # p => req[r] = Idle
    BY <2>2 DEF MayStart
  <2>4. \A r \in Request : req'[r] = IF r = p THEN k ELSE Idle
    BY <2>2, <2>3 DEF IInv, Requests
  <2>5. RunsAlone'
    BY <2>1, <2>2, AloneKeeps DEF IInv, BInv
  <2>6. Found'
    BY <2>1, <2>4 DEF Found, Idle
  <2>7. LiveIsMade'
    BY <2>2 DEF BInv, LiveIsMade, IInv, Tables, EventType
  <2> QED BY <2>5, <2>6, <2>7 DEF BInv
<1> QED BY <1>1, <1>2, <1>3, <1>4, <1>5, <1>6 DEF Starts

(* A request that ends, cut short or done, with no event changed but new ones. *)
LEMMA EndBooks ==
    ASSUME IInv, BInv, FoundStays, LiveIsMade', NEW p \in Request, End(p)
    PROVE  BInv'
<1>1. req' = [req EXCEPT ![p] = Idle]
  BY EndKeeps DEF IInv
<1>2. Idle \in RequestType /\ Idle.pc = "idle"
  BY IdleOK DEF RequestOK, Idle
<1> QED BY <1>1, <1>2, FoundKeeps

LEMMA StepsBook ==
    ASSUME IInv, BInv, NEW p \in Request,
           \/ MarkSent(p) \/ DeleteQuote(p) \/ LockLead(p) \/ FindEvent(p) \/ InsertEvent(p)
           \/ BreakDeadlock(p) \/ UnlinkQuotes(p) \/ Fails(p)
    PROVE  BInv' /\ Booked
<1>t. RequestOK(req[p]) /\ req[p] \in RequestType
  BY DEF IInv, Requests
<1>1. FoundStays /\ LiveIsMade'
  BY SameEvents DEF MarkSent, DeleteQuote, LockLead, FindEvent, InsertEvent, BreakDeadlock,
                    UnlinkQuotes, Fails
<1>2. CASE MarkSent(p) \/ DeleteQuote(p) \/ UnlinkQuotes(p)
  <2>1. End(p)
    BY <1>2 DEF MarkSent, DeleteQuote, UnlinkQuotes
  <2>2. quotes \in [Quote -> QuoteType]
    BY DEF IInv, Tables
  <2>3. \A q \in Quote : quotes'[q].status = quotes[q].status \/ quotes'[q].status # "accepted"
    BY <1>2, <2>2 DEF MarkSent, DeleteQuote, UnlinkQuotes, QuoteType
  <2> QED BY <1>1, <2>1, <2>3, EndBooks, NothingBooked
<1>3. CASE BreakDeadlock(p) \/ Fails(p)
  <2>1. End(p) /\ UNCHANGED quotes
    BY <1>3 DEF BreakDeadlock, Fails, End, Ended
  <2> QED BY <1>1, <2>1, EndBooks, NothingBooked
<1>4. CASE LockLead(p)
  <2> DEFINE k == [req[p] EXCEPT !.pc = "find", !.lead = LeadOf[req[p].quote]]
  <2>1. LeadOf[req[p].quote] \in Lead /\ req[p].pc = "lead"
    BY <1>4, <1>t DEF LockLead, RequestOK
  <2>2. /\ k \in RequestType /\ k.op = req[p].op /\ k.pc = "find" /\ k.quote = req[p].quote
        /\ k.lead = LeadOf[req[p].quote]
    BY <1>t, <2>1 DEF RequestType, Steps
  <2>3. req' = [req EXCEPT ![p] = k] /\ UNCHANGED quotes /\ req[p] # Idle
    BY <1>4, <2>1 DEF LockLead, Goto, Idle
  <2> HIDE DEF k
  <2> QED BY <1>1, <2>2, <2>3, FoundKeeps, NothingBooked
<1>5. CASE FindEvent(p)
  <2> DEFINE found == EventsOf(req[p].lead)
             k(e) == [req[p] EXCEPT !.pc = "book", !.event = e]
  <2>1. PICK e \in IF found = {} THEN {None} ELSE found : Goto(p, k(e))
    BY <1>5 DEF FindEvent
  <2>2. e \in Event \cup {None} /\ (e # None => events[e].live /\ events[e].lead = req[p].lead)
    BY <2>1 DEF EventsOf
  <2>3. req[p].pc = "find" /\ req[p].lead = LeadOf[req[p].quote]
    BY <1>5 DEF FindEvent, BInv, Found
  <2>4. /\ k(e) \in RequestType /\ k(e).op = req[p].op /\ k(e).pc = "book"
        /\ k(e).quote = req[p].quote /\ k(e).lead = req[p].lead /\ k(e).event = e
    BY <1>t, <2>2 DEF RequestType, Steps
  <2>5. req' = [req EXCEPT ![p] = k(e)] /\ UNCHANGED quotes
    BY <1>5, <2>1 DEF FindEvent, Goto
  <2>6. req[p] # Idle
    BY <2>3 DEF Idle
  <2> HIDE DEF k
  <2> QED BY <1>1, <2>2, <2>3, <2>4, <2>5, <2>6, FoundKeeps, NothingBooked
<1>6. CASE InsertEvent(p)
  <2>1. UNCHANGED quotes /\ req[p].pc = "insert"
    BY <1>6 DEF InsertEvent
  <2>2. CASE MayHaveEvent(req[p].lead)
    <3> DEFINE k == [req[p] EXCEPT !.pc = "commit"]
    <3>1. k \in RequestType /\ k.op = req[p].op /\ k.pc = "commit"
      BY <1>t DEF RequestType, Steps
    <3>2. req' = [req EXCEPT ![p] = k] /\ req[p] # Idle
      BY <1>6, <2>1, <2>2 DEF InsertEvent, Goto, Idle
    <3> HIDE DEF k
    <3> QED BY <1>1, <2>1, <3>1, <3>2, FoundKeeps, NothingBooked
  <2>3. CASE ~MayHaveEvent(req[p].lead)
    <3>1. End(p)
      BY <1>6, <2>3 DEF InsertEvent
    <3> QED BY <1>1, <2>1, <3>1, EndBooks, NothingBooked
  <2> QED BY <2>2, <2>3
<1> QED BY <1>2, <1>3, <1>4, <1>5, <1>6

(* A new event is nobody's yet. *)
LEMMA NewEventBooks ==
    ASSUME IInv, BInv, NEW e \in Unmade, NEW new \in EventType, new.made,
           events' = [events EXCEPT ![e] = new]
    PROVE  FoundStays /\ LiveIsMade' /\ events'[e] = new
<1>1. e \in Event /\ ~events[e].made
  BY DEF Unmade
<1>2. \A f \in Event : events'[f] = IF f = e THEN new ELSE events[f]
  BY DEF IInv, Tables
<1> QED BY <1>1, <1>2 DEF FoundStays, BInv, LiveIsMade

LEMMA CommitBooks ==
    ASSUME IInv, BInv, NEW p \in Request, CommitEvent(p)
    PROVE  BInv' /\ Booked
<1> DEFINE new == [made |-> TRUE, live |-> TRUE, lead |-> req[p].lead, value |-> ByHand]
<1>1. PICK e \in Unmade : events' = [events EXCEPT ![e] = new]
  BY DEF CommitEvent
<1>2. new \in EventType /\ new.made
  BY DEF CommitEvent, IInv, Requests, RequestType, EventType
<1> HIDE DEF new
<1>3. End(p) /\ UNCHANGED quotes
  BY DEF CommitEvent
<1>4. FoundStays /\ LiveIsMade'
  BY <1>1, <1>2, NewEventBooks
<1> QED BY <1>3, <1>4, EndBooks, NothingBooked

LEMMA BookBooks ==
    ASSUME IInv, BInv, NEW p \in Request, Book(p)
    PROVE  BInv' /\ Booked
<1> DEFINE k == req[p]
           q == k.quote
           total == quotes[q].total
           new == [made |-> TRUE, live |-> TRUE, lead |-> k.lead, value |-> total]
<1>1. /\ q \in Quote /\ k.pc = "book" /\ k.lead = LeadOf[q] /\ k.lead \in Lead \cup {None}
      /\ k.event \in Event \cup {None} /\ quotes[q] \in QuoteType
  BY DEF Book, IInv, BInv, Found, Requests, RequestOK, RequestType, Tables
<1>2. total \in Total \cup {0} /\ events \in [Event -> EventType]
  BY <1>1 DEF IInv, Tables, QuoteType
<1>3. PICK e \in IF k.event # None THEN {k.event} ELSE Unmade :
        /\ events' = [events EXCEPT ![e] = IF k.event # None THEN Revalued(e, total) ELSE new]
        /\ quotes' = [quotes EXCEPT ![q].status = "accepted", ![q].event = e]
  BY DEF Book
<1>4. e \in Event /\ e # None
  BY <1>1, <1>3, BookingAssumption DEF Unmade
<1>5. /\ FoundStays /\ LiveIsMade'
      /\ events'[e].live /\ events'[e].lead = LeadOf[q] /\ events'[e].value = total
  <2>1. CASE k.event # None
    <3>1. e = k.event /\ events[e].live /\ events[e].lead = k.lead
      BY <1>1, <1>3, <2>1 DEF BInv, Found
    <3>2. events[e] \in EventType /\ events[e].made
      BY <1>2, <1>4, <3>1 DEF BInv, LiveIsMade
    <3>3. events' = [events EXCEPT ![e] = Revalued(e, total)]
      BY <1>3, <2>1
    <3>4. \A f \in Event : events'[f] = IF f = e THEN Revalued(e, total) ELSE events[f]
      BY <1>2, <3>3
    <3>5. /\ Revalued(e, total).live = events[e].live /\ Revalued(e, total).lead = events[e].lead
          /\ Revalued(e, total).made = events[e].made /\ Revalued(e, total).value = total
      BY <3>2 DEF Revalued, EventType
    <3> QED BY <1>1, <1>4, <3>1, <3>2, <3>4, <3>5 DEF FoundStays, BInv, LiveIsMade
  <2>2. CASE k.event = None
    <3>1. e \in Unmade /\ events' = [events EXCEPT ![e] = new]
      BY <1>3, <2>2
    <3>2. new \in EventType
      BY <1>1, <1>2 DEF EventType, ByHand
    <3>3. new.made /\ new.live /\ new.lead = LeadOf[q] /\ new.value = total
      BY <1>1
    <3> HIDE DEF new
    <3> QED BY <3>1, <3>2, <3>3, NewEventBooks
  <2> QED BY <2>1, <2>2
<1>6. End(p)
  BY DEF Book
<1>7. BInv'
  BY <1>5, <1>6, EndBooks
<1>8. /\ quotes'[q].event = e /\ quotes'[q].total = total
      /\ \A x \in Quote : x # q => quotes'[x] = quotes[x]
  BY <1>1, <1>3 DEF IInv, Tables, QuoteType
<1>9. LeadOf[q] # None => leads'[LeadOf[q]].won
  <2>1. ASSUME LeadOf[q] # None
        PROVE  leads'[LeadOf[q]].won
    <3>1. leads' = [leads EXCEPT ![k.lead].won = TRUE] /\ k.lead \in Lead
      BY <1>1, <2>1 DEF Book
    <3> QED BY <1>1, <3>1 DEF IInv, Tables, LeadType
  <2> QED BY <2>1
<1>10. Booked
  BY <1>4, <1>5, <1>8, <1>9 DEF Booked
<1> QED BY <1>7, <1>10

(* Quotes, events and leads edited while no handler is at a step of its own, *)
(* or no step at all. *)
LEMMA EditsBook ==
    ASSUME IInv, BInv, UNCHANGED req,
           \/ \E q \in Quote : CreateQuote(q) \/ UpdateQuote(q) \/ Lapse(q) \/ Decline(q)
           \/ \E e \in Event : UpdateEvent(e)
           \/ \E l \in Lead : MoveLead(l) \/ DeleteLead(l)
           \/ UNCHANGED vars
    PROVE  BInv' /\ Booked
<1>1. FoundStays /\ LiveIsMade'
  <2>1. ASSUME NEW e \in Event, UpdateEvent(e)
        PROVE  FoundStays /\ LiveIsMade'
    <3>1. \A f \in Event : /\ events'[f].made = events[f].made
                           /\ events'[f].live = events[f].live
                           /\ events'[f].lead = events[f].lead
      BY <2>1 DEF UpdateEvent, IInv, Tables, EventType
    <3> QED BY <3>1 DEF FoundStays, BInv, LiveIsMade
  <2>2. CASE UNCHANGED events
    BY <2>2, SameEvents
  <2> QED BY <2>1, <2>2 DEF CreateQuote, UpdateQuote, Lapse, Decline, MoveLead, DeleteLead, vars
<1>2. Found'
  <2>1. \A r \in Request : req[r].event # None => req[r].event \in Event
    BY DEF IInv, Requests, RequestType
  <2> QED BY <1>1, <2>1 DEF BInv, Found, FoundStays, LiveIsMade
<1>3. RunsAlone'
  BY DEF BInv, RunsAlone
<1>4. \A q \in Quote : quotes'[q].status = quotes[q].status \/ quotes'[q].status # "accepted"
  <2>1. quotes \in [Quote -> QuoteType]
    BY DEF IInv, Tables
  <2>2. ASSUME NEW q \in Quote, CreateQuote(q)
        PROVE  \A x \in Quote : quotes'[x].status = quotes[x].status \/ quotes'[x].status # "accepted"
    BY <2>1, <2>2 DEF CreateQuote, QuoteType
  <2>3. ASSUME NEW q \in Quote, UpdateQuote(q)
        PROVE  \A x \in Quote : quotes'[x].status = quotes[x].status \/ quotes'[x].status # "accepted"
    BY <2>1, <2>3 DEF UpdateQuote, QuoteType
  <2>4. ASSUME NEW q \in Quote, Lapse(q) \/ Decline(q)
        PROVE  \A x \in Quote : quotes'[x].status = quotes[x].status \/ quotes'[x].status # "accepted"
    BY <2>1, <2>4 DEF Lapse, Decline, QuoteType
  <2> QED BY <2>2, <2>3, <2>4 DEF UpdateEvent, MoveLead, DeleteLead, vars
<1> QED BY <1>1, <1>2, <1>3, <1>4, NothingBooked DEF BInv

LEMMA BookedStep ==
    ASSUME "deleteEvent" \in Alone, IInv, BInv, [Next]_vars
    PROVE  BInv' /\ Booked
<1>1. ASSUME NEW p \in Request, Starts(p)
      PROVE  BInv' /\ Booked
  BY <1>1, StartsBook
<1>2. ASSUME NEW p \in Request, Works(p) \/ Fails(p)
      PROVE  BInv' /\ Booked
  BY <1>2, StepsBook, BookBooks, CommitBooks DEF Works
<1>3. CASE \/ \E q \in Quote : CreateQuote(q) \/ UpdateQuote(q) \/ Lapse(q) \/ Decline(q)
           \/ \E e \in Event : UpdateEvent(e)
           \/ \E l \in Lead : MoveLead(l) \/ DeleteLead(l)
           \/ UNCHANGED vars
  <2>1. UNCHANGED req
    BY <1>3 DEF CreateQuote, UpdateQuote, Lapse, Decline, UpdateEvent, MoveLead, DeleteLead, vars
  <2> QED BY <1>3, <2>1, EditsBook
<1> QED BY <1>1, <1>2, <1>3 DEF Next

(* As long as nothing runs beside deleting an event, a quote that becomes    *)
(* accepted books its job in the same transaction: its lead is won, and it   *)
(* points to a live event of its lead that is worth its total.  Acceptances  *)
(* of any number of quotes of the lead, events made for it by hand, edits,   *)
(* sendings, deletions of quotes and failures may all interleave with it.    *)
THEOREM AcceptanceBooks ==
    ASSUME "deleteEvent" \in Alone
    PROVE  Spec => BookedWhenAccepted
<1>1. Init => BInv
  <2> SUFFICES ASSUME Init PROVE BInv
    OBVIOUS
  <2>1. \A p \in Request : req[p] = Idle
    BY DEF Init
  <2> QED BY <2>1 DEF Init, BInv, RunsAlone, Found, LiveIsMade, Idle, NoEvent
<1>2. IInv /\ BInv /\ [Next]_vars => BInv'
  BY BookedStep
<1>3. IInv /\ BInv /\ [Next]_vars =>
        [\A q \in Quote : quotes[q].status # "accepted" /\ quotes'[q].status = "accepted" =>
            /\ LeadOf[q] # None => leads'[LeadOf[q]].won
            /\ quotes'[q].event # None
            /\ LET e == events'[quotes'[q].event] IN
               e.live /\ e.lead = LeadOf[q] /\ e.value = quotes'[q].total]_vars
  BY BookedStep DEF Booked
<1> QED BY <1>1, <1>2, <1>3, IInvHolds, PTL DEF Spec, BookedWhenAccepted
=============================================================================
