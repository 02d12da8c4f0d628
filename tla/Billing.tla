------------------------------ MODULE Billing -------------------------------
(* A business's plan: checkouts, plans paid another way, and the messages of *)
(* the payment provider, which come late, again and out of order, to several *)
(* handlers at once.  Days are numbers; 0 is no date.                        *)
EXTENDS Naturals, Sequences

CONSTANTS
    Handler,        \* requests that bring a message
    Buyer,          \* requests of the owner to start paying
    TrialEnd,       \* the trial counts before this day
    Period,         \* how many days one payment lasts
    LastDate,       \* bound: the last day there is
    MaxPlans,       \* bound: how many subscriptions there may be
    MaxMessages     \* bound: how many messages the provider may send

ASSUME BillingAssumption ==
    /\ TrialEnd \in Nat /\ Period \in Nat \ {0} /\ LastDate \in Nat
    /\ MaxPlans \in Nat /\ MaxMessages \in Nat

VARIABLES
    subscriptions,  \* the rows, oldest first
    razorpay,       \* what the provider has of each
    messages,       \* what it told us, oldest first
    events,         \* billing_events: the messages recorded
    applied,        \* history: how often each message changed its row
    answered,       \* the messages answered at least once
    handling,       \* what each handler is at
    buying,         \* the owner's requests that were let through
    date            \* what day it is

billingVars == <<subscriptions, razorpay, messages, events, applied, answered, handling, buying, date>>

Idling == [of |-> 0, applied |-> FALSE]

BillingInit ==
    /\ subscriptions = <<>> /\ razorpay = <<>> /\ messages = <<>>
    /\ events = {} /\ applied = <<>> /\ answered = {}
    /\ handling = [h \in Handler |-> Idling]
    /\ buying = {}
    /\ date = 1

-----------------------------------------------------------------------------
(* Where the business stands                                                 *)

Renewing == {"active", "past_due"}
Closing == {"cancelled", "completed"}

Live == {i \in DOMAIN subscriptions : subscriptions[i].status \in Renewing}
Newest(is) == CHOOSE i \in is : \A j \in is : j <= i

(* The subscription that counts: a live one first, else the latest.          *)
ThatCounts == Newest(IF Live # {} THEN Live ELSE DOMAIN subscriptions)

Unpaid == IF date < TrialEnd THEN "trial" ELSE "expired"

billingStatus(s) ==
    IF s.status \in Renewing /\ (s.end = 0 \/ s.end > date) THEN s.status
    ELSE IF s.status \in Closing /\ s.end > date THEN "active"
    ELSE Unpaid

standing == IF subscriptions = <<>> THEN Unpaid ELSE billingStatus(subscriptions[ThatCounts])

(* One that will not renew lets the owner choose again.                      *)
AlreadySubscribed ==
    standing \in Renewing /\ subscriptions[ThatCounts].status \notin Closing

-----------------------------------------------------------------------------
(* startCheckout asks where the business stands, then the gateway, and only  *)
(* then writes the row; it may fail on the way.                              *)
CheckoutLooks(b) ==
    /\ b \notin buying /\ ~AlreadySubscribed
    /\ buying' = buying \cup {b}
    /\ UNCHANGED <<subscriptions, razorpay, messages, events, applied, answered, handling, date>>

CheckoutEnds(b) ==
    /\ b \in buying
    /\ buying' = buying \ {b}
    /\ \/ /\ Len(subscriptions) < MaxPlans
          /\ subscriptions' = Append(subscriptions, [status |-> "created", end |-> 0])
          /\ razorpay' = Append(razorpay, [status |-> "created", end |-> 0])
       \/ UNCHANGED <<subscriptions, razorpay>>
    /\ UNCHANGED <<messages, events, applied, answered, handling, date>>

(* The provider knows nothing of a plan paid another way.                    *)
setManualPlan ==
    /\ Len(subscriptions) < MaxPlans
    /\ \E until \in date + 1 .. LastDate + 1 :
          subscriptions' = Append(subscriptions, [status |-> "active", end |-> until])
    /\ razorpay' = Append(razorpay, [status |-> "manual", end |-> 0])
    /\ UNCHANGED <<messages, events, applied, answered, handling, buying, date>>

-----------------------------------------------------------------------------
(* The provider                                                              *)

Tells(i, status, end) ==
    /\ Len(messages) < MaxMessages
    /\ razorpay' = [razorpay EXCEPT ![i] = [status |-> status, end |-> end]]
    /\ messages' = Append(messages, [sub |-> i, event |-> status, end |-> end])
    /\ applied' = Append(applied, 0)
    /\ UNCHANGED <<subscriptions, events, answered, handling, buying, date>>

Due(i) == razorpay[i].end <= date

Charged(i) ==
    /\ razorpay[i].status \in {"created", "charged", "pending"} /\ Due(i)
    /\ Tells(i, "charged", date + Period)

RenewalFails(i) ==
    /\ razorpay[i].status = "charged" /\ Due(i)
    /\ Tells(i, "pending", razorpay[i].end)

Closes(i) ==
    \/ razorpay[i].status \in {"created", "charged", "pending", "paused"}
       /\ Tells(i, "cancelled", razorpay[i].end)
    \/ razorpay[i].status = "charged"
       /\ \E to \in {"paused", "completed"} : Tells(i, to, razorpay[i].end)

Resumed(i) ==
    /\ razorpay[i].status = "paused"
    /\ Tells(i, "resumed", razorpay[i].end)

-----------------------------------------------------------------------------
(* handleRazorpayEvent                                                       *)

(* halted is told like pending, activated like charged. *)
RAZORPAY_STATUS ==
    [charged |-> "active", resumed |-> "active", pending |-> "past_due",
     cancelled |-> "cancelled", paused |-> "cancelled", completed |-> "completed"]

(* Mutant: a message is handled as often as it comes. *)
Anew(m) == TRUE

Unseen(m) == m \notin events

(* Any message, for the first time or again, before or after others: it is   *)
(* recorded, or answered as a repeat.                                        *)
Receive(h, m) ==
    /\ handling[h] = Idling
    /\ handling' = [handling EXCEPT ![h].of = IF Unseen(m) THEN m ELSE 0]
    /\ answered' = IF Unseen(m) THEN answered ELSE answered \cup {m}
    /\ events' = events \cup {m}
    /\ UNCHANGED <<subscriptions, razorpay, messages, applied, buying, date>>

(* coalesce: a message without an end leaves the one there is.               *)
Applied(s, m) == [status |-> RAZORPAY_STATUS[m.event], end |-> IF m.end = 0 THEN s.end ELSE m.end]

Apply(h) ==
    /\ handling[h].of # 0 /\ ~handling[h].applied
    /\ LET m == messages[handling[h].of] IN
          subscriptions' = [subscriptions EXCEPT ![m.sub] = Applied(@, m)]
    /\ applied' = [applied EXCEPT ![handling[h].of] = @ + 1]
    /\ handling' = [handling EXCEPT ![h].applied = TRUE]
    /\ UNCHANGED <<razorpay, messages, events, answered, buying, date>>

Answer(h) ==
    /\ handling[h].applied
    /\ answered' = answered \cup {handling[h].of}
    /\ handling' = [handling EXCEPT ![h] = Idling]
    /\ UNCHANGED <<subscriptions, razorpay, messages, events, applied, buying, date>>

(* The server stops, or a statement fails; the provider will send it again.  *)
HandlerCrash(h) ==
    /\ handling[h].of # 0
    /\ handling' = [handling EXCEPT ![h] = Idling]
    /\ UNCHANGED <<subscriptions, razorpay, messages, events, applied, answered, buying, date>>

DatePasses ==
    /\ date < LastDate /\ date' = date + 1
    /\ UNCHANGED <<subscriptions, razorpay, messages, events, applied, answered, handling, buying>>

BillingNext ==
    \/ \E b \in Buyer : CheckoutLooks(b) \/ CheckoutEnds(b)
    \/ setManualPlan
    \/ \E i \in DOMAIN razorpay : Charged(i) \/ RenewalFails(i) \/ Closes(i) \/ Resumed(i)
    \/ \E h \in Handler :
          \/ Apply(h) \/ Answer(h) \/ HandlerCrash(h)
          \/ \E m \in DOMAIN messages : Receive(h, m)
    \/ DatePasses

BillingSpec == BillingInit /\ [][BillingNext]_billingVars

-----------------------------------------------------------------------------
(* Properties                                                                *)

BillingTypeOK ==
    /\ subscriptions \in Seq([status : Renewing \cup Closing \cup {"created"}, end : Nat])
    /\ razorpay \in Seq([status : DOMAIN RAZORPAY_STATUS \cup {"created", "manual"}, end : Nat])
    /\ messages \in Seq([sub : Nat, event : DOMAIN RAZORPAY_STATUS, end : Nat])
    /\ events \subseteq DOMAIN messages /\ answered \subseteq events
    /\ applied \in Seq(Nat) /\ Len(applied) = Len(messages)
    /\ handling \in [Handler -> [of : Nat, applied : BOOLEAN]]
    /\ buying \subseteq Buyer
    /\ date \in Nat

(* "A repeat of one already handled changes nothing": whatever comes again   *)
(* or to two handlers at once, in whatever order, and wherever the server    *)
(* stops and is sent the rest again, no message changes its row twice.       *)
HandledAtMostOnce == \A m \in DOMAIN messages : applied[m] <= 1

(* "Each message is handled once": one that was answered, and that nobody is *)
(* at, has changed its row.                                                  *)
EachHandledOnce ==
    \A m \in answered : (\A h \in Handler : handling[h].of # m) => applied[m] = 1
=============================================================================
