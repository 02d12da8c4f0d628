--------------------------- MODULE MCQuoteBooking ---------------------------
(* QuoteBooking on small instances: two quotes, both for the same lead or    *)
(* one of them for a client without a lead.                                  *)
EXTENDS QuoteBooking, TLC

CONSTANTS q1, q2, l1, p1, p2

SameLead == [q \in Quote |-> l1]
OneLead == [q \in Quote |-> IF q = q1 THEN l1 ELSE None]

(* The same quote accepted online twice or by the team too, events made for  *)
(* its lead by two at once; the other handlers by one of the requests.       *)
TwoAtOnce == [p \in Request |->
    IF p = p1 THEN {"acceptOnline", "createEvent", "markSent", "deleteQuote", "deleteEvent"}
    ELSE {"acceptOnline", "accept", "createEvent"}]
=============================================================================
