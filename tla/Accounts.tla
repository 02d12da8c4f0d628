------------------------------ MODULE Accounts ------------------------------
(* What a business is promised about its invoices and the money it receives, *)
(* without requests, locks, counters or amounts: a payment waits as an       *)
(* advance of one party (an event, or a client without one) or is on one     *)
(* issued bill of that party; a bill takes only money that waits; cancelling *)
(* a bill frees all its money; a bill never comes back.  BillLedger          *)
(* implements this (see BillLedger!Promised).                                *)
CONSTANTS Bill, Payment, Party, None

VARIABLES
    invoice,    \* the bills: what has become of each, and whose it is
    money       \* the payments: where each is, and whose it is

vars == <<invoice, money>>

Unissued == [status |-> "absent", party |-> None]
Unreceived == [state |-> "none", bill |-> None, party |-> None]
Advance(a) == [state |-> "advance", bill |-> None, party |-> a]
On(b, a) == [state |-> "billed", bill |-> b, party |-> a]
Deleted(a) == [state |-> "deleted", bill |-> None, party |-> a]

Init == /\ invoice = [b \in Bill |-> Unissued]
        /\ money = [x \in Payment |-> Unreceived]

(* A bill is made, takes some of the party's waiting money, and may come     *)
(* with new money (at most one payment).                                     *)
Issue(b, a) ==
    LET taken == {x \in Payment : money'[x].bill = b}
        new == {x \in taken : money[x] # Advance(a)}
    IN
    /\ invoice[b] = Unissued
    /\ invoice' = [invoice EXCEPT ![b] = [status |-> "issued", party |-> a]]
    /\ \A x \in new : money[x] = Unreceived
    /\ \A x, y \in new : x = y
    /\ money' = [x \in Payment |-> IF x \in taken THEN On(b, a) ELSE money[x]]

Receive(x, a) ==
    /\ money[x] = Unreceived
    /\ \E m \in {Advance(a)} \cup
                {On(b, a) : b \in {c \in Bill : invoice[c] = [status |-> "issued", party |-> a]}} :
          money' = [money EXCEPT ![x] = m]
    /\ UNCHANGED invoice

Cancel(b) ==
    /\ invoice[b].status = "issued"
    /\ invoice' = [invoice EXCEPT ![b].status = "cancelled"]
    /\ money' = [x \in Payment |-> IF money[x].bill = b THEN Advance(money[x].party) ELSE money[x]]

Delete(x) ==
    /\ money[x].state \in {"advance", "billed"}
    /\ money' = [money EXCEPT ![x] = Deleted(money[x].party)]
    /\ UNCHANGED invoice

Next ==
    \/ \E b \in Bill, a \in Party : Issue(b, a)
    \/ \E x \in Payment, a \in Party : Receive(x, a)
    \/ \E b \in Bill : Cancel(b)
    \/ \E x \in Payment : Delete(x)

Spec == Init /\ [][Next]_vars
=============================================================================
