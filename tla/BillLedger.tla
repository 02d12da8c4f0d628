----------------------------- MODULE BillLedger -----------------------------
(* Bills numbered per financial year, the money received for them, and the   *)
(* advances that wait for a bill.  Requests run at once over PostgreSQL at   *)
(* READ COMMITTED (see QuoteBooking); a transaction's rows are put into the  *)
(* tables by the step that commits it, and what it holds until then is in    *)
(* req.  A running number is a row of workspace_counters, locked from the    *)
(* statement that adds one to it until the commit.                           *)
(*                                                                           *)
(* A step is a statement that may wait or read, with all the statements      *)
(* after it that neither wait nor read what others write.                    *)
EXTENDS Naturals, FiniteSets, FiniteSetsExt

CONSTANTS
    Bill,       \* bound: the bills that may be made
    Payment,    \* bound: the payments that may be recorded
    Party,      \* whom money is for: an event, or a client without one
    Event,      \* those of them that are events
    Year,       \* the financial years
    Total,      \* what a bill may come to
    Amount,     \* what a payment may come to
    Request,    \* requests under way at once
    None,       \* no bill, no payment, no party, no year
    Apart       \* bound: the handlers (two of them, or one with itself) never run at once

Handler == {"createBill", "recordOnBill", "record", "cancelBill", "updatePayment"}

ASSUME LedgerAssumption ==
    /\ Event \subseteq Party
    /\ Total \subseteq Nat /\ Amount \subseteq Nat \ {0}
    /\ None \notin Bill \cup Payment \cup Party \cup Year
    /\ IsFiniteSet(Bill) /\ IsFiniteSet(Payment) /\ IsFiniteSet(Request)
    /\ Apart \subseteq SUBSET Handler

VARIABLES
    bills,      \* the bills table
    payments,   \* the payments table
    years,      \* workspace_counters "bill:<year>": the last number of each year
    receipts,   \* workspace_counters "receipt": the last receipt number
    req         \* what each request is doing

vars == <<bills, payments, years, receipts, req>>

Idle == [op |-> "none", pc |-> "idle", bill |-> None, party |-> None, year |-> None,
         total |-> 0, amount |-> 0, number |-> 0, rows |-> {}, held |-> {}]

NoBill == [status |-> "absent", party |-> None, year |-> None, seq |-> 0, total |-> 0]
NoPayment == [status |-> "absent", bill |-> None, party |-> None, amount |-> 0, number |-> 0]

Init ==
    /\ bills = [b \in Bill |-> NoBill]
    /\ payments = [x \in Payment |-> NoPayment]
    /\ years = [y \in Year |-> 0]
    /\ receipts = 0
    /\ req = [p \in Request |-> Idle]

-----------------------------------------------------------------------------
(* Rows, locks and bounds                                                    *)

Live(x) == payments[x].status = "live"

Worth(S) == MapThenSumSet(LAMBDA x : payments[x].amount, S)

PaidOn(b) == Worth({x \in Payment : Live(x) /\ payments[x].bill = b})

(* Money of this party that is not on a bill. *)
Free(a) == {x \in Payment : Live(x) /\ payments[x].party = a /\ payments[x].bill = None}

(* Mutant: the bill is read without FOR UPDATE. *)
NeverLocked(b) == {}

(* A bill's row is held by whoever read it FOR UPDATE. *)
LockersOf(b) == {r \in Request : req[r].op \in {"recordOnBill", "cancelBill"} /\ req[r].bill = b}

(* Mutant: the running number is read, and raised only with the commit.      *)
NeverTaken(y) == {}

TakersOf(y) == {r \in Request : req[r].op = "createBill" /\ req[r].year = y}

ReceiptTakers == {r \in Request : req[r].pc = "insert"}

HoldersOf(x) == {r \in Request : x \in req[r].held}

(* Handlers that are to be kept apart are. *)
Clear(op) == \A r \in Request : req[r].op # "none" => {op, req[r].op} \notin Apart

Unissued == {b \in Bill : bills[b].status = "absent"}
Unrecorded == {x \in Payment : payments[x].status = "absent"}

(* Bound: a bill and a payment are left for every request that may make one. *)
RoomFor(op, amount) ==
    /\ op = "createBill" =>
         Cardinality(Unissued) > Cardinality({r \in Request : req[r].op = "createBill"})
    /\ amount > 0 =>
         Cardinality(Unrecorded) > Cardinality({r \in Request : req[r].amount > 0})

MayStart(p, op, amount) == req[p] = Idle /\ Clear(op) /\ RoomFor(op, amount)

Goto(p, k) == req' = [req EXCEPT ![p] = k]
End(p) == Goto(p, Idle)

Recorded(b, a, amount, number) ==
    [status |-> "live", bill |-> b, party |-> a, amount |-> amount, number |-> number]

-----------------------------------------------------------------------------
(* createBill                                                                *)

(* The year's next number is taken, after whoever has taken one and not      *)
(* committed yet.  Money that came with it: amount, or 0.                *)
StartCreateBill(p, a, y) ==
    /\ TakersOf(y) = {}
    /\ \E total \in Total, amount \in Amount \cup {0} :
        /\ MayStart(p, "createBill", amount)
        /\ Goto(p, [Idle EXCEPT !.op = "createBill", !.pc = "read", !.party = a, !.year = y,
                                !.total = total, !.amount = amount, !.number = years[y] + 1])
    /\ UNCHANGED <<bills, payments, years, receipts>>

(* Mutant: the advances are attached however much they come to. *)
TakesAll(S, free, total) == S = free

(* attachAdvances goes through the free payments in their order and stops at *)
(* the first that would go beyond the total.                                 *)
Fits(S, free, total) ==
    /\ Worth(S) <= total
    /\ S # free => \E x \in free \ S : Worth(S) + payments[x].amount > total

ReadAdvances(p) ==
    LET free == Free(req[p].party) IN
    /\ req[p].pc = "read"
    /\ \E S \in SUBSET free :
        /\ Fits(S, free, req[p].total)
        /\ Goto(p, [req[p] EXCEPT !.pc = "attach", !.rows = S])
    /\ UNCHANGED <<bills, payments, years, receipts>>

(* One of them is given to the bill, whatever has become of it, after        *)
(* whoever holds its row.                                                    *)
AttachAdvance(p) ==
    /\ req[p].pc = "attach"
    /\ \E x \in req[p].rows \ req[p].held :
        /\ HoldersOf(x) = {}
        /\ Goto(p, [req[p] EXCEPT !.held = @ \cup {x}])
    /\ UNCHANGED <<bills, payments, years, receipts>>

(* Mutant: money that comes with a bill is not held against what it has got. *)
AnyAmount(k) == TRUE

(* Money that comes with the bill may not go beyond its balance. *)
Payable(k) == k.amount > 0 => Worth({x \in k.held : Live(x)}) + k.amount <= k.total

(* Then it commits; or is refused, and rolled back.                          *)
IssueBill(p) ==
    LET k == req[p]
        pays == k.amount > 0
    IN
    /\ k.pc = "attach" /\ k.held = k.rows
    /\ \/ /\ ~Payable(k)
          /\ UNCHANGED <<bills, payments, years, receipts>>
       \/ /\ Payable(k)
          /\ pays => ReceiptTakers = {}
          /\ \E b \in Unissued, x \in Unrecorded \cup {None} :
              /\ x = None <=> ~pays
              /\ bills' = [bills EXCEPT ![b] =
                    [status |-> "issued", party |-> k.party, year |-> k.year,
                     seq |-> k.number, total |-> k.total]]
              /\ payments' = [z \in Payment |->
                    IF z \in k.held THEN [payments[z] EXCEPT !.bill = b]
                    ELSE IF z = x THEN Recorded(b, k.party, k.amount, receipts + 1)
                    ELSE payments[z]]
          /\ years' = [years EXCEPT ![k.year] = k.number]
          /\ receipts' = IF pays THEN receipts + 1 ELSE receipts
    /\ End(p)

-----------------------------------------------------------------------------
(* recordPayment                                                             *)

(* On a bill: it is locked, and refused when it was cancelled. *)
StartRecordOnBill(p, b) ==
    /\ LockersOf(b) = {} /\ bills[b].status = "issued"
    /\ \E amount \in Amount :
        /\ MayStart(p, "recordOnBill", amount)
        /\ Goto(p, [Idle EXCEPT !.op = "recordOnBill", !.pc = "receipt", !.bill = b,
                                !.party = bills[b].party, !.amount = amount])
    /\ UNCHANGED <<bills, payments, years, receipts>>

(* Issued bills of an event with a balance. *)
Owing(a) == {b \in Bill : /\ bills[b].status = "issued" /\ bills[b].party = a
                          /\ bills[b].total > PaidOn(b)}

(* For an event: on one of its bills with a balance (the oldest by a date    *)
(* that can be changed), read without a lock; otherwise, and for a client,   *)
(* as an advance.                                                            *)
StartRecord(p, a) ==
    LET owing == IF a \in Event THEN Owing(a) ELSE {} IN
    /\ \E amount \in Amount, b \in IF owing = {} THEN {None} ELSE owing :
        /\ MayStart(p, "record", amount)
        /\ Goto(p, [Idle EXCEPT !.op = "record", !.pc = "receipt", !.bill = b, !.party = a,
                                !.amount = amount])
    /\ UNCHANGED <<bills, payments, years, receipts>>

TakeReceipt(p) ==
    /\ req[p].pc = "receipt" /\ ReceiptTakers = {}
    /\ Goto(p, [req[p] EXCEPT !.pc = "insert", !.number = receipts + 1])
    /\ UNCHANGED <<bills, payments, years, receipts>>

(* The row's foreign key waits for whoever else has the bill locked; then it *)
(* commits.                                                                  *)
InsertPayment(p) ==
    LET k == req[p] IN
    /\ k.pc = "insert" /\ LockersOf(k.bill) \subseteq {p}
    /\ \E x \in Unrecorded :
          payments' = [payments EXCEPT ![x] = Recorded(k.bill, k.party, k.amount, k.number)]
    /\ receipts' = k.number
    /\ End(p)
    /\ UNCHANGED <<bills, years>>

-----------------------------------------------------------------------------
(* cancelBill, updateBill, updatePayment, deletePayment                      *)

(* The bill is locked; cancelled already, nothing happens. *)
StartCancelBill(p, b) ==
    /\ LockersOf(b) = {} /\ bills[b].status = "issued"
    /\ MayStart(p, "cancelBill", 0)
    /\ Goto(p, [Idle EXCEPT !.op = "cancelBill", !.pc = "cancel", !.bill = b])
    /\ UNCHANGED <<bills, payments, years, receipts>>

(* Its payments are freed, after whoever holds one of them. *)
CancelBill(p) ==
    LET b == req[p].bill
        on == {x \in Payment : payments[x].bill = b}
    IN
    /\ req[p].pc = "cancel"
    /\ \A x \in on : HoldersOf(x) = {}
    /\ bills' = [bills EXCEPT ![b].status = "cancelled"]
    /\ payments' = [x \in Payment |-> IF x \in on THEN [payments[x] EXCEPT !.bill = None]
                                      ELSE payments[x]]
    /\ End(p)
    /\ UNCHANGED <<years, receipts>>

(* New lines, a new total; refused when cancelled, or for another year.      *)
UpdateBill(b) ==
    /\ LockersOf(b) = {} /\ bills[b].status = "issued"
    /\ \E total \in Total : bills' = [bills EXCEPT ![b].total = total]
    /\ UNCHANGED <<payments, years, receipts, req>>

UpdatePayment(x) ==
    /\ Clear("updatePayment") /\ Live(x) /\ HoldersOf(x) = {}
    /\ \E amount \in Amount : payments' = [payments EXCEPT ![x].amount = amount]
    /\ UNCHANGED <<bills, years, receipts, req>>

DeletePayment(x) ==
    /\ Live(x) /\ HoldersOf(x) = {}
    /\ payments' = [payments EXCEPT ![x].status = "deleted"]
    /\ UNCHANGED <<bills, years, receipts, req>>

-----------------------------------------------------------------------------
(* Failures and deadlocks                                                    *)

(* Mutant: the transaction is not rolled back, and keeps its locks. *)
LeftOpen(k) == [k EXCEPT !.pc = "stuck"]

RolledBack(k) == Idle

(* Mutant: the year's number comes from a sequence, which is not rolled back.*)
LikeASequence(k) == IF k.op = "createBill" THEN [years EXCEPT ![k.year] = k.number] ELSE years

YearsRolledBack(k) == years

(* A statement throws or the process dies. *)
Fails(p) ==
    /\ req[p] # Idle
    /\ Goto(p, RolledBack(req[p]))
    /\ years' = YearsRolledBack(req[p])
    /\ UNCHANGED <<bills, payments, receipts>>

(* Those whom a request waits for. *)
WaitsFor(p) ==
    LET k == req[p] IN
    CASE k.pc = "receipt" -> ReceiptTakers
      [] k.pc = "insert" -> LockersOf(k.bill) \ {p}
      [] k.pc = "cancel" -> UNION {HoldersOf(x) : x \in {z \in Payment : payments[z].bill = k.bill}}
      [] k.pc = "attach" -> IF k.held # k.rows THEN UNION {HoldersOf(x) : x \in k.rows \ k.held}
                            ELSE IF k.amount > 0 THEN ReceiptTakers ELSE {}
      [] OTHER -> {}

(* PostgreSQL rolls back one of those who wait for each other. *)
BreakDeadlock(p) ==
    /\ \E C \in SUBSET Request :
        p \in C /\ \A r \in C : WaitsFor(r) \cap C # {}
    /\ End(p)
    /\ UNCHANGED <<bills, payments, years, receipts>>

-----------------------------------------------------------------------------
Works(p) ==
    \/ ReadAdvances(p) \/ AttachAdvance(p) \/ IssueBill(p) \/ TakeReceipt(p)
    \/ InsertPayment(p) \/ CancelBill(p) \/ BreakDeadlock(p)

Starts(p) ==
    \/ \E a \in Party : StartRecord(p, a) \/ \E y \in Year : StartCreateBill(p, a, y)
    \/ \E b \in Bill : StartRecordOnBill(p, b) \/ StartCancelBill(p, b)

Next ==
    \/ \E p \in Request : Starts(p) \/ Works(p) \/ Fails(p)
    \/ \E b \in Bill : UpdateBill(b)
    \/ \E x \in Payment : UpdatePayment(x) \/ DeletePayment(x)

Spec == Init /\ [][Next]_vars

(* A request that has begun goes on when it can; PostgreSQL queues those who *)
(* wait for a row.                                                           *)
FairSpec == Spec /\ \A p \in Request : SF_vars(Works(p))

-----------------------------------------------------------------------------
(* Properties                                                                *)

Steps == {"idle", "read", "attach", "receipt", "insert", "cancel"}
BillType == [status : {"absent", "issued", "cancelled"}, party : Party \cup {None},
             year : Year \cup {None}, seq : Nat, total : Nat]
PaymentType == [status : {"absent", "live", "deleted"}, bill : Bill \cup {None},
                party : Party \cup {None}, amount : Nat, number : Nat]
RequestType == [op : Handler \cup {"none"}, pc : Steps, bill : Bill \cup {None},
                party : Party \cup {None}, year : Year \cup {None}, total : Nat, amount : Nat,
                number : Nat, rows : SUBSET Payment, held : SUBSET Payment]

TypeOK ==
    /\ bills \in [Bill -> BillType]
    /\ payments \in [Payment -> PaymentType]
    /\ years \in [Year -> Nat] /\ receipts \in Nat
    /\ req \in [Request -> RequestType]
    /\ \A p \in Request : req[p].op = "none" => req[p] = Idle

Made == Bill \ Unissued
Receipted == Payment \ Unrecorded

(* The bills of a year are numbered 1, 2, 3 ... without a gap or a double,   *)
(* whatever fails or is refused, cancelled ones among them; so are the       *)
(* receipts, deleted payments among them.                                    *)
NumbersWithoutGaps ==
    /\ \A b, c \in Made : bills[b].year = bills[c].year /\ bills[b].seq = bills[c].seq => b = c
    /\ \A y \in Year : {bills[b].seq : b \in {c \in Made : bills[c].year = y}} = 1 .. years[y]
    /\ \A x, z \in Receipted : payments[x].number = payments[z].number => x = z
    /\ {payments[x].number : x \in Receipted} = 1 .. receipts

(* A bill is not given more advances, and more money with it, than it comes  *)
(* to.                                                                       *)
NewBillNotOverpaid ==
    [][\A b \in Bill : bills[b].status = "absent" /\ bills'[b].status = "issued" =>
          PaidOn(b)' <= bills'[b].total]_vars

(* Nobody waits for good, although a payment for an event takes its receipt  *)
(* number before it waits for the bill, and one on a bill the other way      *)
(* round.                                                                    *)
EveryRequestEnds == \A p \in Request : (req[p] # Idle) ~> (req[p] = Idle)

(* The bills and the money, as Accounts promises them. *)
Invoices == [b \in Bill |-> [status |-> bills[b].status, party |-> bills[b].party]]

Money == [x \in Payment |->
    [state |-> CASE payments[x].status = "absent" -> "none"
                 [] payments[x].status = "deleted" -> "deleted"
                 [] OTHER -> IF payments[x].bill = None THEN "advance" ELSE "billed",
     bill |-> IF Live(x) THEN payments[x].bill ELSE None,
     party |-> payments[x].party]]

Promise == INSTANCE Accounts WITH invoice <- Invoices, money <- Money

(* Every step of the requests is a step of Accounts, or none: money is on    *)
(* one issued bill of its own party, or waits; none is left on a cancelled   *)
(* bill; no bill takes money that is on another.                             *)
Promised == Promise!Spec
=============================================================================
