-------------------------- MODULE BillLedgerProofs --------------------------
(* What is proved of BillLedger for any number of bills, payments, parties,  *)
(* years and requests at once: its types; that bills and receipts are        *)
(* numbered without gaps or doubles; and, as long as payments for events are *)
(* kept apart from cancelled bills, and bills of different years from each   *)
(* other, that it implements Accounts; and, as long as no amount is changed  *)
(* while a bill is made, that a new bill is not overpaid.                    *)
EXTENDS BillLedger, FiniteSetTheorems, WellFoundedInduction, TLAPS

-----------------------------------------------------------------------------
(* The inductive invariants                                                  *)

(* What a request holds at each of its steps. *)
RequestOK(k) ==
    /\ k \in RequestType
    /\ k.op = "none" => k = Idle
    /\ k.pc = "idle" <=> k.op = "none"
    /\ k.pc \in {"read", "attach"} <=> k.op = "createBill"
    /\ k.pc \in {"receipt", "insert"} <=> k.op \in {"recordOnBill", "record"}
    /\ k.pc = "cancel" <=> k.op = "cancelBill"
    /\ k.op = "createBill" => k.year \in Year /\ k.party \in Party
    /\ k.op \in {"recordOnBill", "record"} => k.party \in Party
    /\ k.op \in {"recordOnBill", "cancelBill"} => k.bill \in Bill
    /\ k.pc # "attach" => k.rows = {}
    /\ k.held \subseteq k.rows

BillOK(b) == bills[b].status # "absent" => bills[b].year \in Year /\ bills[b].party \in Party

Tables ==
    /\ bills \in [Bill -> BillType]
    /\ payments \in [Payment -> PaymentType]
    /\ years \in [Year -> Nat] /\ receipts \in Nat
    /\ \A b \in Bill : BillOK(b)

Requests == req \in [Request -> RequestType] /\ \A p \in Request : RequestOK(req[p])

(* A bill that is being cancelled was made, advances that were read were     *)
(* recorded.                                                                 *)
Existing ==
    \A p \in Request :
        /\ req[p].op = "cancelBill" => bills[req[p].bill].status # "absent"
        /\ \A x \in req[p].rows : payments[x].status # "absent"

Typed == Tables /\ Requests /\ Existing

(* A number that was taken is the next one, and nobody else has it. *)
Taken ==
    /\ \A p \in Request : req[p].op = "createBill" => req[p].number = years[req[p].year] + 1
    /\ \A p, r \in Request : req[p].op = "createBill" /\ req[r].op = "createBill"
         /\ req[p].year = req[r].year => p = r
    /\ \A p \in Request : req[p].pc = "insert" => req[p].number = receipts + 1
    /\ \A p, r \in Request : req[p].pc = "insert" /\ req[r].pc = "insert" => p = r

BillNumbers ==
    /\ \A b, c \in Made : bills[b].year = bills[c].year /\ bills[b].seq = bills[c].seq => b = c
    /\ \A b \in Made : bills[b].seq \in 1 .. years[bills[b].year]
    /\ \A y \in Year : \A n \in 1 .. years[y] :
         \E b \in Made : bills[b].year = y /\ bills[b].seq = n

ReceiptNumbers ==
    /\ \A x, z \in Receipted : payments[x].number = payments[z].number => x = z
    /\ \A x \in Receipted : payments[x].number \in 1 .. receipts
    /\ \A n \in 1 .. receipts : \E x \in Receipted : payments[x].number = n

Numbered == Taken /\ BillNumbers /\ ReceiptNumbers

-----------------------------------------------------------------------------
(* Requests                                                                  *)

LEMMA IdleOK == RequestOK(Idle)
BY DEF RequestOK, RequestType, Idle, Handler, Steps

(* A request that moves to a step it may be at leaves all requests at such.  *)
LEMMA GotoKeeps ==
    ASSUME Requests, NEW p \in Request, NEW k, RequestOK(k), Goto(p, k)
    PROVE  /\ Requests'
           /\ \A r \in Request : req'[r] = IF r = p THEN k ELSE req[r]
BY DEF Requests, RequestOK, Goto

LEMMA EndKeeps ==
    ASSUME Requests, NEW p \in Request, End(p)
    PROVE  /\ Requests'
           /\ \A r \in Request : req'[r] = IF r = p THEN Idle ELSE req[r]
BY IdleOK, GotoKeeps DEF End

LEMMA FailKeeps ==
    ASSUME Requests, NEW p \in Request, Fails(p)
    PROVE  /\ Requests' /\ UNCHANGED <<bills, payments, years, receipts>>
           /\ \A r \in Request : req'[r] = IF r = p THEN Idle ELSE req[r]
BY IdleOK, GotoKeeps DEF Fails, RolledBack, YearsRolledBack

(* Where each kind of request stands when it has begun, and after each step. *)
LEMMA CreateBegins ==
    ASSUME NEW a \in Party, NEW y \in Year, NEW t \in Nat, NEW m \in Nat, NEW n \in Nat
    PROVE  RequestOK([Idle EXCEPT !.op = "createBill", !.pc = "read", !.party = a, !.year = y,
                                  !.total = t, !.amount = m, !.number = n])
BY DEF RequestOK, RequestType, Idle, Handler, Steps

LEMMA RecordBegins ==
    ASSUME NEW op \in {"recordOnBill", "record"}, NEW b \in Bill \cup {None}, NEW a \in Party,
           NEW m \in Nat, op = "recordOnBill" => b \in Bill
    PROVE  RequestOK([Idle EXCEPT !.op = op, !.pc = "receipt", !.bill = b, !.party = a, !.amount = m])
BY DEF RequestOK, RequestType, Idle, Handler, Steps

LEMMA CancelBegins ==
    ASSUME NEW b \in Bill
    PROVE  RequestOK([Idle EXCEPT !.op = "cancelBill", !.pc = "cancel", !.bill = b])
BY DEF RequestOK, RequestType, Idle, Handler, Steps

LEMMA ReadsOn ==
    ASSUME NEW k, RequestOK(k), k.pc = "read", NEW S \in SUBSET Payment
    PROVE  RequestOK([k EXCEPT !.pc = "attach", !.rows = S])
<1>1. k.held = {} /\ k.op = "createBill"
  BY DEF RequestOK
<1> QED BY <1>1 DEF RequestOK, RequestType, Steps

LEMMA AttachesOn ==
    ASSUME NEW k, RequestOK(k), k.pc = "attach", NEW x \in k.rows
    PROVE  RequestOK([k EXCEPT !.held = @ \cup {x}])
BY DEF RequestOK, RequestType, Steps

LEMMA TakesOn ==
    ASSUME NEW k, RequestOK(k), k.pc = "receipt", NEW n \in Nat
    PROVE  RequestOK([k EXCEPT !.pc = "insert", !.number = n])
BY DEF RequestOK, RequestType, Steps

(* Every step of Next leaves the requests at steps they may be at.           *)
LEMMA StartsKeep ==
    ASSUME Typed, NEW p \in Request, Starts(p)
    PROVE  Requests'
<1> USE DEF Typed
<1>1. ASSUME NEW a \in Party, StartRecord(p, a) PROVE Requests'
  <2>1. PICK m \in Amount, b \in Bill \cup {None} :
           Goto(p, [Idle EXCEPT !.op = "record", !.pc = "receipt", !.bill = b, !.party = a, !.amount = m])
    BY <1>1 DEF StartRecord, Owing
  <2> QED BY <2>1, RecordBegins, GotoKeeps, LedgerAssumption
<1>2. ASSUME NEW a \in Party, NEW y \in Year, StartCreateBill(p, a, y) PROVE Requests'
  <2>1. PICK t \in Total, m \in Amount \cup {0} :
           Goto(p, [Idle EXCEPT !.op = "createBill", !.pc = "read", !.party = a, !.year = y,
                                !.total = t, !.amount = m, !.number = years[y] + 1])
    BY <1>2 DEF StartCreateBill
  <2>2. t \in Nat /\ m \in Nat /\ years[y] + 1 \in Nat
    BY LedgerAssumption DEF Tables
  <2> QED BY <2>1, <2>2, CreateBegins, GotoKeeps
<1>3. ASSUME NEW b \in Bill, StartRecordOnBill(p, b) PROVE Requests'
  <2>1. PICK m \in Amount :
           Goto(p, [Idle EXCEPT !.op = "recordOnBill", !.pc = "receipt", !.bill = b,
                                !.party = bills[b].party, !.amount = m])
    BY <1>3 DEF StartRecordOnBill
  <2>2. bills[b].party \in Party /\ m \in Nat
    BY <1>3, LedgerAssumption DEF StartRecordOnBill, Tables, BillOK
  <2> QED BY <2>1, <2>2, RecordBegins, GotoKeeps
<1>4. ASSUME NEW b \in Bill, StartCancelBill(p, b) PROVE Requests'
  BY <1>4, CancelBegins, GotoKeeps DEF StartCancelBill
<1> QED BY <1>1, <1>2, <1>3, <1>4 DEF Starts

LEMMA StartsTouchNoTable ==
    ASSUME NEW p \in Request, Starts(p)
    PROVE  UNCHANGED <<bills, payments, years, receipts>>
BY DEF Starts, StartRecord, StartCreateBill, StartRecordOnBill, StartCancelBill

LEMMA TablesUnchanged ==
    ASSUME Tables, UNCHANGED <<bills, payments, years, receipts>>
    PROVE  Tables'
BY DEF Tables, BillOK

LEMMA ReadKeeps ==
    ASSUME Typed, NEW p \in Request, ReadAdvances(p)
    PROVE  Tables' /\ Requests'
<1> USE DEF Typed
<1>1. PICK S \in SUBSET Free(req[p].party) : Goto(p, [req[p] EXCEPT !.pc = "attach", !.rows = S])
  BY DEF ReadAdvances
<1>2. S \in SUBSET Payment
  BY DEF Free
<1>3. Requests'
  BY <1>1, <1>2, ReadsOn, GotoKeeps DEF ReadAdvances, Requests
<1> QED BY <1>3, TablesUnchanged DEF ReadAdvances

LEMMA AttachKeeps ==
    ASSUME Typed, NEW p \in Request, AttachAdvance(p)
    PROVE  Tables' /\ Requests'
<1> USE DEF Typed
<1>1. Requests'
  BY AttachesOn, GotoKeeps DEF AttachAdvance, Requests
<1> QED BY <1>1, TablesUnchanged DEF AttachAdvance

LEMMA TakeKeeps ==
    ASSUME Typed, NEW p \in Request, TakeReceipt(p)
    PROVE  Tables' /\ Requests'
<1> USE DEF Typed
<1>1. RequestOK(req[p]) /\ req[p].pc = "receipt" /\ receipts + 1 \in Nat
  BY DEF TakeReceipt, Requests, Tables
<1>2. RequestOK([req[p] EXCEPT !.pc = "insert", !.number = receipts + 1])
  BY <1>1, TakesOn
<1>3. Requests'
  BY <1>2, GotoKeeps DEF TakeReceipt
<1> QED BY <1>3, TablesUnchanged DEF TakeReceipt

(* What issuing a bill writes, when it is not refused. *)
Issues(p, b, x) ==
    /\ bills[b].status = "absent"
    /\ x \in Unrecorded \cup {None}
    /\ x = None <=> req[p].amount = 0
    /\ bills' = [bills EXCEPT ![b] =
          [status |-> "issued", party |-> req[p].party, year |-> req[p].year,
           seq |-> req[p].number, total |-> req[p].total]]
    /\ payments' = [z \in Payment |->
          IF z \in req[p].held THEN [payments[z] EXCEPT !.bill = b]
          ELSE IF z = x THEN Recorded(b, req[p].party, req[p].amount, receipts + 1)
          ELSE payments[z]]
    /\ years' = [years EXCEPT ![req[p].year] = req[p].number]
    /\ receipts' = IF x = None THEN receipts ELSE receipts + 1
    /\ x # None => ReceiptTakers = {}

LEMMA IssueCases ==
    ASSUME Typed, NEW p \in Request, IssueBill(p)
    PROVE  \/ UNCHANGED <<bills, payments, years, receipts>>
           \/ \E b \in Bill, x \in Payment \cup {None} : Issues(p, b, x)
<1>1. req[p].amount \in Nat
  BY DEF Typed, Requests, RequestType
<1> QED BY <1>1 DEF IssueBill, Issues, Unissued, Unrecorded

LEMMA IssueKeeps ==
    ASSUME Typed, NEW p \in Request, IssueBill(p)
    PROVE  Tables' /\ Requests'
<1> USE DEF Typed
<1>1. Requests'
  BY EndKeeps DEF IssueBill
<1>2. CASE UNCHANGED <<bills, payments, years, receipts>>
  BY <1>1, <1>2, TablesUnchanged
<1>3. ASSUME NEW b \in Bill, NEW x \in Payment \cup {None}, Issues(p, b, x) PROVE Tables'
  <2>1. RequestOK(req[p]) /\ req[p] \in RequestType /\ req[p].year \in Year /\ req[p].party \in Party
    BY DEF IssueBill, Requests, RequestOK
  <2>2. bills' \in [Bill -> BillType]
    BY <1>3, <2>1 DEF Issues, Tables, BillType, RequestType
  <2>3. payments' \in [Payment -> PaymentType]
    BY <1>3, <2>1 DEF Issues, Tables, PaymentType, RequestType, Recorded
  <2>4. years' \in [Year -> Nat] /\ receipts' \in Nat
    BY <1>3, <2>1 DEF Issues, Tables, RequestType
  <2>5. \A c \in Bill : BillOK(c)'
    BY <1>3, <2>1 DEF Issues, Tables, BillOK
  <2> QED BY <2>2, <2>3, <2>4, <2>5 DEF Tables
<1> QED BY <1>1, <1>2, <1>3, IssueCases

LEMMA InsertKeeps ==
    ASSUME Typed, NEW p \in Request, InsertPayment(p)
    PROVE  Tables' /\ Requests'
<1> USE DEF Typed
<1>1. Requests'
  BY EndKeeps DEF InsertPayment
<1>2. req[p] \in RequestType
  BY DEF Requests
<1>3. Tables'
  BY <1>2 DEF InsertPayment, Tables, BillOK, PaymentType, RequestType, Recorded, Unrecorded
<1> QED BY <1>1, <1>3

LEMMA CancelKeeps ==
    ASSUME Typed, NEW p \in Request, CancelBill(p)
    PROVE  Tables' /\ Requests'
<1> USE DEF Typed
<1>1. Requests'
  BY EndKeeps DEF CancelBill
<1>2. req[p].bill \in Bill
  BY DEF CancelBill, Requests, RequestOK
<1>3. bills' \in [Bill -> BillType]
  BY <1>2 DEF CancelBill, Tables, BillType
<1>5. \A b \in Bill : BillOK(b)'
  <2> SUFFICES ASSUME NEW b \in Bill PROVE BillOK(b)'
    OBVIOUS
  <2>1. CASE b = req[p].bill
    <3>1. BillOK(b) /\ bills[b].status # "absent"
      BY <2>1, <1>2 DEF Tables, CancelBill, Existing, Requests, RequestOK
    <3> QED BY <2>1, <3>1 DEF CancelBill, Tables, BillOK
  <2>2. CASE b # req[p].bill
    BY <2>2 DEF CancelBill, Tables, BillOK
  <2> QED BY <2>1, <2>2
<1>4. payments' \in [Payment -> PaymentType]
  BY DEF CancelBill, Tables, PaymentType
<1> QED BY <1>1, <1>3, <1>4, <1>5 DEF CancelBill, Tables

LEMMA EditsKeep ==
    ASSUME Typed,
           \/ \E b \in Bill : UpdateBill(b)
           \/ \E x \in Payment : UpdatePayment(x) \/ DeletePayment(x)
    PROVE  Tables' /\ Requests'
<1> USE DEF Typed
<1>1. Requests'
  BY DEF UpdateBill, UpdatePayment, DeletePayment, Requests
<1>2. ASSUME NEW b \in Bill, UpdateBill(b) PROVE Tables'
  BY <1>2, LedgerAssumption DEF UpdateBill, Tables, BillType, BillOK
<1>3. ASSUME NEW x \in Payment, UpdatePayment(x) \/ DeletePayment(x) PROVE Tables'
  BY <1>3, LedgerAssumption DEF UpdatePayment, DeletePayment, Tables, PaymentType, BillOK
<1> QED BY <1>1, <1>2, <1>3

LEMMA BreakKeeps ==
    ASSUME Requests, NEW p \in Request, BreakDeadlock(p)
    PROVE  /\ Requests' /\ UNCHANGED <<bills, payments, years, receipts>>
           /\ \A r \in Request : req'[r] = IF r = p THEN Idle ELSE req[r]
BY EndKeeps DEF BreakDeadlock

(* A request that has just started. *)
StartedAs(p, op) ==
    /\ req'[p].op = op /\ req'[p].rows = {}
    /\ \A q \in Request \ {p} : req'[q] = req[q]

(* recordPayment for an event or a client begins with no payment in hand. *)
LEMMA RecordStarts ==
    ASSUME Requests, NEW p \in Request, NEW a \in Party, StartRecord(p, a)
    PROVE  StartedAs(p, "record")
<1>1. PICK amount \in Amount, b \in Bill \cup {None} :
        Goto(p, [Idle EXCEPT !.op = "record", !.pc = "receipt", !.bill = b, !.party = a,
                             !.amount = amount])
  BY DEF StartRecord, Owing
<1> DEFINE k == [Idle EXCEPT !.op = "record", !.pc = "receipt", !.bill = b, !.party = a,
                             !.amount = amount]
<1>2. k.op = "record" /\ k.rows = {}
  BY DEF Idle
<1>3. req' = [req EXCEPT ![p] = k]
  BY <1>1 DEF Goto
<1> HIDE DEF k
<1> QED BY <1>2, <1>3 DEF Requests, StartedAs

(* So does createBill. *)
LEMMA CreateStarts ==
    ASSUME Requests, NEW p \in Request, NEW a \in Party, NEW y \in Year, StartCreateBill(p, a, y)
    PROVE  StartedAs(p, "createBill")
<1>1. PICK total \in Total, amount \in Amount \cup {0} :
        Goto(p, [Idle EXCEPT !.op = "createBill", !.pc = "read", !.party = a, !.year = y,
                             !.total = total, !.amount = amount, !.number = years[y] + 1])
  BY DEF StartCreateBill
<1> DEFINE k == [Idle EXCEPT !.op = "createBill", !.pc = "read", !.party = a, !.year = y,
                             !.total = total, !.amount = amount, !.number = years[y] + 1]
<1>2. k.op = "createBill" /\ k.rows = {}
  BY DEF Idle
<1>3. req' = [req EXCEPT ![p] = k]
  BY <1>1 DEF Goto
<1> HIDE DEF k
<1> QED BY <1>2, <1>3 DEF Requests, StartedAs

(* A bill that was made stays one, cancelled or not.                         *)
LEMMA MadeStays ==
    ASSUME Typed, [Next]_vars
    PROVE  \A b \in Bill : bills[b].status # "absent" => bills'[b].status # "absent"
<1> USE DEF Typed
<1>1. ASSUME NEW p \in Request, Starts(p) \/ Works(p) \/ Fails(p),
             NEW b \in Bill, bills[b].status # "absent"
      PROVE  bills'[b].status # "absent"
  <2>1. CASE Starts(p) \/ Fails(p) \/ ReadAdvances(p) \/ AttachAdvance(p) \/ TakeReceipt(p)
             \/ InsertPayment(p) \/ BreakDeadlock(p)
    BY <1>1, <2>1, StartsTouchNoTable DEF Fails, ReadAdvances, AttachAdvance, TakeReceipt,
       InsertPayment, BreakDeadlock
  <2>2. CASE IssueBill(p)
    BY <1>1, <2>2, IssueCases DEF Issues, Tables
  <2>3. CASE CancelBill(p)
    BY <1>1, <2>3 DEF CancelBill, Tables, BillType
  <2> QED BY <1>1, <2>1, <2>2, <2>3 DEF Works
<1>2. ASSUME NEW c \in Bill, UpdateBill(c), NEW b \in Bill, bills[b].status # "absent"
      PROVE  bills'[b].status # "absent"
  BY <1>2 DEF UpdateBill, Tables, BillType
<1> QED BY <1>1, <1>2 DEF Next, vars, UpdatePayment, DeletePayment

(* A request goes on with the bill it has, ends, or begins to cancel a bill  *)
(* that was issued.                                                          *)
LEMMA ExistingStep ==
    ASSUME Typed, [Next]_vars, Requests'
    PROVE  Existing'
<1> USE DEF Typed
<1>1. \A b \in Bill : bills[b].status # "absent" => bills'[b].status # "absent"
  BY MadeStays
<1>2. ASSUME NEW r \in Request, req'[r].op = "cancelBill"
      PROVE  \/ req[r].op = "cancelBill" /\ req'[r].bill = req[r].bill
             \/ bills[req'[r].bill].status = "issued"
  <2>1. Idle.op # "cancelBill"
    BY DEF Idle
  <2>2. ASSUME NEW p \in Request, Starts(p)
        PROVE  \/ req'[r] = req[r]
               \/ req'[r].op # "cancelBill"
               \/ bills[req'[r].bill].status = "issued"
    <3>1. CASE \E a \in Party : StartRecord(p, a) \/ \E y \in Year : StartCreateBill(p, a, y)
      <4>1. ASSUME NEW a \in Party, StartRecord(p, a)
            PROVE  StartedAs(p, "record")
        BY <4>1, RecordStarts
      <4>2. ASSUME NEW a \in Party, NEW y \in Year, StartCreateBill(p, a, y)
            PROVE  StartedAs(p, "createBill")
        BY <4>2, CreateStarts
      <4> QED BY <3>1, <4>1, <4>2 DEF StartedAs
    <3>2. CASE \E b \in Bill : StartRecordOnBill(p, b)
      BY <3>2 DEF StartRecordOnBill, Goto, Requests, Idle
    <3>3. CASE \E b \in Bill : StartCancelBill(p, b)
      BY <3>3 DEF StartCancelBill, Goto, Requests, Idle
    <3> QED BY <2>2, <3>1, <3>2, <3>3 DEF Starts
  <2>3. ASSUME NEW p \in Request, Works(p) \/ Fails(p)
        PROVE  \/ req'[r] = Idle
               \/ req'[r].op = req[r].op /\ req'[r].bill = req[r].bill
    <3>1. CASE IssueBill(p) \/ InsertPayment(p) \/ CancelBill(p) \/ BreakDeadlock(p) \/ Fails(p)
      <4>1. \A q \in Request : req'[q] = IF q = p THEN Idle ELSE req[q]
        BY <3>1, EndKeeps, FailKeeps DEF IssueBill, InsertPayment, CancelBill, BreakDeadlock
      <4> QED BY <4>1
    <3>2. CASE ReadAdvances(p) \/ AttachAdvance(p) \/ TakeReceipt(p)
      <4>1. req[p] \in RequestType
        BY DEF Requests
      <4>2. CASE ReadAdvances(p)
        BY <4>1, <4>2 DEF ReadAdvances, Goto, Requests, RequestType
      <4>3. CASE AttachAdvance(p)
        BY <4>1, <4>3 DEF AttachAdvance, Goto, Requests, RequestType
      <4>4. CASE TakeReceipt(p)
        BY <4>1, <4>4 DEF TakeReceipt, Goto, Requests, RequestType
      <4> QED BY <3>2, <4>2, <4>3, <4>4
    <3> QED BY <2>3, <3>1, <3>2 DEF Works
  <2> QED BY <1>2, <2>1, <2>2, <2>3 DEF Next, vars, UpdateBill, UpdatePayment, DeletePayment
<1>3. \A x \in Payment : payments[x].status # "absent" => payments'[x].status # "absent"
  <2>1. ASSUME NEW p \in Request, Starts(p) \/ Works(p) \/ Fails(p),
               NEW x \in Payment, payments[x].status # "absent"
        PROVE  payments'[x].status # "absent"
    <3>1. CASE Starts(p) \/ Fails(p) \/ ReadAdvances(p) \/ AttachAdvance(p) \/ TakeReceipt(p)
               \/ BreakDeadlock(p)
      BY <2>1, <3>1, StartsTouchNoTable DEF Fails, ReadAdvances, AttachAdvance, TakeReceipt,
         BreakDeadlock
    <3>2. CASE IssueBill(p)
      BY <2>1, <3>2, IssueCases DEF Issues, Tables, PaymentType, Unrecorded, Recorded
    <3>3. CASE InsertPayment(p)
      BY <2>1, <3>3 DEF InsertPayment, Tables, Unrecorded
    <3>4. CASE CancelBill(p)
      BY <2>1, <3>4 DEF CancelBill, Tables, PaymentType
    <3> QED BY <2>1, <3>1, <3>2, <3>3, <3>4 DEF Works
  <2>2. ASSUME NEW z \in Payment, UpdatePayment(z) \/ DeletePayment(z),
               NEW x \in Payment, payments[x].status # "absent"
        PROVE  payments'[x].status # "absent"
    BY <2>2 DEF UpdatePayment, DeletePayment, Tables, PaymentType
  <2> QED BY <2>1, <2>2 DEF Next, vars, UpdateBill
<1>4. ASSUME NEW r \in Request, NEW x \in req'[r].rows
      PROVE  x \in Payment /\ payments[x].status # "absent"
  <2>1. Idle.rows = {}
    BY DEF Idle
  <2>2. req[r] \in RequestType /\ \A q \in Request : req[q].rows \subseteq Payment
    BY DEF Requests, RequestType
  <2>3. ASSUME NEW p \in Request, Starts(p)
        PROVE  req'[r] = req[r] \/ req'[r].rows = {}
    <3>1. CASE \E a \in Party : StartRecord(p, a) \/ \E y \in Year : StartCreateBill(p, a, y)
      <4>1. ASSUME NEW a \in Party, StartRecord(p, a)
            PROVE  StartedAs(p, "record")
        BY <4>1, RecordStarts
      <4>2. ASSUME NEW a \in Party, NEW y \in Year, StartCreateBill(p, a, y)
            PROVE  StartedAs(p, "createBill")
        BY <4>2, CreateStarts
      <4> QED BY <3>1, <4>1, <4>2 DEF StartedAs
    <3>2. CASE \E b \in Bill : StartRecordOnBill(p, b) \/ StartCancelBill(p, b)
      BY <3>2 DEF StartRecordOnBill, StartCancelBill, Goto, Requests, Idle
    <3> QED BY <2>3, <3>1, <3>2 DEF Starts
  <2>4. ASSUME NEW p \in Request, Works(p) \/ Fails(p)
        PROVE  req'[r].rows \subseteq req[r].rows \/ req'[r].rows \subseteq Free(req[r].party)
    <3>1. CASE IssueBill(p) \/ InsertPayment(p) \/ CancelBill(p) \/ BreakDeadlock(p) \/ Fails(p)
      <4>1. \A q \in Request : req'[q] = IF q = p THEN Idle ELSE req[q]
        BY <3>1, EndKeeps, FailKeeps DEF IssueBill, InsertPayment, CancelBill, BreakDeadlock
      <4> QED BY <2>1, <4>1
    <3>2. CASE ReadAdvances(p)
      BY <2>2, <3>2 DEF ReadAdvances, Goto, Requests, RequestType
    <3>3. CASE AttachAdvance(p)
      BY <2>2, <3>3 DEF AttachAdvance, Goto, Requests, RequestType
    <3>4. CASE TakeReceipt(p)
      BY <2>2, <3>4 DEF TakeReceipt, Goto, Requests, RequestType
    <3> QED BY <2>4, <3>1, <3>2, <3>3, <3>4 DEF Works
  <2>5. x \in req[r].rows \/ x \in Free(req[r].party)
    BY <2>1, <2>3, <2>4 DEF Next, vars, UpdateBill, UpdatePayment, DeletePayment
  <2> QED BY <2>2, <2>5 DEF Existing, Free, Live
<1> QED BY <1>1, <1>2, <1>3, <1>4 DEF Existing, Requests, RequestOK

LEMMA TypedStep ==
    ASSUME Typed, [Next]_vars
    PROVE  Typed'
<1>1. ASSUME NEW p \in Request, Starts(p) PROVE Tables' /\ Requests'
  BY <1>1, StartsKeep, StartsTouchNoTable, TablesUnchanged DEF Typed
<1>2. ASSUME NEW p \in Request, Works(p) PROVE Tables' /\ Requests'
  BY <1>2, ReadKeeps, AttachKeeps, IssueKeeps, TakeKeeps, InsertKeeps, CancelKeeps, BreakKeeps,
     TablesUnchanged DEF Works, Typed
<1>3. ASSUME NEW p \in Request, Fails(p) PROVE Tables' /\ Requests'
  BY <1>3, FailKeeps, TablesUnchanged DEF Typed
<1>4. ASSUME UNCHANGED vars PROVE Tables' /\ Requests'
  <2>1. Tables'
    BY <1>4, TablesUnchanged DEF vars, Typed
  <2>2. Requests'
    BY <1>4 DEF vars, Typed, Requests
  <2> QED BY <2>1, <2>2
<1> QED BY <1>1, <1>2, <1>3, <1>4, EditsKeep, ExistingStep DEF Next, Typed

LEMMA TypedInit == Init => Typed
<1> SUFFICES ASSUME Init PROVE Typed
  OBVIOUS
<1>1. Requests
  BY IdleOK DEF Init, Requests, RequestOK
<1>2. Tables
  BY DEF Init, Tables, NoBill, NoPayment, BillType, PaymentType, BillOK
<1>3. Existing
  BY DEF Init, Existing, Idle
<1> QED BY <1>1, <1>2, <1>3 DEF Typed

(* The types of bills, payments, counters and requests (bills.ts and         *)
(* payments.ts) hold for any number of each.                                 *)
THEOREM LedgerTypes == Spec => []TypeOK
<1>1. Typed => TypeOK
  BY DEF Typed, Tables, Requests, RequestOK, TypeOK
<1> QED BY <1>1, TypedInit, TypedStep, PTL DEF Spec

-----------------------------------------------------------------------------
(* Running numbers                                                           *)

(* No number is given or taken back. *)
SameNumbers ==
    /\ \A b \in Bill : /\ bills'[b].status = "absent" <=> bills[b].status = "absent"
                       /\ bills'[b].year = bills[b].year /\ bills'[b].seq = bills[b].seq
    /\ \A x \in Payment : /\ payments'[x].status = "absent" <=> payments[x].status = "absent"
                          /\ payments'[x].number = payments[x].number
    /\ UNCHANGED <<years, receipts>>

LEMMA SameKeeps ==
    ASSUME BillNumbers, ReceiptNumbers, SameNumbers
    PROVE  BillNumbers' /\ ReceiptNumbers'
<1>1. Made' = Made /\ Receipted' = Receipted
  BY DEF SameNumbers, Made, Receipted, Unissued, Unrecorded
<1>2. BillNumbers'
  <2>1. \A b \in Made : b \in Bill
    BY DEF Made
  <2> QED BY <1>1, <2>1 DEF BillNumbers, SameNumbers
<1>3. ReceiptNumbers'
  <2>1. \A x \in Receipted : x \in Payment
    BY DEF Receipted
  <2> QED BY <1>1, <2>1 DEF ReceiptNumbers, SameNumbers
<1> QED BY <1>2, <1>3

LEMMA UntouchedIsSame ==
    ASSUME UNCHANGED <<bills, payments, years, receipts>>
    PROVE  SameNumbers
BY DEF SameNumbers

(* A request that ends gives its number back, or has used it. *)
LEMMA TakenEnds ==
    ASSUME Taken, NEW p \in Request, \A r \in Request : req'[r] = IF r = p THEN Idle ELSE req[r],
           \A r \in Request : r # p /\ req[r].op = "createBill" =>
               years'[req[r].year] = years[req[r].year],
           \A r \in Request : r # p /\ req[r].pc = "insert" => receipts' = receipts
    PROVE  Taken'
BY DEF Taken, Idle

(* A request that goes on with the number it has, or begins without one. *)
LEMMA TakenGoesOn ==
    ASSUME Taken, NEW p \in Request, NEW k, \A r \in Request : req'[r] = IF r = p THEN k ELSE req[r],
           UNCHANGED <<years, receipts>>,
           k.op = "createBill" => /\ req[p].op = "createBill" /\ k.year = req[p].year
                                  /\ k.number = req[p].number,
           k.pc # "insert"
    PROVE  Taken'
BY DEF Taken

LEMMA NumbersStart ==
    ASSUME Typed, Numbered, NEW p \in Request, Starts(p)
    PROVE  Numbered'
<1> USE DEF Typed
<1>1. BillNumbers' /\ ReceiptNumbers' /\ UNCHANGED <<years, receipts>>
  BY StartsTouchNoTable, UntouchedIsSame, SameKeeps DEF Numbered
<1>2. ASSUME NEW k, Goto(p, k), k.op # "createBill", k.pc # "insert" PROVE Taken'
  <2>1. \A r \in Request : req'[r] = IF r = p THEN k ELSE req[r]
    BY <1>2 DEF Goto, Requests
  <2> QED BY <2>1, <1>1, <1>2, TakenGoesOn DEF Numbered
<1>3. ASSUME NEW a \in Party, StartRecord(p, a) PROVE Taken'
  BY <1>2, <1>3 DEF StartRecord, Idle
<1>4. ASSUME NEW b \in Bill, StartRecordOnBill(p, b) \/ StartCancelBill(p, b) PROVE Taken'
  BY <1>2, <1>4 DEF StartRecordOnBill, StartCancelBill, Idle
<1>5. ASSUME NEW a \in Party, NEW y \in Year, StartCreateBill(p, a, y) PROVE Taken'
  <2>1. PICK t, m : Goto(p, [Idle EXCEPT !.op = "createBill", !.pc = "read", !.party = a,
                                !.year = y, !.total = t, !.amount = m, !.number = years[y] + 1])
    BY <1>5 DEF StartCreateBill
  <2> DEFINE k == [Idle EXCEPT !.op = "createBill", !.pc = "read", !.party = a,
                                !.year = y, !.total = t, !.amount = m, !.number = years[y] + 1]
  <2>2. k.op = "createBill" /\ k.pc = "read" /\ k.year = y /\ k.number = years[y] + 1
    BY DEF Idle
  <2>3. \A r \in Request : req'[r] = IF r = p THEN k ELSE req[r]
    BY <2>1 DEF Goto, Requests
  <2>4. \A r \in Request : ~(req[r].op = "createBill" /\ req[r].year = y)
    BY <1>5 DEF StartCreateBill, TakersOf
  <2> HIDE DEF k
  <2> QED BY <1>1, <2>2, <2>3, <2>4 DEF Numbered, Taken
<1> QED BY <1>1, <1>3, <1>4, <1>5 DEF Starts, Numbered

LEMMA NumbersRead ==
    ASSUME Typed, Numbered, NEW p \in Request,
           ReadAdvances(p) \/ AttachAdvance(p) \/ TakeReceipt(p)
    PROVE  Numbered'
<1> USE DEF Typed
<1>1. BillNumbers' /\ ReceiptNumbers' /\ UNCHANGED <<years, receipts>>
  BY UntouchedIsSame, SameKeeps DEF Numbered, ReadAdvances, AttachAdvance, TakeReceipt
<1>2. req[p] \in RequestType /\ RequestOK(req[p])
  BY DEF Requests
<1>4. CASE ReadAdvances(p)
  <2>1. PICK S : Goto(p, [req[p] EXCEPT !.pc = "attach", !.rows = S])
    BY <1>4 DEF ReadAdvances
  <2> DEFINE k == [req[p] EXCEPT !.pc = "attach", !.rows = S]
  <2>2. k.op = req[p].op /\ k.year = req[p].year /\ k.number = req[p].number /\ k.pc = "attach"
    BY <1>2 DEF RequestType
  <2>3. \A r \in Request : req'[r] = IF r = p THEN k ELSE req[r]
    BY <2>1 DEF Goto, Requests
  <2> HIDE DEF k
  <2> QED BY <1>1, <2>2, <2>3, TakenGoesOn DEF Numbered
<1>5. CASE AttachAdvance(p)
  <2>1. PICK x : Goto(p, [req[p] EXCEPT !.held = @ \cup {x}])
    BY <1>5 DEF AttachAdvance
  <2>2. req[p].pc = "attach"
    BY <1>5 DEF AttachAdvance
  <2> DEFINE k == [req[p] EXCEPT !.held = @ \cup {x}]
  <2>3. k.op = req[p].op /\ k.year = req[p].year /\ k.number = req[p].number /\ k.pc = "attach"
    BY <1>2, <2>2 DEF RequestType
  <2>4. \A r \in Request : req'[r] = IF r = p THEN k ELSE req[r]
    BY <2>1 DEF Goto, Requests
  <2> HIDE DEF k
  <2> QED BY <1>1, <2>3, <2>4, TakenGoesOn DEF Numbered
<1>6. CASE TakeReceipt(p)
  <2> DEFINE k == [req[p] EXCEPT !.pc = "insert", !.number = receipts + 1]
  <2>1. k.op = req[p].op /\ k.op # "createBill" /\ k.pc = "insert" /\ k.number = receipts + 1
    BY <1>2, <1>6 DEF RequestType, RequestOK, TakeReceipt
  <2>2. \A r \in Request : req'[r] = IF r = p THEN k ELSE req[r]
    BY <1>6 DEF TakeReceipt, Goto, Requests
  <2>3. \A r \in Request : req[r].pc # "insert"
    BY <1>6 DEF TakeReceipt, ReceiptTakers
  <2> HIDE DEF k
  <2> QED BY <1>1, <2>1, <2>2, <2>3 DEF Numbered, Taken
<1> QED BY <1>1, <1>4, <1>5, <1>6 DEF Numbered

LEMMA SamePayments ==
    ASSUME ReceiptNumbers, receipts' = receipts,
           \A z \in Payment : /\ payments'[z].status = "absent" <=> payments[z].status = "absent"
                              /\ payments'[z].number = payments[z].number
    PROVE  ReceiptNumbers'
<1>1. Receipted' = Receipted /\ \A x \in Receipted : x \in Payment
  BY DEF Receipted, Unrecorded
<1> QED BY <1>1 DEF ReceiptNumbers

(* A payment that gets the next receipt number. *)
LEMMA NewReceipt ==
    ASSUME ReceiptNumbers, receipts \in Nat, NEW x \in Unrecorded, receipts' = receipts + 1,
           \A z \in Payment :
               IF z = x THEN payments'[z].status = "live" /\ payments'[z].number = receipts + 1
               ELSE /\ payments'[z].status = payments[z].status
                    /\ payments'[z].number = payments[z].number
    PROVE  ReceiptNumbers'
<1>1. /\ x \notin Receipted /\ Receipted' = Receipted \cup {x} /\ Receipted \subseteq Payment
      /\ payments'[x].number = receipts + 1
      /\ \A z \in Receipted : payments'[z].number = payments[z].number
  BY DEF Receipted, Unrecorded
<1>2. \A i \in 1 .. receipts + 1 : i = receipts + 1 \/ i \in 1 .. receipts
  OBVIOUS
<1>3. \A z \in Receipted : payments[z].number \in 1 .. receipts
  BY DEF ReceiptNumbers
<1>4. \A z, w \in Receipted' : payments'[z].number = payments'[w].number => z = w
  BY <1>1, <1>3 DEF ReceiptNumbers
<1>5. \A z \in Receipted' : payments'[z].number \in 1 .. receipts'
  BY <1>1, <1>3
<1>6. \A i \in 1 .. receipts' : \E z \in Receipted' : payments'[z].number = i
  <2> SUFFICES ASSUME NEW i \in 1 .. receipts + 1
               PROVE  \E z \in Receipted' : payments'[z].number = i
    OBVIOUS
  <2>1. CASE i = receipts + 1
    BY <1>1, <2>1
  <2>2. CASE i \in 1 .. receipts
    <3>1. PICK z \in Receipted : payments[z].number = i
      BY <2>2 DEF ReceiptNumbers
    <3> QED BY <1>1, <3>1
  <2> QED BY <1>2, <2>1, <2>2
<1> QED BY <1>4, <1>5, <1>6 DEF ReceiptNumbers

LEMMA NumbersIssue ==
    ASSUME Typed, Numbered, NEW p \in Request, IssueBill(p)
    PROVE  Numbered'
<1> USE DEF Typed, Numbered
<1>1. \A r \in Request : req'[r] = IF r = p THEN Idle ELSE req[r]
  BY EndKeeps DEF IssueBill
<1>2. req[p].op = "createBill" /\ req[p].year \in Year /\ req[p].number = years[req[p].year] + 1
  BY DEF IssueBill, Requests, RequestOK, Taken
<1>3. CASE UNCHANGED <<bills, payments, years, receipts>>
  BY <1>1, <1>3, UntouchedIsSame, SameKeeps, TakenEnds
<1>4. ASSUME NEW b \in Bill, NEW x \in Payment \cup {None}, Issues(p, b, x)
      PROVE  Numbered'
  <2> DEFINE y == req[p].year
             n == years[y] + 1
  <2>1. \A z \in Year : years'[z] = IF z = y THEN n ELSE years[z]
    BY <1>2, <1>4 DEF Issues, Tables
  <2>2. Taken'
    <3>1. \A r \in Request : r # p /\ req[r].op = "createBill" =>
             req[r].year \in Year /\ req[r].year # y
      BY <1>2 DEF Taken, Requests, RequestOK
    <3>2. \A r \in Request : req[r].pc = "insert" => receipts' = receipts
      BY <1>4 DEF Issues, ReceiptTakers
    <3> QED BY <1>1, <2>1, <3>1, <3>2, TakenEnds
  <2>3. BillNumbers'
    <3>1. \A c \in Bill : IF c = b THEN /\ bills'[c].status = "issued"
                                        /\ bills'[c].year = y /\ bills'[c].seq = n
                          ELSE bills'[c] = bills[c]
      BY <1>2, <1>4 DEF Issues, Tables
    <3>2. b \notin Made /\ Made' = Made \cup {b} /\ Made \subseteq Bill
      BY <1>4, <3>1 DEF Issues, Made, Unissued
    <3>3. \A c \in Made : bills[c].year \in Year /\ bills[c].seq \in 1 .. years[bills[c].year]
      BY <3>2 DEF BillNumbers, Tables, BillOK, Made, Unissued
    <3>4. y \in Year /\ years[y] \in Nat /\ \A z \in Year : years[z] \in Nat
      BY <1>2 DEF Tables
    <3> HIDE DEF y, n
    <3>5. n = years[y] + 1
      BY DEF n
    <3>6. \A c, d \in Made' : bills'[c].year = bills'[d].year /\ bills'[c].seq = bills'[d].seq => c = d
      BY <3>1, <3>2, <3>3, <3>4, <3>5 DEF BillNumbers
    <3>7. \A c \in Made' : bills'[c].seq \in 1 .. years'[bills'[c].year]
      BY <2>1, <3>1, <3>2, <3>3, <3>4, <3>5
    <3>8. \A z \in Year : \A i \in 1 .. years'[z] : \E c \in Made' : bills'[c].year = z /\ bills'[c].seq = i
      <4> SUFFICES ASSUME NEW z \in Year, NEW i \in 1 .. years'[z]
                   PROVE  \E c \in Made' : bills'[c].year = z /\ bills'[c].seq = i
        OBVIOUS
      <4>1. CASE z = y /\ i = n
        BY <3>1, <3>2, <4>1
      <4>2. CASE ~(z = y /\ i = n)
        <5>1. i \in 1 .. years[z]
          BY <2>1, <3>4, <3>5, <4>2
        <5>2. PICK c \in Made : bills[c].year = z /\ bills[c].seq = i
          BY <5>1 DEF BillNumbers
        <5> QED BY <3>1, <3>2, <5>2
      <4> QED BY <4>1, <4>2
    <3> QED BY <3>6, <3>7, <3>8 DEF BillNumbers
  <2>4. CASE x = None
    <3>1. /\ receipts' = receipts
          /\ \A z \in Payment : /\ payments'[z].status = "absent" <=> payments[z].status = "absent"
                                /\ payments'[z].number = payments[z].number
      BY <1>4, <2>4, LedgerAssumption DEF Issues, Tables, PaymentType, Recorded
    <3> QED BY <2>2, <2>3, <3>1, SamePayments
  <2>5. CASE x # None
    <3>1. x \in Unrecorded /\ receipts' = receipts + 1 /\ x \notin req[p].held
      BY <1>4, <2>5 DEF Issues, Existing, Unrecorded, Requests, RequestOK
    <3>2. \A z \in Payment : IF z = x THEN payments'[z].status = "live" /\ payments'[z].number = receipts + 1
                             ELSE /\ payments'[z].status = payments[z].status
                                  /\ payments'[z].number = payments[z].number
      BY <1>4, <2>5, <3>1 DEF Issues, Tables, PaymentType, Recorded
    <3>3. ReceiptNumbers'
      BY <3>1, <3>2, NewReceipt DEF Tables
    <3> QED BY <2>2, <2>3, <3>3
  <2> QED BY <2>4, <2>5
<1> QED BY <1>3, <1>4, IssueCases

LEMMA NumbersInsert ==
    ASSUME Typed, Numbered, NEW p \in Request, InsertPayment(p)
    PROVE  Numbered'
<1> USE DEF Typed, Numbered
<1>1. \A r \in Request : req'[r] = IF r = p THEN Idle ELSE req[r]
  BY EndKeeps DEF InsertPayment
<1>2. req[p].pc = "insert" /\ req[p].number = receipts + 1
  BY DEF InsertPayment, Taken
<1>3. PICK x \in Unrecorded :
         payments' = [payments EXCEPT ![x] =
             Recorded(req[p].bill, req[p].party, req[p].amount, req[p].number)]
  BY DEF InsertPayment
<1>4. receipts' = receipts + 1 /\ UNCHANGED <<bills, years>>
  BY <1>2 DEF InsertPayment
<1>5. \A z \in Payment : IF z = x THEN payments'[z].status = "live" /\ payments'[z].number = receipts + 1
                         ELSE payments'[z] = payments[z]
  BY <1>2, <1>3 DEF Tables, Recorded, Unrecorded
<1>6. ReceiptNumbers'
  BY <1>4, <1>5, NewReceipt DEF Tables
<1>7. BillNumbers'
  <2>1. Made' = Made
    BY <1>4 DEF Made, Unissued
  <2> QED BY <1>4, <2>1 DEF BillNumbers
<1>8. Taken'
  <2>1. \A r \in Request : r # p => req[r].pc # "insert"
    BY <1>2 DEF Taken
  <2> QED BY <1>1, <1>4, <2>1, TakenEnds
<1> QED BY <1>6, <1>7, <1>8

LEMMA NumbersCancel ==
    ASSUME Typed, Numbered, NEW p \in Request, CancelBill(p)
    PROVE  Numbered'
<1> USE DEF Typed, Numbered
<1>1. \A r \in Request : req'[r] = IF r = p THEN Idle ELSE req[r]
  BY EndKeeps DEF CancelBill
<1>2. req[p].bill \in Bill /\ bills[req[p].bill].status # "absent"
  BY DEF CancelBill, Requests, RequestOK, Existing
<1>3. SameNumbers
  BY <1>2 DEF CancelBill, SameNumbers, Tables, BillType, PaymentType
<1> QED BY <1>1, <1>3, SameKeeps, TakenEnds DEF SameNumbers

LEMMA NumbersEdit ==
    ASSUME Typed, Numbered,
           \/ \E b \in Bill : UpdateBill(b)
           \/ \E x \in Payment : UpdatePayment(x) \/ DeletePayment(x)
    PROVE  Numbered'
<1> USE DEF Typed, Numbered
<1>1. SameNumbers
  <2>1. ASSUME NEW b \in Bill, UpdateBill(b) PROVE SameNumbers
    BY <2>1 DEF UpdateBill, SameNumbers, Tables, BillType
  <2>2. ASSUME NEW x \in Payment, UpdatePayment(x) \/ DeletePayment(x) PROVE SameNumbers
    BY <2>2 DEF UpdatePayment, DeletePayment, Live, SameNumbers, Tables, PaymentType
  <2> QED BY <2>1, <2>2
<1>2. UNCHANGED <<req, years, receipts>>
  BY DEF UpdateBill, UpdatePayment, DeletePayment
<1> QED BY <1>1, <1>2, SameKeeps DEF Taken

LEMMA NumbersRolledBack ==
    ASSUME Typed, Numbered, NEW p \in Request, Fails(p) \/ BreakDeadlock(p)
    PROVE  Numbered'
<1> USE DEF Typed, Numbered
<1>1. /\ UNCHANGED <<bills, payments, years, receipts>>
      /\ \A r \in Request : req'[r] = IF r = p THEN Idle ELSE req[r]
  BY FailKeeps, BreakKeeps
<1> QED BY <1>1, UntouchedIsSame, SameKeeps, TakenEnds

LEMMA NumbersStep ==
    ASSUME Typed, Numbered, [Next]_vars
    PROVE  Numbered'
<1>1. ASSUME NEW p \in Request, Works(p) PROVE Numbered'
  BY <1>1, NumbersRead, NumbersIssue, NumbersInsert, NumbersCancel, NumbersRolledBack DEF Works
<1>2. CASE UNCHANGED vars
  <2>1. UNCHANGED <<req, bills, payments, years, receipts>>
    BY <1>2 DEF vars
  <2> QED BY <2>1, UntouchedIsSame, SameKeeps DEF Numbered, Taken
<1> QED BY <1>1, <1>2, NumbersStart, NumbersRolledBack, NumbersEdit DEF Next

LEMMA NumbersInit == Init => Numbered
<1> SUFFICES ASSUME Init PROVE Numbered
  OBVIOUS
<1>1. Made = {} /\ Receipted = {}
  BY DEF Init, Made, Receipted, Unissued, Unrecorded, NoBill, NoPayment
<1>2. Taken
  BY DEF Init, Taken, Idle
<1> QED BY <1>1, <1>2 DEF Numbered, BillNumbers, ReceiptNumbers, Init

(* The bills of a year, and the receipts, are numbered without a gap or a    *)
(* double (nextNumber and its callers), whatever is done at once, refused or *)
(* fails, for any number of requests and years.                              *)
THEOREM NoGapsNoDoubles == Spec => []NumbersWithoutGaps
<1>1. Typed /\ Numbered => NumbersWithoutGaps
  <2> SUFFICES ASSUME Typed, Numbered PROVE NumbersWithoutGaps
    OBVIOUS
  <2>1. ASSUME NEW y \in Year
        PROVE  {bills[b].seq : b \in {c \in Made : bills[c].year = y}} = 1 .. years[y]
    BY <2>1 DEF Numbered, BillNumbers
  <2>2. {payments[x].number : x \in Receipted} = 1 .. receipts
    BY DEF Numbered, ReceiptNumbers
  <2> QED BY <2>1, <2>2 DEF Numbered, BillNumbers, ReceiptNumbers, NumbersWithoutGaps
<1> QED BY <1>1, TypedInit, TypedStep, NumbersInit, NumbersStep, PTL DEF Spec

-----------------------------------------------------------------------------
(* Where the money is                                                        *)

(* What BillLedger has to be given to implement Accounts. *)
KeepsApart ==
    /\ {"record", "cancelBill"} \in Apart
    /\ {"createBill"} \in Apart \/ \A y, z \in Year : y = z

(* Rows that were not made are blank. *)
Blank ==
    /\ \A b \in Bill : bills[b].status = "absent" => bills[b].party = None
    /\ \A x \in Payment : payments[x].status = "absent" =>
          payments[x].bill = None /\ payments[x].party = None

(* Money that is on a bill is on an issued one of its own party. *)
OnIssued ==
    \A x \in Payment : Live(x) /\ payments[x].bill # None =>
        /\ bills[payments[x].bill].status = "issued"
        /\ bills[payments[x].bill].party = payments[x].party

Locking(k) == k.op \in {"recordOnBill", "cancelBill"}

(* One request holds a bill, and handlers that are kept apart are. *)
Exclusive ==
    /\ \A p, r \in Request : Locking(req[p]) /\ Locking(req[r]) /\ req[p].bill = req[r].bill => p = r
    /\ \A p, r \in Request : p # r /\ req[p].op # "none" /\ req[r].op # "none" =>
          {req[p].op, req[r].op} \notin Apart

(* What a request found is still so. *)
Found ==
    /\ \A p \in Request : req[p].op \in {"recordOnBill", "record"} /\ req[p].bill # None =>
          bills[req[p].bill].status = "issued" /\ bills[req[p].bill].party = req[p].party
    /\ \A p \in Request : req[p].op = "cancelBill" => bills[req[p].bill].status = "issued"
    /\ \A p \in Request : \A x \in req[p].rows :
          payments[x].bill = None /\ payments[x].party = req[p].party

Placed == Blank /\ OnIssued /\ Exclusive /\ Found

(* A request that ends disturbs nobody. *)
LEMMA ExclusiveEnds ==
    ASSUME Exclusive, NEW p \in Request, \A r \in Request : req'[r] = IF r = p THEN Idle ELSE req[r]
    PROVE  Exclusive'
BY DEF Exclusive, Locking, Idle

(* A request that begins, when nobody locks its bill and its handler may.    *)
LEMMA ExclusiveBegins ==
    ASSUME Exclusive, NEW p \in Request, NEW k, \A r \in Request : req'[r] = IF r = p THEN k ELSE req[r],
           Clear(k.op), Locking(k) => LockersOf(k.bill) = {}
    PROVE  Exclusive'
<1>1. \A r \in Request : r # p /\ req[r].op # "none" =>
         {k.op, req[r].op} \notin Apart /\ {req[r].op, k.op} \notin Apart
  <2>1. \A a, b : {a, b} = {b, a}
    OBVIOUS
  <2> QED BY <2>1 DEF Clear
<1>2. \A r \in Request : Locking(k) /\ Locking(req[r]) => req[r].bill # k.bill
  BY DEF Locking, LockersOf
<1> QED BY <1>1, <1>2 DEF Exclusive

(* A request that goes on. *)
LEMMA ExclusiveGoesOn ==
    ASSUME Exclusive, NEW p \in Request, NEW k, \A r \in Request : req'[r] = IF r = p THEN k ELSE req[r],
           k.op = req[p].op, k.bill = req[p].bill
    PROVE  Exclusive'
BY DEF Exclusive, Locking

LEMMA TablesPlaced ==
    ASSUME Blank, OnIssued, UNCHANGED <<bills, payments>>
    PROVE  Blank' /\ OnIssued'
BY DEF Blank, OnIssued, Live

LEMMA PlacedStart ==
    ASSUME Typed, Placed, NEW p \in Request, Starts(p)
    PROVE  Placed'
<1> USE DEF Typed, Placed
<1>1. Blank' /\ OnIssued' /\ UNCHANGED <<bills, payments>>
  BY StartsTouchNoTable, TablesPlaced
<1>2. ASSUME NEW k, Goto(p, k), Clear(k.op), Locking(k) => LockersOf(k.bill) = {},
             k.op \in {"recordOnBill", "record"} /\ k.bill # None =>
                 bills[k.bill].status = "issued" /\ bills[k.bill].party = k.party,
             k.op = "cancelBill" => bills[k.bill].status = "issued",
             k.rows = {}
      PROVE  Placed'
  <2>1. \A r \in Request : req'[r] = IF r = p THEN k ELSE req[r]
    BY <1>2 DEF Goto, Requests
  <2>2. Exclusive'
    BY <1>2, <2>1, ExclusiveBegins
  <2>3. Found'
    BY <1>1, <1>2, <2>1 DEF Found
  <2> QED BY <1>1, <2>2, <2>3
<1>3. ASSUME NEW a \in Party, StartRecord(p, a) PROVE Placed'
  <2>1. PICK m \in Amount, b \in Bill \cup {None} :
           /\ Goto(p, [Idle EXCEPT !.op = "record", !.pc = "receipt", !.bill = b, !.party = a, !.amount = m])
           /\ Clear("record")
           /\ b # None => bills[b].status = "issued" /\ bills[b].party = a
    BY <1>3, LedgerAssumption DEF StartRecord, Owing, MayStart
  <2> DEFINE k == [Idle EXCEPT !.op = "record", !.pc = "receipt", !.bill = b, !.party = a, !.amount = m]
  <2>2. k.op = "record" /\ k.bill = b /\ k.party = a /\ k.rows = {} /\ ~Locking(k)
    BY DEF Idle, Locking
  <2>3. Goto(p, k)
    BY <2>1
  <2> HIDE DEF k
  <2> QED BY <1>2, <2>1, <2>2, <2>3
<1>4. ASSUME NEW a \in Party, NEW y \in Year, StartCreateBill(p, a, y) PROVE Placed'
  <2>1. PICK t, m : /\ Goto(p, [Idle EXCEPT !.op = "createBill", !.pc = "read", !.party = a,
                                !.year = y, !.total = t, !.amount = m, !.number = years[y] + 1])
                    /\ Clear("createBill")
    BY <1>4 DEF StartCreateBill, MayStart
  <2> DEFINE k == [Idle EXCEPT !.op = "createBill", !.pc = "read", !.party = a,
                                !.year = y, !.total = t, !.amount = m, !.number = years[y] + 1]
  <2>2. k.op = "createBill" /\ k.rows = {} /\ ~Locking(k)
    BY DEF Idle, Locking
  <2>3. Goto(p, k)
    BY <2>1
  <2> HIDE DEF k
  <2> QED BY <1>2, <2>1, <2>2, <2>3
<1>5. ASSUME NEW b \in Bill, StartRecordOnBill(p, b) PROVE Placed'
  <2>1. PICK m : /\ Goto(p, [Idle EXCEPT !.op = "recordOnBill", !.pc = "receipt", !.bill = b,
                                         !.party = bills[b].party, !.amount = m])
                 /\ Clear("recordOnBill")
    BY <1>5 DEF StartRecordOnBill, MayStart
  <2> DEFINE k == [Idle EXCEPT !.op = "recordOnBill", !.pc = "receipt", !.bill = b,
                                         !.party = bills[b].party, !.amount = m]
  <2>2. k.op = "recordOnBill" /\ k.bill = b /\ k.party = bills[b].party /\ k.rows = {}
    BY DEF Idle
  <2>3. Goto(p, k) /\ LockersOf(b) = {} /\ bills[b].status = "issued"
    BY <1>5, <2>1 DEF StartRecordOnBill
  <2> HIDE DEF k
  <2> QED BY <1>2, <2>1, <2>2, <2>3
<1>6. ASSUME NEW b \in Bill, StartCancelBill(p, b) PROVE Placed'
  <2> DEFINE k == [Idle EXCEPT !.op = "cancelBill", !.pc = "cancel", !.bill = b]
  <2>1. k.op = "cancelBill" /\ k.bill = b /\ k.rows = {}
    BY DEF Idle
  <2>2. Goto(p, k) /\ LockersOf(b) = {} /\ bills[b].status = "issued" /\ Clear("cancelBill")
    BY <1>6 DEF StartCancelBill, MayStart
  <2> HIDE DEF k
  <2> QED BY <1>2, <2>1, <2>2
<1> QED BY <1>3, <1>4, <1>5, <1>6 DEF Starts

LEMMA PlacedRead ==
    ASSUME Typed, Placed, NEW p \in Request,
           ReadAdvances(p) \/ AttachAdvance(p) \/ TakeReceipt(p)
    PROVE  Placed' /\ UNCHANGED <<bills, payments>>
<1> USE DEF Typed, Placed
<1>1. Blank' /\ OnIssued' /\ UNCHANGED <<bills, payments>>
  BY TablesPlaced DEF ReadAdvances, AttachAdvance, TakeReceipt
<1>2. req[p] \in RequestType /\ RequestOK(req[p])
  BY DEF Requests
<1>3. ASSUME NEW k, Goto(p, k), k.op = req[p].op, k.bill = req[p].bill, k.party = req[p].party,
             \A x \in k.rows : x \in req[p].rows \/ x \in Free(req[p].party)
      PROVE  Placed'
  <2>1. \A r \in Request : req'[r] = IF r = p THEN k ELSE req[r]
    BY <1>3 DEF Goto, Requests
  <2>2. Exclusive'
    BY <1>3, <2>1, ExclusiveGoesOn
  <2>3. \A x \in k.rows : payments[x].bill = None /\ payments[x].party = k.party
    BY <1>3 DEF Found, Free
  <2>4. Found'
    BY <1>1, <1>3, <2>1, <2>3 DEF Found
  <2> QED BY <1>1, <2>2, <2>4
<1>4. CASE ReadAdvances(p)
  <2>1. PICK S \in SUBSET Free(req[p].party) : Goto(p, [req[p] EXCEPT !.pc = "attach", !.rows = S])
    BY <1>4 DEF ReadAdvances
  <2> DEFINE k == [req[p] EXCEPT !.pc = "attach", !.rows = S]
  <2>2. k.op = req[p].op /\ k.bill = req[p].bill /\ k.party = req[p].party /\ k.rows = S
    BY <1>2 DEF RequestType
  <2>3. Goto(p, k)
    BY <2>1
  <2> HIDE DEF k
  <2> QED BY <1>1, <1>3, <2>2, <2>3
<1>5. CASE AttachAdvance(p)
  <2>1. PICK x : Goto(p, [req[p] EXCEPT !.held = @ \cup {x}])
    BY <1>5 DEF AttachAdvance
  <2> DEFINE k == [req[p] EXCEPT !.held = @ \cup {x}]
  <2>2. k.op = req[p].op /\ k.bill = req[p].bill /\ k.party = req[p].party /\ k.rows = req[p].rows
    BY <1>2 DEF RequestType
  <2>3. Goto(p, k)
    BY <2>1
  <2> HIDE DEF k
  <2> QED BY <1>1, <1>3, <2>2, <2>3
<1>6. CASE TakeReceipt(p)
  <2> DEFINE k == [req[p] EXCEPT !.pc = "insert", !.number = receipts + 1]
  <2>1. k.op = req[p].op /\ k.bill = req[p].bill /\ k.party = req[p].party /\ k.rows = req[p].rows
    BY <1>2 DEF RequestType
  <2>2. Goto(p, k)
    BY <1>6 DEF TakeReceipt
  <2> HIDE DEF k
  <2> QED BY <1>1, <1>3, <2>1, <2>2
<1> QED BY <1>4, <1>5, <1>6, <1>1

LEMMA PlacedRolledBack ==
    ASSUME Typed, Placed, NEW p \in Request, Fails(p) \/ BreakDeadlock(p)
    PROVE  Placed' /\ UNCHANGED <<bills, payments>>
<1> USE DEF Typed, Placed
<1>1. /\ UNCHANGED <<bills, payments>>
      /\ \A r \in Request : req'[r] = IF r = p THEN Idle ELSE req[r]
  BY FailKeeps, BreakKeeps
<1>2. Found'
  BY <1>1 DEF Found, Idle
<1> QED BY <1>1, <1>2, TablesPlaced, ExclusiveEnds

(* Nobody else makes a bill. *)
LEMMA OneMaker ==
    ASSUME KeepsApart, Typed, Numbered, Exclusive, NEW p \in Request, NEW r \in Request,
           req[p].op = "createBill", req[r].op = "createBill"
    PROVE  p = r
<1>1. req[p].year \in Year /\ req[r].year \in Year
  BY DEF Typed, Requests, RequestOK
<1>2. CASE {"createBill"} \in Apart
  <2>1. {"createBill", "createBill"} = {"createBill"}
    OBVIOUS
  <2> QED BY <1>2, <2>1 DEF Exclusive
<1>3. CASE \A y, z \in Year : y = z
  BY <1>1, <1>3 DEF Numbered, Taken
<1> QED BY <1>2, <1>3 DEF KeepsApart

LEMMA PlacedIssue ==
    ASSUME KeepsApart, Typed, Numbered, Placed, NEW p \in Request, IssueBill(p)
    PROVE  Placed'
<1> USE DEF Typed, Placed
<1>1. \A r \in Request : req'[r] = IF r = p THEN Idle ELSE req[r]
  BY EndKeeps DEF IssueBill
<1>2. CASE UNCHANGED <<bills, payments, years, receipts>>
  <2>1. Found'
    BY <1>1, <1>2 DEF Found, Idle
  <2> QED BY <1>1, <1>2, <2>1, TablesPlaced, ExclusiveEnds
<1>3. ASSUME NEW b \in Bill, NEW x \in Payment \cup {None}, Issues(p, b, x)
      PROVE  Placed'
  <2>1. req[p].op = "createBill" /\ req[p].held \subseteq req[p].rows /\ b # None
    BY LedgerAssumption DEF IssueBill, Requests, RequestOK
  <2>2. \A c \in Bill : IF c = b THEN bills'[c].status = "issued" /\ bills'[c].party = req[p].party
                        ELSE bills'[c] = bills[c]
    BY <1>3 DEF Issues, Tables
  <2>3. \A z \in Payment :
          IF z \in req[p].held
          THEN /\ payments'[z].bill = b /\ payments'[z].party = req[p].party
               /\ payments'[z].status = payments[z].status
          ELSE IF z = x THEN /\ payments'[z].bill = b /\ payments'[z].party = req[p].party
                             /\ payments'[z].status = "live"
          ELSE payments'[z] = payments[z]
    BY <1>3, <2>1 DEF Issues, Tables, PaymentType, Recorded, Found
  <2>4. bills[b].status = "absent"
    BY <1>3 DEF Issues
  <2>5. Blank'
    BY <2>1, <2>2, <2>3 DEF Blank, Existing
  <2>6. OnIssued'
    <3> SUFFICES ASSUME NEW z \in Payment, payments'[z].status = "live", payments'[z].bill # None
                 PROVE  /\ bills'[payments'[z].bill].status = "issued"
                        /\ bills'[payments'[z].bill].party = payments'[z].party
      BY DEF OnIssued, Live
    <3>1. CASE z \in req[p].held \/ z = x
      BY <2>2, <2>3, <3>1
    <3>2. CASE ~(z \in req[p].held \/ z = x)
      <4>1. payments'[z] = payments[z] /\ payments[z].bill \in Bill
        BY <2>3, <3>2 DEF Tables, PaymentType
      <4> QED BY <2>2, <2>4, <4>1 DEF OnIssued, Live
    <3> QED BY <3>1, <3>2
  <2>7. \A r \in Request : r # p => req[r].rows = {}
    BY <2>1, OneMaker DEF Requests, RequestOK
  <2>8. Found'
    <3>1. \A r \in Request : r # p /\ req[r].bill # None => req[r].bill \in Bill
      BY DEF Requests, RequestType
    <3>2. \A r \in Request : r # p /\ req[r].op = "cancelBill" => req[r].bill \in Bill
      BY DEF Requests, RequestOK
    <3> QED BY <1>1, <2>2, <2>4, <2>7, <3>1, <3>2 DEF Found, Idle
  <2> QED BY <1>1, <2>5, <2>6, <2>8, ExclusiveEnds
<1> QED BY <1>2, <1>3, IssueCases

LEMMA PlacedInsert ==
    ASSUME Typed, Placed, NEW p \in Request, InsertPayment(p)
    PROVE  Placed'
<1> USE DEF Typed, Placed
<1>1. \A r \in Request : req'[r] = IF r = p THEN Idle ELSE req[r]
  BY EndKeeps DEF InsertPayment
<1>2. PICK x \in Unrecorded :
         payments' = [payments EXCEPT ![x] =
             Recorded(req[p].bill, req[p].party, req[p].amount, req[p].number)]
  BY DEF InsertPayment
<1>3. x \in Payment /\ payments[x].status = "absent" /\ UNCHANGED bills
  BY DEF Unrecorded, InsertPayment
<1>4. \A z \in Payment :
        IF z = x THEN /\ payments'[z].bill = req[p].bill /\ payments'[z].party = req[p].party
                      /\ payments'[z].status = "live"
        ELSE payments'[z] = payments[z]
  BY <1>2, <1>3 DEF Tables, Recorded
<1>5. req[p].op \in {"recordOnBill", "record"}
  BY DEF InsertPayment, Requests, RequestOK
<1>6. Blank' /\ OnIssued'
  BY <1>3, <1>4, <1>5 DEF Blank, OnIssued, Live, Found
<1>7. \A r \in Request : x \notin req[r].rows
  BY <1>3 DEF Existing
<1>8. \A r \in Request : req[r].rows \subseteq Payment
  BY DEF Requests, RequestType
<1>9. Found'
  BY <1>1, <1>3, <1>4, <1>7, <1>8 DEF Found, Idle
<1> QED BY <1>1, <1>6, <1>9, ExclusiveEnds

LEMMA PlacedCancel ==
    ASSUME KeepsApart, Typed, Placed, NEW p \in Request, CancelBill(p)
    PROVE  Placed'
<1> USE DEF Typed, Placed
<1>1. \A r \in Request : req'[r] = IF r = p THEN Idle ELSE req[r]
  BY EndKeeps DEF CancelBill
<1> DEFINE b == req[p].bill
<1>2. req[p].op = "cancelBill" /\ b \in Bill /\ bills[b].status = "issued"
  BY DEF CancelBill, Requests, RequestOK, Found
<1>3. \A c \in Bill : /\ bills'[c].party = bills[c].party
                      /\ bills'[c].status = IF c = b THEN "cancelled" ELSE bills[c].status
  BY <1>2 DEF CancelBill, Tables, BillType
<1>4. \A z \in Payment : /\ payments'[z].status = payments[z].status
                         /\ payments'[z].party = payments[z].party
                         /\ payments'[z].bill = IF payments[z].bill = b THEN None ELSE payments[z].bill
  BY DEF CancelBill, Tables, PaymentType
<1> HIDE DEF b
<1>5. Blank'
  BY <1>2, <1>3, <1>4 DEF Blank
<1>6. OnIssued'
  <2>1. \A z \in Payment : payments[z].bill # None => payments[z].bill \in Bill
    BY DEF Tables, PaymentType
  <2> QED BY <1>2, <1>3, <1>4, <2>1 DEF OnIssued, Live
<1>7. \A r \in Request : r # p /\ Locking(req[r]) => req[r].bill # b
  BY <1>2 DEF Exclusive, Locking, b
<1>8. \A r \in Request : req[r].op # "record"
  BY <1>2 DEF Exclusive, KeepsApart
<1>9. \A r \in Request : r # p /\ Locking(req[r]) => req[r].bill \in Bill
  BY DEF Requests, RequestOK, Locking
<1>10. \A r \in Request : req[r].rows \subseteq Payment
  BY DEF Requests, RequestType
<1>11. Found'
  BY <1>1, <1>3, <1>4, <1>7, <1>8, <1>9, <1>10 DEF Found, Idle, Locking
<1> QED BY <1>1, <1>5, <1>6, <1>11, ExclusiveEnds

LEMMA PlacedEdit ==
    ASSUME Typed, Placed,
           \/ \E b \in Bill : UpdateBill(b)
           \/ \E x \in Payment : UpdatePayment(x) \/ DeletePayment(x)
    PROVE  Placed'
<1> USE DEF Typed, Placed
<1>1. /\ req' = req
      /\ \A b \in Bill : bills'[b].status = bills[b].status /\ bills'[b].party = bills[b].party
      /\ \A x \in Payment : /\ payments'[x].bill = payments[x].bill /\ payments'[x].party = payments[x].party
                            /\ \/ payments'[x].status = payments[x].status
                               \/ payments[x].status = "live" /\ payments'[x].status = "deleted"
  <2>1. ASSUME NEW b \in Bill, UpdateBill(b) PROVE <1>1!:
    BY <2>1 DEF UpdateBill, Tables, BillType
  <2>2. ASSUME NEW x \in Payment, UpdatePayment(x) \/ DeletePayment(x) PROVE <1>1!:
    BY <2>2 DEF UpdatePayment, DeletePayment, Live, Tables, PaymentType
  <2> QED BY <2>1, <2>2
<1>2. Blank'
  BY <1>1 DEF Blank
<1>3. OnIssued'
  <2>1. \A x \in Payment : payments[x].bill # None => payments[x].bill \in Bill
    BY DEF Tables, PaymentType
  <2> QED BY <1>1, <2>1 DEF OnIssued, Live
<1>4. Found'
  <2>1. \A r \in Request : /\ req[r].bill # None => req[r].bill \in Bill
                           /\ req[r].op = "cancelBill" => req[r].bill \in Bill
                           /\ req[r].rows \subseteq Payment
    BY DEF Requests, RequestOK, RequestType
  <2> QED BY <1>1, <2>1 DEF Found
<1> QED BY <1>1, <1>2, <1>3, <1>4 DEF Exclusive

LEMMA PlacedInit == Init => Placed
BY DEF Init, Placed, Blank, OnIssued, Live, Exclusive, Locking, Found, NoBill, NoPayment, Idle

LEMMA PlacedStep ==
    ASSUME KeepsApart, Typed, Numbered, Placed, [Next]_vars
    PROVE  Placed'
<1>1. CASE \E p \in Request : Starts(p) \/ Works(p) \/ Fails(p)
  BY <1>1, PlacedStart, PlacedRead, PlacedRolledBack, PlacedIssue, PlacedInsert, PlacedCancel DEF Works
<1>2. CASE \/ \E b \in Bill : UpdateBill(b)
           \/ \E x \in Payment : UpdatePayment(x) \/ DeletePayment(x)
  BY <1>2, PlacedEdit
<1>3. CASE UNCHANGED vars
  BY <1>3 DEF vars, Placed, Blank, OnIssued, Live, Exclusive, Found
<1> QED BY <1>1, <1>2, <1>3 DEF Next

-----------------------------------------------------------------------------
(* Every step is one of Accounts, or none                                    *)

LEMMA SameAccounts ==
    ASSUME UNCHANGED <<bills, payments>>
    PROVE  UNCHANGED Promise!vars
BY DEF Promise!vars, Invoices, Money, Live

(* Where a payment is. *)
MoneyAt(pay) ==
    [state |-> CASE pay.status = "absent" -> "none"
                 [] pay.status = "deleted" -> "deleted"
                 [] OTHER -> IF pay.bill = None THEN "advance" ELSE "billed",
     bill |-> IF pay.status = "live" THEN pay.bill ELSE None,
     party |-> pay.party]

LEMMA MoneyIs ==
    /\ Money = [x \in Payment |-> MoneyAt(payments[x])]
    /\ Money' = [x \in Payment |-> MoneyAt(payments'[x])]
BY DEF Money, Live, MoneyAt

LEMMA SamePlace ==
    ASSUME NEW q, NEW r, q.status = r.status, q.party = r.party,
           q.status \in {"absent", "deleted"} \/ q.bill = r.bill
    PROVE  MoneyAt(q) = MoneyAt(r)
BY DEF MoneyAt

LEMMA WhereMoneyIs ==
    ASSUME NEW q
    PROVE  /\ MoneyAt(q).party = q.party
           /\ MoneyAt(q).bill = IF q.status = "live" THEN q.bill ELSE None
           /\ q.status = "live" => MoneyAt(q).state \in {"advance", "billed"}
           /\ q.status = "live" /\ q.bill = None => MoneyAt(q) = Promise!Advance(q.party)
           /\ q.status = "live" /\ q.bill # None => MoneyAt(q) = Promise!On(q.bill, q.party)
           /\ q.status = "deleted" => MoneyAt(q) = Promise!Deleted(q.party)
           /\ q.status = "absent" /\ q.party = None => MoneyAt(q) = Promise!Unreceived
BY DEF MoneyAt, Promise!Advance, Promise!On, Promise!Deleted, Promise!Unreceived

LEMMA EditIsNone ==
    ASSUME Typed, (\E b \in Bill : UpdateBill(b)) \/ (\E x \in Payment : UpdatePayment(x))
    PROVE  UNCHANGED Promise!vars
<1> USE DEF Typed
<1>1. /\ \A b \in Bill : bills'[b].status = bills[b].status /\ bills'[b].party = bills[b].party
      /\ \A x \in Payment : /\ payments'[x].bill = payments[x].bill
                            /\ payments'[x].party = payments[x].party
                            /\ payments'[x].status = payments[x].status
  <2>1. ASSUME NEW b \in Bill, UpdateBill(b) PROVE <1>1!:
    BY <2>1 DEF UpdateBill, Tables, BillType
  <2>2. ASSUME NEW x \in Payment, UpdatePayment(x) PROVE <1>1!:
    BY <2>2 DEF UpdatePayment, Tables, PaymentType
  <2> QED BY <2>1, <2>2
<1>2. Invoices' = Invoices
  BY <1>1 DEF Invoices
<1>3. Money' = Money
  BY <1>1 DEF Money, Live
<1> QED BY <1>2, <1>3 DEF Promise!vars

LEMMA DeleteIsDelete ==
    ASSUME Typed, NEW x \in Payment, DeletePayment(x)
    PROVE  Promise!Delete(x)
<1> USE DEF Typed
<1>1. /\ payments[x].status = "live" /\ payments'[x].status = "deleted"
      /\ payments'[x].party = payments[x].party
      /\ \A z \in Payment : z # x => payments'[z] = payments[z]
  BY DEF DeletePayment, Live, Tables, PaymentType
<1>2. Money[x].state \in {"advance", "billed"} /\ Money[x].party = payments[x].party
  BY <1>1, MoneyIs, WhereMoneyIs
<1>3. Money'[x] = Promise!Deleted(Money[x].party)
  BY <1>1, <1>2, MoneyIs, WhereMoneyIs
<1>4. \A z \in Payment : z # x => Money'[z] = Money[z]
  BY <1>1, MoneyIs
<1>5. Money' = [Money EXCEPT ![x] = Promise!Deleted(Money[x].party)]
  BY <1>3, <1>4, MoneyIs
<1> QED BY <1>2, <1>5 DEF Promise!Delete, DeletePayment, Invoices

LEMMA CancelIsCancel ==
    ASSUME Typed, Placed, NEW p \in Request, CancelBill(p)
    PROVE  Promise!Cancel(req[p].bill) /\ req[p].bill \in Bill
<1> USE DEF Typed, Placed
<1> DEFINE b == req[p].bill
<1>1. b \in Bill /\ bills[b].status = "issued" /\ b # None
  BY LedgerAssumption DEF CancelBill, Requests, RequestOK, Found
<1>2. \A c \in Bill : /\ bills'[c].party = bills[c].party
                      /\ bills'[c].status = IF c = b THEN "cancelled" ELSE bills[c].status
  BY <1>1 DEF CancelBill, Tables, BillType
<1>3. \A z \in Payment : /\ payments'[z].status = payments[z].status
                         /\ payments'[z].party = payments[z].party
                         /\ payments'[z].bill = IF payments[z].bill = b THEN None ELSE payments[z].bill
  BY DEF CancelBill, Tables, PaymentType
<1> HIDE DEF b
<1>4. Invoices[b].status = "issued" /\ Invoices' = [Invoices EXCEPT ![b].status = "cancelled"]
  BY <1>1, <1>2 DEF Invoices
<1>5. ASSUME NEW z \in Payment
      PROVE  Money'[z] = IF Money[z].bill = b THEN Promise!Advance(Money[z].party) ELSE Money[z]
  <2>1. payments[z].status \in {"absent", "live", "deleted"}
    BY DEF Tables, PaymentType
  <2>2. CASE payments[z].status # "live"
    BY <1>1, <1>3, <2>1, <2>2, SamePlace, MoneyIs, WhereMoneyIs
  <2>3. CASE payments[z].status = "live" /\ payments[z].bill = b
    BY <1>1, <1>3, <2>3, MoneyIs, WhereMoneyIs
  <2>4. CASE payments[z].status = "live" /\ payments[z].bill # b
    BY <1>1, <1>3, <2>4, SamePlace, MoneyIs, WhereMoneyIs
  <2> QED BY <2>2, <2>3, <2>4
<1>6. Money' = [z \in Payment |-> IF Money[z].bill = b THEN Promise!Advance(Money[z].party) ELSE Money[z]]
  BY <1>5, MoneyIs
<1> QED BY <1>1, <1>4, <1>6 DEF Promise!Cancel, b

LEMMA InsertIsReceive ==
    ASSUME Typed, Placed, NEW p \in Request, InsertPayment(p)
    PROVE  \E x \in Payment, a \in Party : Promise!Receive(x, a)
<1> USE DEF Typed, Placed
<1>1. PICK x \in Unrecorded :
         payments' = [payments EXCEPT ![x] =
             Recorded(req[p].bill, req[p].party, req[p].amount, req[p].number)]
  BY DEF InsertPayment
<1> DEFINE b == req[p].bill
           a == req[p].party
<1>2. x \in Payment /\ payments[x].status = "absent" /\ UNCHANGED bills
  BY DEF Unrecorded, InsertPayment
<1>3. /\ payments'[x].bill = b /\ payments'[x].party = a /\ payments'[x].status = "live"
      /\ \A z \in Payment : z # x => payments'[z] = payments[z]
  BY <1>1, <1>2 DEF Tables, Recorded
<1>4. a \in Party /\ req[p].op \in {"recordOnBill", "record"} /\ (b # None => b \in Bill)
  BY DEF InsertPayment, Requests, RequestOK, RequestType
<1>5. b # None => bills[b].status = "issued" /\ bills[b].party = a
  BY <1>4 DEF Found
<1> HIDE DEF a, b
<1>6. Money[x] = Promise!Unreceived
  BY <1>2, MoneyIs, WhereMoneyIs DEF Blank
<1>7. \A z \in Payment : z # x => Money'[z] = Money[z]
  BY <1>3, MoneyIs
<1>8. Money' = [Money EXCEPT ![x] = Money'[x]]
  BY <1>7, MoneyIs
<1>9. CASE b = None
  <2>1. Money'[x] = Promise!Advance(a)
    <3>1. MoneyAt(payments'[x]) = Promise!Advance(payments'[x].party)
      BY <1>3, <1>9, WhereMoneyIs
    <3> QED BY <1>2, <1>3, <3>1, MoneyIs
  <2> QED BY <1>2, <1>4, <1>6, <1>8, <2>1 DEF Promise!Receive, Invoices
<1>10. CASE b # None
  <2>1. Money'[x] = Promise!On(b, a)
    <3>1. MoneyAt(payments'[x]) = Promise!On(payments'[x].bill, payments'[x].party)
      BY <1>3, <1>10, WhereMoneyIs
    <3> QED BY <1>2, <1>3, <3>1, MoneyIs
  <2>2. Invoices[b] = [status |-> "issued", party |-> a] /\ b \in Bill
    BY <1>4, <1>5, <1>10 DEF Invoices
  <2>3. UNCHANGED Invoices
    BY <1>2 DEF Invoices
  <2>4. Promise!On(b, a) \in {Promise!On(c, a) : c \in
           {d \in Bill : Invoices[d] = [status |-> "issued", party |-> a]}}
    BY <2>2
  <2>5. Promise!Receive(x, a)
    BY <1>2, <1>6, <1>8, <2>1, <2>3, <2>4 DEF Promise!Receive
  <2> QED BY <1>2, <1>4, <2>5
<1> QED BY <1>9, <1>10

LEMMA IssueIsIssue ==
    ASSUME Typed, Placed, NEW p \in Request, IssueBill(p)
    PROVE  UNCHANGED Promise!vars \/ \E b \in Bill, a \in Party : Promise!Issue(b, a)
<1> USE DEF Typed, Placed
<1>1. ASSUME NEW b \in Bill, NEW x \in Payment \cup {None}, Issues(p, b, x)
      PROVE  req[p].party \in Party /\ Promise!Issue(b, req[p].party)
  <2> DEFINE a == req[p].party
             held == req[p].held
             taken == {z \in Payment : Money'[z].bill = b}
  <2>1. a \in Party /\ req[p].op = "createBill" /\ held \subseteq req[p].rows /\ b # None
    BY LedgerAssumption DEF IssueBill, Requests, RequestOK
  <2>2. \A c \in Bill : IF c = b THEN bills'[c].status = "issued" /\ bills'[c].party = a
                        ELSE bills'[c] = bills[c]
    BY <1>1 DEF Issues, Tables
  <2>3. \A z \in Payment :
          IF z \in held
          THEN /\ payments'[z].bill = b /\ payments'[z].party = a
               /\ payments'[z].status = payments[z].status
          ELSE IF z = x THEN /\ payments'[z].bill = b /\ payments'[z].party = a
                             /\ payments'[z].status = "live"
          ELSE payments'[z] = payments[z]
    BY <1>1, <2>1 DEF Issues, Tables, PaymentType, Recorded, Found
  <2>4. bills[b].status = "absent" /\ bills[b].party = None
    BY <1>1 DEF Issues, Blank
  <2>5. \A z \in held : /\ payments[z].bill = None /\ payments[z].party = a
                        /\ payments[z].status \in {"live", "deleted"}
    BY <2>1 DEF Found, Existing, Tables, PaymentType, Requests, RequestType
  <2>6. x # None => x \in Payment /\ payments[x].status = "absent"
    BY <1>1 DEF Issues, Unrecorded
  <2> HIDE DEF a, held
  <2>7. \A z \in Payment : Live(z) => payments[z].bill # b
    BY <2>1, <2>4 DEF OnIssued
  <2>8. ASSUME NEW z \in Payment
        PROVE  \/ Money'[z] = Money[z] /\ Money[z].bill # b
               \/ Money'[z] = Promise!On(b, a) /\ Money[z] = Promise!Advance(a)
               \/ Money'[z] = Promise!On(b, a) /\ Money[z] = Promise!Unreceived /\ z = x
    <3>1. CASE z \in held /\ payments[z].status = "live"
      <4>1. MoneyAt(payments'[z]) = Promise!On(payments'[z].bill, payments'[z].party)
        BY <2>1, <2>3, <3>1, WhereMoneyIs
      <4>2. MoneyAt(payments[z]) = Promise!Advance(payments[z].party)
        BY <2>5, <3>1, WhereMoneyIs
      <4> QED BY <2>3, <2>5, <3>1, <4>1, <4>2, MoneyIs
    <3>2. CASE z \in held /\ payments[z].status # "live"
      <4>1. MoneyAt(payments'[z]) = MoneyAt(payments[z])
        BY <2>3, <2>5, <3>2, SamePlace
      <4>2. MoneyAt(payments[z]).bill # b
        BY <2>1, <3>2, WhereMoneyIs
      <4> QED BY <4>1, <4>2, MoneyIs
    <3>3. CASE z \notin held /\ z = x
      <4>1. Money[z] = Promise!Unreceived
        <5>1. payments[z].status = "absent" /\ payments[z].party = None
          BY <2>6, <3>3, LedgerAssumption DEF Blank
        <5>2. MoneyAt(payments[z]) = Promise!Unreceived
          BY <5>1, WhereMoneyIs
        <5> QED BY <5>2, MoneyIs
      <4>2. z # None
        BY LedgerAssumption
      <4>3. Money'[z] = Promise!On(b, a)
        BY <2>1, <2>3, <3>3, MoneyIs, WhereMoneyIs
      <4> QED BY <3>3, <4>1, <4>3
    <3>4. CASE z \notin held /\ z # x
      <4>1. payments'[z] = payments[z] /\ payments[z].status \in {"absent", "live", "deleted"}
        BY <2>3, <3>4 DEF Tables, PaymentType
      <4>2. Money'[z] = Money[z]
        BY <4>1, MoneyIs
      <4>3. Money[z].bill # b
        BY <2>1, <2>7, <4>1, MoneyIs, WhereMoneyIs DEF Live
      <4> QED BY <4>2, <4>3
    <3> QED BY <3>1, <3>2, <3>3, <3>4
  <2>9. Invoices[b] = Promise!Unissued
    BY <2>4 DEF Invoices, Promise!Unissued
  <2>10. Invoices' = [Invoices EXCEPT ![b] = [status |-> "issued", party |-> a]]
    BY <2>2 DEF Invoices
  <2>11. Promise!On(b, a).bill = b /\ Promise!Advance(a) # Promise!Unreceived
    BY DEF Promise!On, Promise!Advance, Promise!Unreceived
  <2>12. \A z \in taken : Money'[z] = Promise!On(b, a)
    BY <2>8
  <2>13. \A z \in Payment \ taken : Money'[z] = Money[z]
    BY <2>8, <2>11
  <2>14. \A z \in taken : Money[z] # Promise!Advance(a) => Money[z] = Promise!Unreceived /\ z = x
    BY <2>8
  <2>15. Money' = [z \in Payment |-> IF z \in taken THEN Promise!On(b, a) ELSE Money[z]]
    BY <2>12, <2>13, MoneyIs
  <2>16. Promise!Issue(b, a)
    BY <2>9, <2>10, <2>14, <2>15 DEF Promise!Issue
  <2> QED BY <2>1, <2>16 DEF a
<1> QED BY <1>1, IssueCases, SameAccounts

LEMMA PromiseStep ==
    ASSUME KeepsApart, Typed, Placed, [Next]_vars
    PROVE  Promise!Next \/ UNCHANGED Promise!vars
<1>1. ASSUME NEW p \in Request, Starts(p) \/ Works(p) \/ Fails(p)
      PROVE  Promise!Next \/ UNCHANGED Promise!vars
  <2>1. CASE Starts(p)
    BY <2>1, StartsTouchNoTable, SameAccounts
  <2>2. CASE Fails(p) \/ ReadAdvances(p) \/ AttachAdvance(p) \/ TakeReceipt(p) \/ BreakDeadlock(p)
    BY <2>2, PlacedRead, PlacedRolledBack, SameAccounts
  <2>3. CASE IssueBill(p)
    BY <2>3, IssueIsIssue DEF Promise!Next
  <2>4. CASE InsertPayment(p)
    BY <2>4, InsertIsReceive DEF Promise!Next
  <2>5. CASE CancelBill(p)
    BY <2>5, CancelIsCancel DEF Promise!Next
  <2> QED BY <1>1, <2>1, <2>2, <2>3, <2>4, <2>5 DEF Works
<1>2. CASE (\E b \in Bill : UpdateBill(b)) \/ (\E x \in Payment : UpdatePayment(x))
  BY <1>2, EditIsNone
<1>3. CASE \E x \in Payment : DeletePayment(x)
  BY <1>3, DeleteIsDelete DEF Promise!Next
<1>4. CASE UNCHANGED vars
  BY <1>4, SameAccounts DEF vars
<1> QED BY <1>1, <1>2, <1>3, <1>4 DEF Next

LEMMA PromiseInit == Init => Promise!Init
<1> SUFFICES ASSUME Init PROVE Promise!Init
  OBVIOUS
<1>1. Invoices = [b \in Bill |-> Promise!Unissued]
  BY DEF Init, Invoices, NoBill, Promise!Unissued
<1>2. Money = [x \in Payment |-> Promise!Unreceived]
  BY DEF Init, Money, Live, NoPayment, Promise!Unreceived
<1> QED BY <1>1, <1>2 DEF Promise!Init

(* As long as no payment is recorded for an event while a bill is being      *)
(* cancelled, and bills are made in one year (or one at a time), money is    *)
(* where Accounts promises, whatever else happens at once.                   *)
THEOREM PromiseKept == ASSUME KeepsApart PROVE Spec => Promised
<1>1. Init => Typed /\ Numbered /\ Placed /\ Promise!Init
  BY TypedInit, NumbersInit, PlacedInit, PromiseInit
<1>2. Typed /\ Numbered /\ Placed /\ [Next]_vars => Typed' /\ Numbered' /\ Placed'
  BY TypedStep, NumbersStep, PlacedStep
<1>3. Typed /\ Placed /\ [Next]_vars => [Promise!Next]_Promise!vars
  BY PromiseStep
<1> QED BY <1>1, <1>2, <1>3, PTL DEF Spec, Promised, Promise!Spec

-----------------------------------------------------------------------------
(* What a set of payments is worth                                           *)

(* The fold behind Worth, for any payments table m: w is what each set comes *)
(* to when one of those left is taken at a time.                             *)
WorthOf(m, S) == MapThenSumSet(LAMBDA x : m[x].amount, S)
Pick(S) == CHOOSE x \in S : TRUE
Added(w, m, S) == IF S = {} THEN 0 ELSE m[Pick(S)].amount + w[S \ {Pick(S)}]
AddsUp(w, m, U) == w = [S \in SUBSET U |-> Added(w, m, S)]

LEMMA WorthFolds ==
    ASSUME NEW m, NEW S
    PROVE  WorthOf(m, S) = (CHOOSE w : AddsUp(w, m, S))[S]
  BY DEF WorthOf, MapThenSumSet, MapThenFoldSet, AddsUp, Added, Pick

(* Numbers have a least one.                                                 *)
LEMMA LeastOf ==
    ASSUME NEW T, T \subseteq Nat, T # {}
    PROVE  \E n \in T : \A k \in T : n <= k
<1> DEFINE R == OpToRel(<, Nat)
<1>1. \A k, n \in Nat : <<k, n>> \in R <=> k < n
  BY DEF OpToRel
<1>2. IsWellFoundedOn(R, Nat)
  BY NatLessThanWellFounded
<1> HIDE DEF R
<1>3. PICK n \in T : \A k \in T : ~(<<k, n>> \in R)
  BY <1>2, WFMin
<1>4. \A k \in T : ~(k < n)
  BY <1>1, <1>3
<1> QED BY <1>4

(* Whatever holds of a finite set when it holds of the set less any one of   *)
(* its members holds of all the subsets.                                     *)
LEMMA OneFewer ==
    ASSUME NEW U, IsFiniteSet(U), NEW T,
           \A S \in SUBSET U : (\A x \in S : S \ {x} \in T) => S \in T
    PROVE  \A S \in SUBSET U : S \in T
<1> SUFFICES ASSUME NEW S0 \in SUBSET U, S0 \notin T PROVE FALSE
  OBVIOUS
<1> DEFINE N == {Cardinality(S) : S \in {R \in SUBSET U : R \notin T}}
<1>1. \A S \in SUBSET U : IsFiniteSet(S) /\ Cardinality(S) \in Nat
  BY FS_Subset, FS_CardinalityType
<1>2. N \subseteq Nat /\ N # {}
  BY <1>1
<1>3. PICK n \in N : \A k \in N : n <= k
  <2> HIDE DEF N
  <2> QED BY <1>2, LeastOf
<1>4. PICK S \in SUBSET U : S \notin T /\ n = Cardinality(S)
  BY <1>3
<1>5. PICK x \in S : S \ {x} \notin T
  BY <1>4
<1>6. Cardinality(S \ {x}) = Cardinality(S) - 1
  BY <1>1, FS_RemoveElement
<1>7. Cardinality(S \ {x}) \in N
  BY <1>5
<1>8. n <= Cardinality(S \ {x})
  <2> HIDE DEF N
  <2> QED BY <1>3, <1>7
<1>9. Cardinality(S) \in Nat /\ n <= Cardinality(S) - 1 /\ n = Cardinality(S)
  BY <1>1, <1>4, <1>6, <1>8
<1> QED BY <1>9

LEMMA OneMore ==
    ASSUME NEW K, 0 \in K, \A k \in K : k + 1 \in K
    PROVE  \A n \in Nat : n \in K
<1> SUFFICES ASSUME NEW n \in Nat, n \notin K PROVE FALSE
  OBVIOUS
<1>1. PICK l \in Nat \ K : \A k \in Nat \ K : l <= k
  BY LeastOf
<1>2. l # 0 /\ l - 1 \in Nat /\ (l - 1) + 1 = l
  BY <1>1
<1>3. l - 1 \in K
  <2>1. ~(l <= l - 1)
    BY <1>2
  <2> QED BY <1>1, <1>2, <2>1
<1> QED BY <1>1, <1>2, <1>3

LEMMA PickIs ==
    ASSUME NEW S, S # {}
    PROVE  Pick(S) \in S
  BY DEF Pick

(* Two folds agree on the sets both are about, when the tables do.           *)
LEMMA FoldsAgree ==
    ASSUME NEW U, IsFiniteSet(U), NEW S0 \in SUBSET U, NEW m, NEW n, NEW v, NEW w,
           AddsUp(v, m, U), AddsUp(w, n, S0), \A x \in S0 : m[x].amount = n[x].amount
    PROVE  v[S0] = w[S0]
<1> DEFINE T == {S \in SUBSET S0 : v[S] = w[S]}
<1>1. ASSUME NEW S \in SUBSET S0, \A x \in S : S \ {x} \in T PROVE v[S] = w[S]
  <2>1. v[S] = Added(v, m, S) /\ w[S] = Added(w, n, S)
    BY DEF AddsUp
  <2>2. CASE S = {}
    BY <2>1, <2>2 DEF Added
  <2>3. CASE S # {}
    <3>1. Pick(S) \in S
      BY <2>3, PickIs
    <3>2. v[S \ {Pick(S)}] = w[S \ {Pick(S)}] /\ m[Pick(S)].amount = n[Pick(S)].amount
      BY <1>1, <3>1
    <3> QED BY <2>1, <2>3, <3>2 DEF Added
  <2> QED BY <2>2, <2>3
<1>2. IsFiniteSet(S0)
  BY FS_Subset
<1>3. \A S \in SUBSET S0 : (\A x \in S : S \ {x} \in T) => S \in T
  BY <1>1
<1>4. S0 \in T
  <2> HIDE DEF T
  <2> QED BY <1>2, <1>3, OneFewer
<1> QED BY <1>4

(* There is such a fold: sets of ever more members can be added up.          *)
LEMMA FoldIs ==
    ASSUME NEW U, IsFiniteSet(U), NEW m, \A x \in U : m[x].amount \in Nat
    PROVE  \E w \in [SUBSET U -> Nat] : AddsUp(w, m, U)
<1> DEFINE Upto(w, k) == \A S \in SUBSET U : Cardinality(S) <= k => w[S] = Added(w, m, S)
           K == {k \in Nat : \E w \in [SUBSET U -> Nat] : Upto(w, k)}
<1>1. \A S \in SUBSET U : IsFiniteSet(S) /\ Cardinality(S) \in Nat
  BY FS_Subset, FS_CardinalityType
<1>2. ASSUME NEW w \in [SUBSET U -> Nat], NEW S \in SUBSET U PROVE Added(w, m, S) \in Nat
  <2>1. CASE S = {}
    BY <2>1 DEF Added
  <2>2. CASE S # {}
    <3>1. Pick(S) \in S
      BY <2>2, PickIs
    <3>2. m[Pick(S)].amount \in Nat /\ w[S \ {Pick(S)}] \in Nat
      BY <3>1
    <3> QED BY <2>2, <3>2 DEF Added
  <2> QED BY <2>1, <2>2
<1>3. 0 \in K
  <2> DEFINE z == [S \in SUBSET U |-> 0]
  <2>1. z \in [SUBSET U -> Nat]
    OBVIOUS
  <2>2. ASSUME NEW S \in SUBSET U, Cardinality(S) <= 0 PROVE z[S] = Added(z, m, S)
    <3>1. S = {}
      BY <1>1, <2>2, FS_EmptySet
    <3> QED BY <3>1 DEF Added
  <2> HIDE DEF z
  <2> QED BY <2>1, <2>2
<1>4. ASSUME NEW k \in K PROVE k + 1 \in K
  <2>1. PICK w \in [SUBSET U -> Nat] : Upto(w, k)
    BY <1>4
  <2> DEFINE v == [S \in SUBSET U |-> Added(w, m, S)]
  <2>2. v \in [SUBSET U -> Nat] /\ \A S \in SUBSET U : v[S] = Added(w, m, S)
    BY <1>2
  <2> HIDE DEF v
  <2>3. ASSUME NEW S \in SUBSET U, Cardinality(S) <= k + 1 PROVE v[S] = Added(v, m, S)
    <3>1. CASE S = {}
      BY <2>2, <3>1 DEF Added
    <3>2. CASE S # {}
      <4>1. Pick(S) \in S
        BY <3>2, PickIs
      <4>2. PICK R \in SUBSET U : R = S \ {Pick(S)}
        OBVIOUS
      <4>3. Cardinality(R) <= k
        <5>1. Cardinality(R) = Cardinality(S) - 1
          BY <1>1, <4>1, <4>2, FS_RemoveElement
        <5> QED BY <1>1, <2>3, <5>1
      <4>4. v[R] = w[R]
        BY <2>1, <2>2, <4>3
      <4> QED BY <2>2, <3>2, <4>2, <4>4 DEF Added
    <3> QED BY <3>1, <3>2
  <2>4. Upto(v, k + 1)
    BY <2>3
  <2> QED BY <2>2, <2>4
<1>5. Cardinality(U) \in K
  <2> HIDE DEF K
  <2>1. Cardinality(U) \in Nat
    BY FS_CardinalityType
  <2> QED BY <1>3, <1>4, <2>1, OneMore
<1>6. PICK w \in [SUBSET U -> Nat] : Upto(w, Cardinality(U))
  BY <1>5
<1>7. \A S \in SUBSET U : Cardinality(S) <= Cardinality(U)
  BY FS_Subset
<1>8. \A S \in SUBSET U : w[S] = Added(w, m, S)
  BY <1>6, <1>7
<1>9. AddsUp(w, m, U)
  BY <1>8 DEF AddsUp
<1> QED BY <1>9

(* It does not matter in which order a set is added up.                      *)
AnyOrder(w, m) ==
    \A S \in SUBSET Payment : \A x \in S : w[S] = m[x].amount + w[S \ {x}]

LEMMA FoldsInAnyOrder ==
    ASSUME NEW m \in [Payment -> PaymentType], NEW w \in [SUBSET Payment -> Nat],
           AddsUp(w, m, Payment)
    PROVE  AnyOrder(w, m)
<1>0. IsFiniteSet(Payment) /\ \A x \in Payment : m[x].amount \in Nat
  BY LedgerAssumption DEF PaymentType
<1> DEFINE T == {S \in SUBSET Payment : \A x \in S : w[S] = m[x].amount + w[S \ {x}]}
<1>1. ASSUME NEW S \in SUBSET Payment, \A x \in S : S \ {x} \in T, NEW x \in S
      PROVE  w[S] = m[x].amount + w[S \ {x}]
  <2>1. PICK y \in S : y = Pick(S)
    BY PickIs
  <2>2. \A R \in SUBSET Payment : w[R] = Added(w, m, R)
    BY DEF AddsUp
  <2>3. w[S] = m[y].amount + w[S \ {y}]
    BY <2>1, <2>2 DEF Added
  <2>4. CASE x = y
    BY <2>3, <2>4
  <2>5. CASE x # y
    <3>1. PICK R \in SUBSET Payment : R = (S \ {x}) \ {y}
      OBVIOUS
    <3>2. w[S \ {y}] = m[x].amount + w[R]
      <4>1. S \ {y} \in T /\ x \in S \ {y} /\ R = (S \ {y}) \ {x}
        BY <1>1, <2>5, <3>1
      <4> QED BY <4>1
    <3>3. w[S \ {x}] = m[y].amount + w[R]
      <4>1. S \ {x} \in T /\ y \in S \ {x} /\ R = (S \ {x}) \ {y}
        BY <1>1, <2>5, <3>1
      <4> QED BY <4>1
    <3>4. m[x].amount \in Nat /\ m[y].amount \in Nat /\ w[R] \in Nat
      BY <1>0
    <3> QED BY <2>3, <3>2, <3>3, <3>4
  <2> QED BY <2>4, <2>5
<1>2. \A S \in SUBSET Payment : (\A x \in S : S \ {x} \in T) => S \in T
  BY <1>1
<1>3. \A S \in SUBSET Payment : S \in T
  <2> HIDE DEF T
  <2> QED BY <1>0, <1>2, OneFewer
<1> QED BY <1>3 DEF AnyOrder

(* What payments are worth: nothing when there are none, and more by its     *)
(* amount with each of them.                                                 *)
LEMMA WorthIs ==
    ASSUME NEW m \in [Payment -> PaymentType]
    PROVE  \E w \in [SUBSET Payment -> Nat] :
              /\ AddsUp(w, m, Payment) /\ w[{}] = 0
              /\ \A S \in SUBSET Payment : WorthOf(m, S) = w[S]
              /\ AnyOrder(w, m)
<1>1. IsFiniteSet(Payment)
  BY LedgerAssumption
<1>2. \A x \in Payment : m[x].amount \in Nat
  BY DEF PaymentType
<1>3. PICK w \in [SUBSET Payment -> Nat] : AddsUp(w, m, Payment)
  BY <1>1, <1>2, FoldIs
<1>4. w[{}] = 0
  BY <1>3 DEF AddsUp, Added
<1>5. ASSUME NEW S \in SUBSET Payment PROVE WorthOf(m, S) = w[S]
  <2>1. IsFiniteSet(S) /\ \A x \in S : m[x].amount \in Nat
    BY <1>1, <1>2, FS_Subset
  <2>2. PICK v \in [SUBSET S -> Nat] : AddsUp(v, m, S)
    BY <2>1, FoldIs
  <2>3. PICK u : AddsUp(u, m, S) /\ WorthOf(m, S) = u[S]
    <3> DEFINE Is(u) == AddsUp(u, m, S)
    <3>1. Is(v)
      BY <2>2
    <3>2. WorthOf(m, S) = (CHOOSE u : Is(u))[S]
      BY WorthFolds
    <3> HIDE DEF Is
    <3>3. Is(CHOOSE u : Is(u))
      BY <3>1
    <3> QED BY <3>2, <3>3 DEF Is
  <2>4. w[S] = u[S]
    BY <1>1, <1>3, <2>3, FoldsAgree
  <2> QED BY <2>3, <2>4
<1>6. AnyOrder(w, m)
  BY <1>3, FoldsInAnyOrder
<1> QED BY <1>3, <1>4, <1>5, <1>6

LEMMA WorthType ==
    ASSUME NEW m \in [Payment -> PaymentType], NEW S \in SUBSET Payment
    PROVE  WorthOf(m, S) \in Nat
<1>1. PICK w \in [SUBSET Payment -> Nat] : \A R \in SUBSET Payment : WorthOf(m, R) = w[R]
  BY WorthIs
<1> QED BY <1>1

LEMMA WorthMore ==
    ASSUME NEW m \in [Payment -> PaymentType], NEW S \in SUBSET Payment, NEW x \in S
    PROVE  WorthOf(m, S) = m[x].amount + WorthOf(m, S \ {x})
<1>1. PICK w \in [SUBSET Payment -> Nat] :
          /\ \A R \in SUBSET Payment : WorthOf(m, R) = w[R]
          /\ AnyOrder(w, m)
  BY WorthIs
<1>2. S \ {x} \in SUBSET Payment
  OBVIOUS
<1> QED BY <1>1, <1>2 DEF AnyOrder

(* Only the amounts of those in it count.                                    *)
LEMMA WorthSame ==
    ASSUME NEW m \in [Payment -> PaymentType], NEW n \in [Payment -> PaymentType],
           NEW S \in SUBSET Payment, \A x \in S : m[x].amount = n[x].amount
    PROVE  WorthOf(m, S) = WorthOf(n, S)
<1>1. PICK w \in [SUBSET Payment -> Nat] :
          /\ AddsUp(w, m, Payment)
          /\ \A R \in SUBSET Payment : WorthOf(m, R) = w[R]
  BY WorthIs
<1>2. PICK v \in [SUBSET Payment -> Nat] :
          /\ AddsUp(v, n, Payment)
          /\ \A R \in SUBSET Payment : WorthOf(n, R) = v[R]
  BY WorthIs
<1>3. IsFiniteSet(S) /\ IsFiniteSet(Payment)
  BY LedgerAssumption, FS_Subset
<1>4. AddsUp([R \in SUBSET S |-> v[R]], n, S)
  <2> DEFINE u == [R \in SUBSET S |-> v[R]]
  <2>1. ASSUME NEW R \in SUBSET S PROVE v[R] = Added(u, n, R)
    <3>1. v[R] = Added(v, n, R)
      BY <1>2 DEF AddsUp
    <3>2. R # {} => u[R \ {Pick(R)}] = v[R \ {Pick(R)}]
      OBVIOUS
    <3> QED BY <3>1, <3>2 DEF Added
  <2> QED BY <2>1 DEF AddsUp
<1>5. PICK u : AddsUp(u, n, S) /\ u[S] = v[S]
  BY <1>4
<1>6. w[S] = u[S]
  BY <1>1, <1>3, <1>5, FoldsAgree
<1> QED BY <1>1, <1>2, <1>5, <1>6

(* Fewer payments are not worth more.                                        *)
LEMMA WorthFewer ==
    ASSUME NEW m \in [Payment -> PaymentType], NEW S0 \in SUBSET Payment, NEW R \in SUBSET S0
    PROVE  WorthOf(m, R) <= WorthOf(m, S0)
<1> DEFINE T == {S \in SUBSET Payment : R \subseteq S => WorthOf(m, R) <= WorthOf(m, S)}
<1>1. ASSUME NEW S \in SUBSET Payment, \A x \in S : S \ {x} \in T, R \subseteq S
      PROVE  WorthOf(m, R) <= WorthOf(m, S)
  <2>1. CASE S = R
    BY <2>1, WorthType
  <2>2. CASE S # R
    <3>1. PICK x \in S : x \notin R
      BY <1>1, <2>2
    <3>2. PICK Q \in SUBSET Payment : Q = S \ {x}
      OBVIOUS
    <3>3. WorthOf(m, R) <= WorthOf(m, Q)
      BY <1>1, <3>1, <3>2
    <3>4. WorthOf(m, S) = m[x].amount + WorthOf(m, Q)
      BY <3>2, WorthMore
    <3>5. /\ WorthOf(m, Q) \in Nat /\ WorthOf(m, R) \in Nat /\ m[x].amount \in Nat
      BY WorthType DEF PaymentType
    <3> QED BY <3>3, <3>4, <3>5
  <2> QED BY <2>1, <2>2
<1>2. \A S \in SUBSET Payment : (\A x \in S : S \ {x} \in T) => S \in T
  BY <1>1
<1>3. S0 \in T
  <2> HIDE DEF T
  <2>1. IsFiniteSet(Payment)
    BY LedgerAssumption
  <2>2. \A S \in SUBSET Payment : S \in T
    BY <1>2, <2>1, OneFewer
  <2> QED BY <2>2
<1> QED BY <1>3

-----------------------------------------------------------------------------
(* New bills and their advances                                              *)

(* Payments and requests name only bills that were made.                     *)
OnMade ==
    /\ \A x \in Payment : payments[x].bill # None => bills[payments[x].bill].status # "absent"
    /\ \A p \in Request : req[p].bill # None => bills[req[p].bill].status # "absent"

LiveOf(m, S) == {x \in S : m[x].status = "live"}

(* The advances a new bill is about to be given still fit it.                *)
Fitting ==
    \A p \in Request : req[p].pc = "attach" =>
        WorthOf(payments, LiveOf(payments, req[p].rows)) <= req[p].total

NoAmountChanges == {"createBill", "updatePayment"} \in Apart

(* An advance that a new bill has read may be deleted, and is worth what it  *)
(* was read as.                                                              *)
LEMMA AdvancesStay ==
    ASSUME NoAmountChanges, Typed, [Next]_vars, NEW r \in Request, req[r].pc = "attach",
           NEW z \in req[r].rows
    PROVE  /\ z \in Payment /\ payments'[z].amount = payments[z].amount
           /\ payments'[z].status = "live" => payments[z].status = "live"
<1> USE DEF Typed
<1>1. z \in Payment /\ payments[z].status # "absent" /\ payments[z] \in PaymentType
  BY DEF Requests, RequestType, Existing, Tables
<1>2. req[r].op = "createBill"
  BY DEF Requests, RequestOK
<1>3. ASSUME NEW p \in Request, Starts(p) \/ Fails(p) \/ ReadAdvances(p) \/ AttachAdvance(p)
                                \/ TakeReceipt(p) \/ BreakDeadlock(p)
      PROVE  payments' = payments
  BY <1>3, StartsTouchNoTable DEF Fails, ReadAdvances, AttachAdvance, TakeReceipt, BreakDeadlock
<1>4. ASSUME NEW p \in Request, IssueBill(p)
      PROVE  payments'[z].amount = payments[z].amount /\ payments'[z].status = payments[z].status
  <2>1. CASE UNCHANGED payments
    BY <2>1
  <2>2. ASSUME NEW b \in Bill, NEW x \in Payment \cup {None}, Issues(p, b, x)
        PROVE  payments'[z].amount = payments[z].amount /\ payments'[z].status = payments[z].status
    <3>1. z # x
      BY <1>1, <2>2, LedgerAssumption DEF Issues, Unrecorded
    <3> QED BY <1>1, <2>2, <3>1 DEF Issues, PaymentType
  <2> QED BY <1>4, <2>1, <2>2, IssueCases
<1>5. ASSUME NEW p \in Request, InsertPayment(p) PROVE payments'[z] = payments[z]
  BY <1>1, <1>5 DEF InsertPayment, Unrecorded, Tables
<1>6. ASSUME NEW p \in Request, CancelBill(p)
      PROVE  payments'[z].amount = payments[z].amount /\ payments'[z].status = payments[z].status
  BY <1>1, <1>6 DEF CancelBill, PaymentType
<1>7. ASSUME NEW x \in Payment, UpdatePayment(x) PROVE FALSE
  <2>1. {"updatePayment", req[r].op} \notin Apart
    BY <1>2, <1>7 DEF UpdatePayment, Clear
  <2>2. {"updatePayment", "createBill"} = {"createBill", "updatePayment"}
    OBVIOUS
  <2> QED BY <1>2, <2>1, <2>2 DEF NoAmountChanges
<1>8. ASSUME NEW x \in Payment, DeletePayment(x)
      PROVE  /\ payments'[z].amount = payments[z].amount
             /\ payments'[z].status = "live" => payments[z].status = "live"
  BY <1>1, <1>8 DEF DeletePayment, Tables, PaymentType
<1> QED BY <1>1, <1>3, <1>4, <1>5, <1>6, <1>7, <1>8 DEF Next, Works, vars, UpdateBill

LEMMA FitsOn ==
    ASSUME NoAmountChanges, Typed, Typed', [Next]_vars, NEW r \in Request, req[r].pc = "attach"
    PROVE  WorthOf(payments', LiveOf(payments', req[r].rows))
             <= WorthOf(payments, LiveOf(payments, req[r].rows))
<1>1. /\ payments \in [Payment -> PaymentType] /\ payments' \in [Payment -> PaymentType]
      /\ req[r].rows \in SUBSET Payment
  BY DEF Typed, Tables, Requests, RequestType
<1>2. \A z \in req[r].rows : /\ payments'[z].amount = payments[z].amount
                             /\ payments'[z].status = "live" => payments[z].status = "live"
  BY AdvancesStay
<1> DEFINE S == LiveOf(payments, req[r].rows)
           R == LiveOf(payments', req[r].rows)
<1>3. /\ S \in SUBSET Payment /\ R \in SUBSET Payment /\ R \in SUBSET S
      /\ \A z \in R : payments'[z].amount = payments[z].amount
  BY <1>1, <1>2 DEF LiveOf
<1> HIDE DEF S, R
<1>4. WorthOf(payments', R) = WorthOf(payments, R)
  BY <1>1, <1>3, WorthSame
<1>5. WorthOf(payments, R) <= WorthOf(payments, S)
  BY <1>1, <1>3, WorthFewer
<1>6. WorthOf(payments', R) <= WorthOf(payments, S)
  BY <1>4, <1>5
<1> QED BY <1>6 DEF S, R

LEMMA WorthNow == ASSUME NEW S PROVE Worth(S) = WorthOf(payments, S)
BY DEF Worth, WorthOf, MapThenSumSet, MapThenFoldSet

LEMMA PaidThen ==
    ASSUME NEW b
    PROVE  PaidOn(b)' = WorthOf(payments', {x \in Payment : payments'[x].status = "live"
                                                            /\ payments'[x].bill = b})
BY DEF PaidOn, Live, Worth, WorthOf, MapThenSumSet, MapThenFoldSet

(* A request at its advances was so before, or has just read them.           *)
LEMMA WhoAttaches ==
    ASSUME Typed, [Next]_vars, NEW r \in Request, req'[r].pc = "attach"
    PROVE  \/ req[r].pc = "attach" /\ req'[r].rows = req[r].rows /\ req'[r].total = req[r].total
           \/ /\ UNCHANGED payments
              /\ req'[r].rows \subseteq Payment
              /\ \A x \in req'[r].rows : payments[x].status = "live"
              /\ WorthOf(payments, req'[r].rows) <= req'[r].total
<1> USE DEF Typed
<1>1. Idle.pc # "attach" /\ req[r] \in RequestType
  BY DEF Idle, Requests
<1>2. ASSUME NEW p \in Request, Starts(p) PROVE req'[r] = req[r]
  <2>1. ASSUME NEW k, Goto(p, k), k.pc # "attach" PROVE req'[r] = req[r]
    BY <2>1 DEF Goto, Requests
  <2>2. ASSUME NEW a \in Party, StartRecord(p, a) PROVE req'[r] = req[r]
    BY <2>1, <2>2 DEF StartRecord, Idle
  <2>3. ASSUME NEW a \in Party, NEW y \in Year, StartCreateBill(p, a, y) PROVE req'[r] = req[r]
    BY <2>1, <2>3 DEF StartCreateBill, Idle
  <2>4. ASSUME NEW b \in Bill, StartRecordOnBill(p, b) \/ StartCancelBill(p, b)
        PROVE  req'[r] = req[r]
    BY <2>1, <2>4 DEF StartRecordOnBill, StartCancelBill, Idle
  <2> QED BY <1>2, <2>2, <2>3, <2>4 DEF Starts
<1>3. ASSUME NEW p \in Request, IssueBill(p) \/ InsertPayment(p) \/ CancelBill(p)
                                \/ BreakDeadlock(p) \/ Fails(p)
      PROVE  req'[r] = req[r]
  <2>1. \A q \in Request : req'[q] = IF q = p THEN Idle ELSE req[q]
    BY <1>3, EndKeeps, FailKeeps DEF IssueBill, InsertPayment, CancelBill, BreakDeadlock
  <2> QED BY <1>1, <2>1
<1>4. ASSUME NEW p \in Request, AttachAdvance(p) \/ TakeReceipt(p)
      PROVE  req[r].pc = "attach" /\ req'[r].rows = req[r].rows /\ req'[r].total = req[r].total
  <2>1. CASE AttachAdvance(p)
    BY <1>1, <2>1 DEF AttachAdvance, Goto, Requests, RequestType
  <2>2. CASE TakeReceipt(p)
    BY <1>1, <2>2 DEF TakeReceipt, Goto, Requests, RequestType
  <2> QED BY <1>4, <2>1, <2>2
<1>5. ASSUME NEW p \in Request, ReadAdvances(p), r = p
      PROVE  /\ UNCHANGED payments
             /\ req'[r].rows \subseteq Payment
             /\ \A x \in req'[r].rows : payments[x].status = "live"
             /\ WorthOf(payments, req'[r].rows) <= req'[r].total
  <2>1. PICK S \in SUBSET Free(req[r].party) :
            /\ Fits(S, Free(req[r].party), req[r].total)
            /\ Goto(r, [req[r] EXCEPT !.pc = "attach", !.rows = S])
            /\ UNCHANGED payments
    BY <1>5 DEF ReadAdvances
  <2>2. req'[r].rows = S /\ req'[r].total = req[r].total
    BY <1>1, <2>1 DEF Goto, Requests, RequestType
  <2>3. WorthOf(payments, S) <= req[r].total
    BY <2>1, WorthNow DEF Fits
  <2> QED BY <2>1, <2>2, <2>3 DEF Free, Live
<1>6. ASSUME NEW p \in Request, ReadAdvances(p), r # p PROVE req'[r] = req[r]
  BY <1>6 DEF ReadAdvances, Goto, Requests
<1> QED BY <1>2, <1>3, <1>4, <1>5, <1>6 DEF Next, Works, vars, UpdateBill, UpdatePayment, DeletePayment

LEMMA FittingStep ==
    ASSUME NoAmountChanges, Typed, Typed', [Next]_vars, Fitting
    PROVE  Fitting'
<1>1. ASSUME NEW r \in Request, req'[r].pc = "attach"
      PROVE  WorthOf(payments', LiveOf(payments', req'[r].rows)) <= req'[r].total
  <2>1. CASE /\ req[r].pc = "attach"
             /\ req'[r].rows = req[r].rows /\ req'[r].total = req[r].total
    <3>1. PICK S, R \in SUBSET Payment :
              S = LiveOf(payments, req[r].rows) /\ R = LiveOf(payments', req[r].rows)
      BY DEF Typed, Requests, RequestType, LiveOf
    <3>2. WorthOf(payments', R) <= WorthOf(payments, S) /\ WorthOf(payments, S) <= req[r].total
      BY <2>1, <3>1, FitsOn DEF Fitting
    <3>3. WorthOf(payments', R) \in Nat /\ WorthOf(payments, S) \in Nat /\ req[r].total \in Nat
      BY WorthType DEF Typed, Tables, Requests, RequestType
    <3> QED BY <2>1, <3>1, <3>2, <3>3
  <2>2. CASE /\ UNCHANGED payments
             /\ \A x \in req'[r].rows : payments[x].status = "live"
             /\ WorthOf(payments, req'[r].rows) <= req'[r].total
    <3>1. LiveOf(payments', req'[r].rows) = req'[r].rows
      BY <2>2 DEF LiveOf
    <3> QED BY <2>2, <3>1
  <2> QED BY <1>1, <2>1, <2>2, WhoAttaches
<1> QED BY <1>1 DEF Fitting

(* Requests keep their bill, or begin with one that was made.                *)
LEMMA RequestsOnMade ==
    ASSUME Typed, OnMade, [Next]_vars, NEW r \in Request, req'[r].bill # None
    PROVE  bills[req'[r].bill].status # "absent"
<1> USE DEF Typed
<1>1. Idle.bill = None /\ req[r] \in RequestType
  BY DEF Idle, Requests
<1>2. ASSUME NEW p \in Request, Starts(p)
      PROVE  \/ req'[r] = req[r]
             \/ req'[r].bill = None \/ bills[req'[r].bill].status # "absent"
  <2>1. ASSUME NEW k, Goto(p, k), k.bill = None \/ bills[k.bill].status # "absent"
        PROVE  \/ req'[r] = req[r]
               \/ req'[r].bill = None \/ bills[req'[r].bill].status # "absent"
    BY <2>1 DEF Goto, Requests
  <2>2. ASSUME NEW a \in Party, StartRecord(p, a)
        PROVE  \E k : Goto(p, k) /\ (k.bill = None \/ bills[k.bill].status # "absent")
    <3>1. PICK m \in Amount, b \in Bill \cup {None} :
             /\ Goto(p, [Idle EXCEPT !.op = "record", !.pc = "receipt", !.bill = b, !.party = a,
                                     !.amount = m])
             /\ b # None => bills[b].status = "issued"
      BY <2>2, LedgerAssumption DEF StartRecord, Owing
    <3> DEFINE k == [Idle EXCEPT !.op = "record", !.pc = "receipt", !.bill = b, !.party = a,
                                 !.amount = m]
    <3>2. k.bill = b
      BY DEF Idle
    <3>3. Goto(p, k)
      BY <3>1
    <3> HIDE DEF k
    <3> QED BY <3>1, <3>2, <3>3
  <2>3. ASSUME NEW a \in Party, NEW y \in Year, StartCreateBill(p, a, y)
        PROVE  \E k : Goto(p, k) /\ k.bill = None
    <3>1. PICK t, m : Goto(p, [Idle EXCEPT !.op = "createBill", !.pc = "read", !.party = a,
                                 !.year = y, !.total = t, !.amount = m, !.number = years[y] + 1])
      BY <2>3 DEF StartCreateBill
    <3> DEFINE k == [Idle EXCEPT !.op = "createBill", !.pc = "read", !.party = a,
                                 !.year = y, !.total = t, !.amount = m, !.number = years[y] + 1]
    <3>2. k.bill = None
      BY DEF Idle
    <3>3. Goto(p, k)
      BY <3>1
    <3> HIDE DEF k
    <3> QED BY <3>2, <3>3
  <2>4. ASSUME NEW b \in Bill, StartRecordOnBill(p, b) \/ StartCancelBill(p, b)
        PROVE  \E k : Goto(p, k) /\ k.bill = b /\ bills[b].status # "absent"
    BY <2>4 DEF StartRecordOnBill, StartCancelBill, Idle
  <2> QED BY <1>2, <2>1, <2>2, <2>3, <2>4 DEF Starts
<1>3. ASSUME NEW p \in Request, Works(p) \/ Fails(p)
      PROVE  req'[r] = Idle \/ req'[r].bill = req[r].bill
  <2>1. CASE IssueBill(p) \/ InsertPayment(p) \/ CancelBill(p) \/ BreakDeadlock(p) \/ Fails(p)
    <3>1. \A q \in Request : req'[q] = IF q = p THEN Idle ELSE req[q]
      BY <2>1, EndKeeps, FailKeeps DEF IssueBill, InsertPayment, CancelBill, BreakDeadlock
    <3> QED BY <3>1
  <2>2. CASE ReadAdvances(p)
    BY <1>1, <2>2 DEF ReadAdvances, Goto, Requests, RequestType
  <2>3. CASE AttachAdvance(p)
    BY <1>1, <2>3 DEF AttachAdvance, Goto, Requests, RequestType
  <2>4. CASE TakeReceipt(p)
    BY <1>1, <2>4 DEF TakeReceipt, Goto, Requests, RequestType
  <2> QED BY <1>3, <2>1, <2>2, <2>3, <2>4 DEF Works
<1>4. \/ req'[r] = req[r] \/ req'[r] = Idle \/ req'[r].bill = req[r].bill
      \/ req'[r].bill = None \/ bills[req'[r].bill].status # "absent"
  BY <1>2, <1>3 DEF Next, vars, UpdateBill, UpdatePayment, DeletePayment
<1> QED BY <1>1, <1>4 DEF OnMade

(* Money goes to a bill that is made in that step, or to the request's.      *)
LEMMA PaymentsOnMade ==
    ASSUME Typed, OnMade, [Next]_vars, NEW z \in Payment, payments'[z].bill # None
    PROVE  \/ bills[payments'[z].bill].status # "absent"
           \/ bills'[payments'[z].bill].status = "issued"
<1> USE DEF Typed
<1>1. payments[z] \in PaymentType
  BY DEF Tables
<1>2. ASSUME NEW p \in Request, Starts(p) \/ Fails(p) \/ ReadAdvances(p) \/ AttachAdvance(p)
                                \/ TakeReceipt(p) \/ BreakDeadlock(p)
      PROVE  payments' = payments
  BY <1>2, StartsTouchNoTable DEF Fails, ReadAdvances, AttachAdvance, TakeReceipt, BreakDeadlock
<1>3. ASSUME NEW p \in Request, IssueBill(p)
      PROVE  payments'[z].bill = payments[z].bill \/ bills'[payments'[z].bill].status = "issued"
  <2>1. ASSUME NEW b \in Bill, NEW x \in Payment \cup {None}, Issues(p, b, x)
        PROVE  \/ payments'[z] = payments[z]
               \/ payments'[z].bill = b /\ bills'[b].status = "issued"
    BY <1>1, <2>1 DEF Issues, PaymentType, Tables, Recorded
  <2> QED BY <1>3, <2>1, IssueCases
<1>4. ASSUME NEW p \in Request, InsertPayment(p)
      PROVE  payments'[z] = payments[z] \/ payments'[z].bill = req[p].bill
  BY <1>1, <1>4 DEF InsertPayment, Tables, Recorded
<1>5. ASSUME NEW p \in Request, CancelBill(p)
      PROVE  payments'[z] = payments[z] \/ payments'[z].bill = None
  BY <1>1, <1>5 DEF CancelBill, PaymentType
<1>6. ASSUME NEW x \in Payment, UpdatePayment(x) \/ DeletePayment(x)
      PROVE  payments'[z].bill = payments[z].bill
  BY <1>1, <1>6 DEF UpdatePayment, DeletePayment, Tables, PaymentType
<1> QED BY <1>2, <1>3, <1>4, <1>5, <1>6 DEF Next, Works, vars, UpdateBill, OnMade

LEMMA OnMadeStep ==
    ASSUME Typed, Typed', OnMade, [Next]_vars
    PROVE  OnMade'
<1>1. ASSUME NEW r \in Request, req'[r].bill # None PROVE bills'[req'[r].bill].status # "absent"
  <2>1. req'[r].bill \in Bill
    BY <1>1 DEF Typed, Requests, RequestType
  <2> QED BY <1>1, <2>1, RequestsOnMade, MadeStays
<1>2. ASSUME NEW z \in Payment, payments'[z].bill # None
      PROVE  bills'[payments'[z].bill].status # "absent"
  <2>1. payments'[z].bill \in Bill
    BY <1>2 DEF Typed, Tables, PaymentType
  <2> QED BY <1>2, <2>1, PaymentsOnMade, MadeStays
<1> QED BY <1>1, <1>2 DEF OnMade

FitInv == Typed /\ OnMade /\ Fitting

(* Only createBill issues a bill, for what it has gathered.                  *)
LEMMA WhoIssues ==
    ASSUME Typed, [Next]_vars, NEW c \in Bill, bills[c].status = "absent", bills'[c].status = "issued"
    PROVE  \E p \in Request, x \in Payment \cup {None} :
              Issues(p, c, x) /\ req[p].pc = "attach" /\ req[p].held = req[p].rows /\ Payable(req[p])
<1> USE DEF Typed
<1>1. ASSUME NEW p \in Request, Starts(p) \/ Fails(p) \/ ReadAdvances(p) \/ AttachAdvance(p)
                                \/ TakeReceipt(p) \/ InsertPayment(p) \/ BreakDeadlock(p)
      PROVE  bills' = bills
  BY <1>1, StartsTouchNoTable DEF Fails, ReadAdvances, AttachAdvance, TakeReceipt, InsertPayment,
     BreakDeadlock
<1>2. ASSUME NEW p \in Request, IssueBill(p)
      PROVE  \E x \in Payment \cup {None} :
                Issues(p, c, x) /\ req[p].pc = "attach" /\ req[p].held = req[p].rows /\ Payable(req[p])
  <2>1. ~(UNCHANGED <<bills, payments, years, receipts>>)
    OBVIOUS
  <2>2. req[p].pc = "attach" /\ req[p].held = req[p].rows /\ Payable(req[p])
    BY <1>2, <2>1 DEF IssueBill
  <2>3. PICK b \in Bill, x \in Payment \cup {None} : Issues(p, b, x)
    BY <1>2, <2>1, IssueCases
  <2>4. b = c
    BY <2>3 DEF Issues, Tables
  <2> QED BY <2>2, <2>3, <2>4
<1>3. ASSUME NEW p \in Request, CancelBill(p) PROVE FALSE
  BY <1>3 DEF CancelBill, Tables, BillType
<1>4. ASSUME NEW b \in Bill, UpdateBill(b) PROVE FALSE
  BY <1>4 DEF UpdateBill, Tables, BillType
<1> QED BY <1>1, <1>2, <1>3, <1>4 DEF Next, Works, vars, UpdatePayment, DeletePayment

(* What it has gathered fits, and so does the money that comes with it.      *)
LEMMA IssueFits ==
    ASSUME FitInv, Typed', NEW c \in Bill, NEW p \in Request, NEW x \in Payment \cup {None},
           Issues(p, c, x), req[p].pc = "attach", req[p].held = req[p].rows, Payable(req[p])
    PROVE  PaidOn(c)' <= bills'[c].total
<1> USE DEF FitInv, Typed
<1>1. /\ payments \in [Payment -> PaymentType] /\ payments' \in [Payment -> PaymentType]
      /\ req[p] \in RequestType /\ bills'[c].total = req[p].total
  BY DEF Tables, Requests, Issues
<1> DEFINE S == LiveOf(payments, req[p].held)
           P == {z \in Payment : payments'[z].status = "live" /\ payments'[z].bill = c}
<1>2. S \in SUBSET Payment /\ P \in SUBSET Payment
  BY <1>1 DEF LiveOf, RequestType
<1>3. WorthOf(payments, S) <= req[p].total
  BY DEF Fitting
<1>4. \A z \in Payment : payments[z].bill # c
  <2>1. bills[c].status = "absent" /\ c # None
    BY LedgerAssumption DEF Issues
  <2> QED BY <2>1 DEF OnMade
<1>5. \A z \in S : /\ z # x /\ payments'[z].bill = c
                   /\ payments'[z].amount = payments[z].amount
                   /\ payments'[z].status = payments[z].status
  <2>1. ASSUME NEW z \in S PROVE z # x
    BY <1>2, LedgerAssumption DEF LiveOf, Issues, Unrecorded
  <2>2. ASSUME NEW z \in S PROVE payments'[z] = [payments[z] EXCEPT !.bill = c]
    BY <1>2 DEF LiveOf, Issues
  <2>3. ASSUME NEW z \in S PROVE payments[z] \in PaymentType
    BY <1>1, <1>2
  <2> HIDE DEF S
  <2> QED BY <2>1, <2>2, <2>3 DEF PaymentType
<1>6. \A z \in S : payments'[z].amount = payments[z].amount
  <2> HIDE DEF S
  <2> QED BY <1>5
<1>7. P = S \cup {z \in Payment : z = x}
  <2>1. ASSUME NEW z \in S PROVE z \in P
    BY <1>1, <1>2, <1>5 DEF PaymentType, LiveOf
  <2>2. ASSUME NEW z \in Payment, z = x PROVE z \in P
    <3>1. z \notin req[p].held
      BY <2>2, LedgerAssumption DEF Issues, Unrecorded, Existing
    <3> QED BY <2>2, <3>1 DEF Issues, Recorded
  <2>3. ASSUME NEW z \in P, z # x PROVE z \in S
    <3>1. z \in req[p].held
      BY <1>2, <1>4, <2>3 DEF Issues
    <3> QED BY <1>1, <1>2, <2>3, <3>1 DEF Issues, LiveOf, PaymentType
  <2> QED BY <1>2, <2>1, <2>2, <2>3
<1>8. PaidOn(c)' = WorthOf(payments', P)
  BY PaidThen
<1>9. Worth({z \in req[p].held : Live(z)}) = WorthOf(payments, S)
  BY WorthNow DEF LiveOf, Live
<1> HIDE DEF S, P
<1>10. WorthOf(payments', S) = WorthOf(payments, S)
  BY <1>1, <1>2, <1>6, WorthSame
<1>11. CASE x = None
  <2>1. P = S
    BY <1>7, <1>11, LedgerAssumption
  <2> QED BY <1>1, <1>3, <1>8, <1>10, <2>1
<1>12. CASE x # None
  <2>1. x \in P /\ P \ {x} = S
    BY <1>5, <1>7, <1>12
  <2>2. payments'[x].amount = req[p].amount
    <3>1. x \in Payment /\ x \notin req[p].held
      BY <1>12, LedgerAssumption DEF Issues, Unrecorded, Existing
    <3> QED BY <3>1 DEF Issues, Recorded
  <2>3. WorthOf(payments', P) = payments'[x].amount + WorthOf(payments', S)
    BY <1>1, <1>2, <2>1, WorthMore
  <2>4. req[p].amount > 0
    BY <1>1, <1>12 DEF Issues, RequestType
  <2>5. WorthOf(payments, S) + req[p].amount <= req[p].total
    BY <1>9, <2>4 DEF Payable
  <2>6. WorthOf(payments, S) \in Nat /\ req[p].amount \in Nat
    BY <1>1, <1>2, WorthType DEF RequestType
  <2> QED BY <1>1, <1>8, <1>10, <2>2, <2>3, <2>5, <2>6
<1> QED BY <1>11, <1>12

(* However many bills are made at once, whatever is recorded, deleted,       *)
(* cancelled or rolled back meanwhile, a new bill is not given more          *)
(* advances, and more money with it, than it comes to, as long as no         *)
(* payment's amount is changed while a bill is being made.                   *)
THEOREM AdvancesFit ==
    ASSUME NoAmountChanges
    PROVE  Spec => NewBillNotOverpaid
<1> DEFINE Fit == \A b \in Bill : bills[b].status = "absent" /\ bills'[b].status = "issued" =>
                      PaidOn(b)' <= bills'[b].total
<1>1. Init => FitInv
  <2> SUFFICES ASSUME Init PROVE FitInv
    OBVIOUS
  <2>1. Typed
    BY TypedInit
  <2> QED BY <2>1 DEF FitInv, Init, OnMade, Fitting, NoPayment, Idle
<1>2. FitInv /\ [Next]_vars => FitInv'
  BY TypedStep, OnMadeStep, FittingStep DEF FitInv
<1>3. FitInv /\ [Next]_vars => [Fit]_vars
  <2> SUFFICES ASSUME FitInv, [Next]_vars PROVE Fit
    OBVIOUS
  <2>1. ASSUME NEW b \in Bill, bills[b].status = "absent", bills'[b].status = "issued"
        PROVE  PaidOn(b)' <= bills'[b].total
    <3>1. Typed /\ Typed'
      BY TypedStep DEF FitInv
    <3> QED BY <2>1, <3>1, WhoIssues, IssueFits
  <2> QED BY <2>1
<1>4. FitInv /\ [Next]_vars => [\A b \in Bill : bills[b].status = "absent" /\ bills'[b].status = "issued" =>
                      PaidOn(b)' <= bills'[b].total]_vars
  BY <1>3
<1> QED BY <1>1, <1>2, <1>4, PTL DEF Spec, NewBillNotOverpaid
=============================================================================
