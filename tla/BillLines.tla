----------------------------- MODULE BillLines ------------------------------
(* The sums of one invoice, from the first save through its edits: every     *)
(* line's share of the discount and its GST, the rounded total, and the      *)
(* parts of the payment plan.  Money is in paise, GST in percent, the parts  *)
(* in hundredths of one; an edit leaves out what it does not change.         *)
EXTENDS Integers, Sequences

CONSTANTS
    ItemList,   \* the lines somebody may type: quantity, rate and GST of each
    Discount,   \* the discounts in paise they may type
    Percent,    \* the discounts in percent, 0 for none
    PlanList,   \* the plans: each part in hundredths of a percent, or an amount
    MaxEdits    \* bound: how often the invoice is edited

ASSUME LinesAssumption ==
    /\ ItemList \subseteq Seq([quantity : Nat, rate : Nat, gst : Nat])
    /\ PlanList \subseteq Seq([percent : Nat, amount : Nat])
    /\ Discount \subseteq Nat /\ Percent \subseteq Nat /\ MaxEdits \in Nat

VARIABLES
    invoice,    \* the bill with its bill_items and bill_instalments
    edits

linesVars == <<invoice, edits>>

None == [saved |-> FALSE]

LinesInit == invoice = None /\ edits = 0

Sum(s) ==
    LET upTo[i \in 0 .. Len(s)] == IF i = 0 THEN 0 ELSE upTo[i - 1] + s[i]
    IN  upTo[Len(s)]

(* round2 and Math.round of n / d, for n from 0 *)
Rounded(n, d) == (2 * n + d) \div (2 * d)
Least(a, b) == IF a <= b THEN a ELSE b

-----------------------------------------------------------------------------
(* computeLines *)

Amounts(items) == [i \in DOMAIN items |-> items[i].quantity * items[i].rate]

(* Mutant: the line at the bottom takes what is left, whatever it costs. *)
BottomLine(amounts) == Len(amounts)

(* The last line that costs something takes the paise that are left.         *)
LastLine(amounts) ==
    LET costing == {i \in DOMAIN amounts : amounts[i] > 0}
    IN  IF costing = {} THEN 0 ELSE CHOOSE i \in costing : \A j \in costing : j <= i

Shares(amounts, discount) ==
    LET last == LastLine(amounts)
        part == [i \in DOMAIN amounts |->
                   IF i = last \/ amounts[i] = 0 THEN 0
                   ELSE Rounded(discount * amounts[i], Sum(amounts))]
    IN  [i \in DOMAIN amounts |-> IF i = last /\ amounts[i] > 0 THEN discount - Sum(part)
                                  ELSE part[i]]

(* computeBillTotals: within the state a line's GST is half CGST, half SGST. *)
Line(item, amount, share, inter) ==
    LET taxable == IF amount >= share THEN amount - share ELSE 0
        gst == Rounded(taxable * item.gst, 100)
        cgst == IF inter THEN 0 ELSE Rounded(gst, 2)
    IN  [quantity |-> item.quantity, rate |-> item.rate, gst |-> item.gst,
         amount |-> amount, discount |-> share, taxable |-> taxable,
         cgst |-> cgst, sgst |-> IF inter THEN 0 ELSE gst - cgst, igst |-> IF inter THEN gst ELSE 0]

Column(lines, name) == Sum([i \in DOMAIN lines |-> lines[i][name]])

-----------------------------------------------------------------------------
(* prepareBillLines                                                          *)

BeforeGst(item) == [item EXCEPT !.rate = Rounded(@ * 100, 100 + item.gst)]

(* A rupee discount on prices with GST is taken off the price with GST.      *)
DiscountBefore(typed, items, before, percent, inclusive) ==
    LET subtotal == Sum(Amounts(before)) IN
    CASE percent > 0 -> Least(subtotal, Rounded(subtotal * percent, 100))
      [] percent = 0 /\ inclusive /\ typed > 0 /\ subtotal > 0 ->
            Least(subtotal, Rounded(typed * subtotal, Sum(Amounts(items))))
      [] OTHER -> typed

-----------------------------------------------------------------------------
(* savePlan                                                                  *)

(* Mutant: every part is rounded by itself. *)
EachRounded(plan, total) ==
    [i \in DOMAIN plan |-> IF plan[i].percent > 0 THEN Rounded(total * plan[i].percent, 10000)
                           ELSE plan[i].amount]

(* instalmentAmounts: all in percent, the last part takes the rounding.      *)
PartAmounts(plan, total) ==
    LET parts == [i \in DOMAIN plan |->
                    IF plan[i].percent > 0 THEN Rounded(total * plan[i].percent, 10000)
                    ELSE plan[i].amount]
        percents == [i \in DOMAIN plan |-> plan[i].percent]
        rest == Sum([i \in 1 .. Len(plan) - 1 |-> parts[i]])
    IN  IF (\A i \in DOMAIN plan : percents[i] > 0) /\ Sum(percents) = 10000
        THEN [parts EXCEPT ![Len(plan)] = total - rest] ELSE parts

PlanFits(plan, total) ==
    LET parts == PartAmounts(plan, total)
        gap == Sum(parts) - total
    IN  plan = <<>> \/ (gap \in -50 .. 50 /\ \A i \in DOMAIN plan : parts[i] > 0)

SavedPlan(plan, total) ==
    LET parts == PartAmounts(plan, total)
    IN  [i \in DOMAIN plan |-> [percent |-> plan[i].percent, amount |-> parts[i]]]

-----------------------------------------------------------------------------
(* writeLines, and savePlan for its total *)
Write(bill, items, typed, inclusive, plan) ==
    LET taxed == [i \in DOMAIN items |-> IF bill.gst THEN items[i] ELSE [items[i] EXCEPT !.gst = 0]]
    IN
    \E before \in {IF inclusive THEN [i \in DOMAIN items |-> BeforeGst(taxed[i])] ELSE taxed} :
    \E amounts \in {Amounts(before)} :
    \E off \in {Least(DiscountBefore(typed, items, before, bill.percent, inclusive), Sum(amounts))} :
    \E shares \in {Shares(amounts, off)} :
    \E lines \in {[i \in DOMAIN before |-> Line(before[i], amounts[i], shares[i], bill.inter)]} :
    LET tax == Column(lines, "cgst") + Column(lines, "sgst") + Column(lines, "igst")
        total == 100 * Rounded(Sum(amounts) - off + tax, 100)
    IN  /\ PlanFits(plan, total)
        /\ invoice' = [saved |-> TRUE, gst |-> bill.gst, inclusive |-> bill.inclusive,
                       inter |-> bill.inter, percent |-> bill.percent, lines |-> lines,
                       subtotal |-> Sum(amounts), discount |-> off, tax |-> tax, total |-> total,
                       plan |-> SavedPlan(plan, total)]

CreateBillLines(items, typed, percent, plan) ==
    /\ ~invoice.saved
    /\ \E gst, inclusive, inter \in BOOLEAN :
          /\ inclusive \/ inter => gst
          /\ Write([gst |-> gst, inclusive |-> inclusive, inter |-> inter, percent |-> percent],
                   items, typed, inclusive, plan)

Kept == [i \in DOMAIN invoice.lines |-> [quantity |-> invoice.lines[i].quantity,
                                         rate |-> invoice.lines[i].rate,
                                         gst |-> invoice.lines[i].gst]]

(* Mutant: lines kept are taken for typed ones. *)
AsTyped == invoice.inclusive

(* Lines kept as they were are before GST already.                           *)
KeptInclusive == FALSE

(* updateBill with the lines left out, and one other thing changed or none.  *)
EditKeepingLines(bill, typed, plan) ==
    invoice.saved /\ Write(bill, Kept, typed, KeptInclusive, plan)

EditLines(items) ==
    invoice.saved /\ Write(invoice, items, invoice.discount, invoice.inclusive, invoice.plan)

(* A business without a GST number, or a bill without GST, has neither.      *)
WithGst(gst) ==
    [invoice EXCEPT !.gst = gst, !.inclusive = @ /\ gst, !.inter = @ /\ gst]

SaveAgain == EditKeepingLines(invoice, invoice.discount, invoice.plan)

EditBillLines ==
    \/ \E items \in ItemList : EditLines(items)
    \/ \E typed \in Discount : EditKeepingLines(invoice, typed, invoice.plan)
    \/ \E percent \in Percent :
          EditKeepingLines([invoice EXCEPT !.percent = percent], invoice.discount, invoice.plan)
    \/ \E gst \in BOOLEAN : EditKeepingLines(WithGst(gst), invoice.discount, invoice.plan)
    \/ \E to \in BOOLEAN :
          /\ invoice.gst
          /\ \/ EditKeepingLines([invoice EXCEPT !.inclusive = to], invoice.discount, invoice.plan)
             \/ EditKeepingLines([invoice EXCEPT !.inter = to], invoice.discount, invoice.plan)
    \/ \E plan \in PlanList : EditKeepingLines(invoice, invoice.discount, plan)

LinesNext ==
    \/ /\ \E items \in ItemList, typed \in Discount, percent \in Percent, plan \in PlanList :
             CreateBillLines(items, typed, percent, plan)
       /\ UNCHANGED edits
    \/ /\ invoice.saved /\ edits < MaxEdits /\ edits' = edits + 1
       /\ EditBillLines \/ SaveAgain

LinesSpec == LinesInit /\ [][LinesNext]_linesVars

-----------------------------------------------------------------------------
(* Properties                                                                *)

Columns == {"quantity", "rate", "gst", "amount", "discount", "taxable", "cgst", "sgst", "igst"}

LinesTypeOK ==
    /\ edits \in 0 .. MaxEdits
    /\ invoice.saved =>
          /\ \A i \in DOMAIN invoice.lines : invoice.lines[i] \in [Columns -> Int]
          /\ \A i \in DOMAIN invoice.plan : invoice.plan[i] \in [percent : Nat, amount : Nat]
          /\ {invoice.gst, invoice.inclusive, invoice.inter} \subseteq BOOLEAN

(* The lines add up to the invoice to the paisa: their shares to the         *)
(* discount, and what GST is charged on to the price less the discount, or   *)
(* over it by half a paisa a line when what is left for the last line is     *)
(* more than it costs.  The whole-rupee total is within half a rupee.        *)
BillAddsUp ==
    invoice.saved =>
        LET net == invoice.subtotal - invoice.discount
            over == Column(invoice.lines, "taxable") - net
        IN  /\ Column(invoice.lines, "discount") = invoice.discount
            /\ 2 * over \in 0 .. Len(invoice.lines)
            /\ (\A i \in DOMAIN invoice.lines : invoice.lines[i].discount <= invoice.lines[i].amount)
                  => over = 0
            /\ invoice.total - (net + invoice.tax) \in -50 .. 50

(* Saving an invoice again with nothing changed leaves every number alone.   *)
SavingChangesNothing == [][SaveAgain => UNCHANGED invoice]_linesVars

(* Whatever was edited, the parts of the plan still add up to the total: to  *)
(* the paisa when they are percentages of all of it, else to half a rupee.   *)
PlanAddsUp ==
    invoice.saved /\ invoice.plan # <<>> =>
        LET gap == Column(invoice.plan, "amount") - invoice.total IN
        /\ gap \in -50 .. 50
        /\ (\A i \in DOMAIN invoice.plan : invoice.plan[i].percent > 0)
           /\ Column(invoice.plan, "percent") = 10000 => gap = 0

(* An invoice adds up, down to its lines and across to its plan.             *)
InvoiceAddsUp == BillAddsUp /\ PlanAddsUp
=============================================================================
