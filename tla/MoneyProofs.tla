---------------------------- MODULE MoneyProofs -----------------------------
(* Proofs about the smaller tables of money: vendors' payouts and their      *)
(* expenses (Payouts), for any number of them; the business's own plan       *)
(* (Billing), for any number of subscriptions, messages and handlers; the    *)
(* sums of an invoice (BillLines), for any lines, discounts and plans.       *)
EXTENDS Payouts, Billing, BillLines, SequenceTheorems, WellFoundedInduction, TLAPS

(* What a payout has of expenses: none before it is paid, live while it is.  *)
OwnExpense ==
    \A p \in Payout :
        /\ payouts[p].status \in {"none", "owed"} => payouts[p].expense = {}
        /\ \A e \in payouts[p].expense :
              /\ expenses[e].vendor
              /\ expenses[e].state = IF payouts[p].status = "paid" THEN "live" ELSE "deleted"

(* No expense was made by paying two.                                        *)
OwnedOnce ==
    \A p, q \in Payout : \A e \in Expense :
        e \in payouts[p].expense /\ e \in payouts[q].expense => p = q

PaidStands ==
    \A p \in Payout : payouts[p].status = "paid" =>
        \E e \in Expense : /\ payouts[p].expense = {e}
                           /\ expenses[e].status = "approved"
                           /\ expenses[e].amount = payouts[p].amount

VendorPaid ==
    \A e \in Expense : Spent(e) /\ expenses[e].vendor =>
        \E p \in Payout : payouts[p].status = "paid" /\ e \in payouts[p].expense

PayInv == PayoutTypeOK /\ OwnExpense /\ OwnedOnce /\ PaidStands /\ VendorPaid

PayoutRow == [status : {"none", "owed", "paid", "deleted"}, amount : Nat, expense : SUBSET Expense]

ExpenseRow == [state : {"none", "live", "deleted"}, amount : Nat, vendor : BOOLEAN,
               status : {"none", "pending", "approved", "rejected"}]

-----------------------------------------------------------------------------
LEMMA PaidFollows == PayInv => PaidIsSpent
<1> SUFFICES ASSUME PayInv PROVE PaidIsSpent
  OBVIOUS
<1>1. ASSUME NEW p \in Payout, payouts[p].status = "paid"
      PROVE  \E e \in Expense : /\ payouts[p].expense = {e}
                                /\ Spent(e) /\ expenses[e].status = "approved"
                                /\ expenses[e].amount = payouts[p].amount
  BY <1>1 DEF PayInv, PaidStands, OwnExpense, Spent
<1>2. ASSUME NEW e \in Expense, Spent(e), expenses[e].vendor
      PROVE  \E p \in Payout : /\ payouts[p].status = "paid" /\ e \in payouts[p].expense
                               /\ \A q \in Payout \ {p} : e \notin payouts[q].expense
  <2>1. PICK p \in Payout : payouts[p].status = "paid" /\ e \in payouts[p].expense
    BY <1>2 DEF PayInv, VendorPaid
  <2>2. \A q \in Payout \ {p} : e \notin payouts[q].expense
    BY <2>1 DEF PayInv, OwnedOnce
  <2> QED BY <2>1, <2>2
<1> QED BY <1>1, <1>2 DEF PaidIsSpent

LEMMA PayInvInit == PayoutInit => PayInv
BY DEF PayoutInit, NoPayout, NoExpense, PayInv, PayoutTypeOK, OwnExpense, OwnedOnce, PaidStands,
       VendorPaid, Spent

LEMMA RowTypes ==
    ASSUME PayoutTypeOK
    PROVE  /\ payouts \in [Payout -> PayoutRow] /\ \A p \in Payout : payouts[p] \in PayoutRow
           /\ expenses \in [Expense -> ExpenseRow] /\ \A e \in Expense : expenses[e] \in ExpenseRow
BY DEF PayoutTypeOK, PayoutRow, ExpenseRow

(* A live expense no payout owes or was paid with is no vendor's.            *)
LEMMA NotVendors ==
    ASSUME PayInv, NEW e \in Expense, Spent(e), NotPayout(e) \/ ~expenses[e].vendor
    PROVE  ~expenses[e].vendor /\ \A p \in Payout : e \notin payouts[p].expense
BY DEF PayInv, NotPayout, Owing, VendorPaid, OwnExpense, Spent

(* Changing one that is no payout's, and stays no vendor's, changes nothing  *)
(* for the payouts.                                                          *)
LEMMA ElseChanged ==
    ASSUME PayInv, PayoutTypeOK', UNCHANGED payouts, NEW e \in Expense,
           \A p \in Payout : e \notin payouts[p].expense,
           \A d \in Expense \ {e} : expenses'[d] = expenses[d], ~expenses'[e].vendor
    PROVE  PayInv'
<1>1. payouts \in [Payout -> PayoutRow] /\ \A p \in Payout : payouts[p].expense \subseteq Expense
  BY RowTypes DEF PayInv, PayoutRow
<1>2. OwnExpense'
  BY <1>1 DEF PayInv, OwnExpense
<1>3. OwnedOnce'
  BY DEF PayInv, OwnedOnce
<1>4. PaidStands'
  <2>1. ASSUME NEW p \in Payout, payouts[p].status = "paid"
        PROVE  \E d \in Expense : /\ payouts[p].expense = {d}
                                  /\ expenses'[d].status = "approved"
                                  /\ expenses'[d].amount = payouts[p].amount
    <3>1. PICK d \in Expense : /\ payouts[p].expense = {d} /\ expenses[d].status = "approved"
                               /\ expenses[d].amount = payouts[p].amount
      BY <2>1 DEF PayInv, PaidStands
    <3>2. d # e
      BY <3>1
    <3> QED BY <3>1, <3>2
  <2> QED BY <2>1 DEF PaidStands
<1>5. VendorPaid'
  BY DEF PayInv, VendorPaid, Spent
<1> QED BY <1>2, <1>3, <1>4, <1>5 DEF PayInv

-----------------------------------------------------------------------------
(* Taking back what a payout was paid with: it stops being live, and is the  *)
(* payout's no longer or the payout is deleted.                              *)
LEMMA TakenBack ==
    ASSUME PayInv, PayoutTypeOK', NEW p \in Payout, expenses' = Deleted(payouts[p].expense),
           \A q \in Payout \ {p} : payouts'[q] = payouts[q],
           \/ payouts'[p].status = "owed" /\ payouts'[p].expense = {}
           \/ payouts'[p].status = "deleted" /\ payouts'[p].expense = payouts[p].expense
    PROVE  PayInv'
<1> DEFINE es == payouts[p].expense
<1>0. /\ \A q \in Payout : payouts[q].expense \subseteq Expense
      /\ \A e \in Expense : expenses[e] \in ExpenseRow
  BY RowTypes DEF PayInv, PayoutRow
<1>1. /\ \A e \in Expense \ es : expenses'[e] = expenses[e]
      /\ \A e \in es : expenses'[e].state = "deleted" /\ expenses'[e].vendor = expenses[e].vendor
  BY <1>0 DEF Deleted, ExpenseRow
<1>2. \A q \in Payout \ {p} : \A e \in payouts[q].expense : e \in Expense \ es
  BY <1>0 DEF PayInv, OwnedOnce
<1>3. payouts'[p].expense \subseteq es
  OBVIOUS
<1>4. OwnExpense'
  <2>1. \A e \in es : expenses[e].vendor
    BY DEF PayInv, OwnExpense
  <2>2. ASSUME NEW q \in Payout
        PROVE  /\ payouts'[q].status \in {"none", "owed"} => payouts'[q].expense = {}
               /\ \A e \in payouts'[q].expense :
                    /\ expenses'[e].vendor
                    /\ expenses'[e].state = IF payouts'[q].status = "paid" THEN "live" ELSE "deleted"
    <3>1. CASE q = p
      BY <1>1, <1>3, <2>1, <3>1
    <3>2. CASE q # p
      BY <1>1, <1>2, <3>2 DEF PayInv, OwnExpense
    <3> QED BY <3>1, <3>2
  <2> QED BY <2>2 DEF OwnExpense
<1>5. OwnedOnce'
  BY <1>3 DEF PayInv, OwnedOnce
<1>6. PaidStands'
  <2>1. ASSUME NEW q \in Payout, payouts'[q].status = "paid"
        PROVE  \E d \in Expense : /\ payouts'[q].expense = {d}
                                  /\ expenses'[d].status = "approved"
                                  /\ expenses'[d].amount = payouts'[q].amount
    <3>1. q # p /\ payouts'[q] = payouts[q]
      BY <2>1
    <3>2. PICK d \in Expense : /\ payouts[q].expense = {d} /\ expenses[d].status = "approved"
                               /\ expenses[d].amount = payouts[q].amount
      BY <2>1, <3>1 DEF PayInv, PaidStands
    <3>3. expenses'[d] = expenses[d]
      BY <1>1, <1>2, <3>1, <3>2
    <3> QED BY <3>1, <3>2, <3>3
  <2> QED BY <2>1 DEF PaidStands
<1>7. VendorPaid'
  <2>1. ASSUME NEW e \in Expense, expenses'[e].state = "live", expenses'[e].vendor
        PROVE  \E q \in Payout : payouts'[q].status = "paid" /\ e \in payouts'[q].expense
    <3>1. e \notin es /\ expenses'[e] = expenses[e]
      BY <1>1, <2>1
    <3>2. PICK q \in Payout : payouts[q].status = "paid" /\ e \in payouts[q].expense
      BY <2>1, <3>1 DEF PayInv, VendorPaid, Spent
    <3> QED BY <3>1, <3>2
  <2> QED BY <2>1 DEF VendorPaid, Spent
<1> QED BY <1>4, <1>5, <1>6, <1>7 DEF PayInv

LEMMA UpdatedKeeps ==
    ASSUME PayInv, PayoutTypeOK', NEW p \in Payout, UpdatePayout(p) PROVE PayInv'
<1>1. PICK a \in Amount :
        /\ payouts' = [payouts EXCEPT ![p].amount = a]
        /\ expenses' = Synced(p, a)
  BY DEF UpdatePayout
<1>2. /\ payouts \in [Payout -> PayoutRow] /\ \A q \in Payout : payouts[q] \in PayoutRow
      /\ \A e \in Expense : expenses[e] \in ExpenseRow
  BY RowTypes DEF PayInv
<1>3. /\ payouts'[p].amount = a /\ payouts'[p].status = payouts[p].status
      /\ payouts'[p].expense = payouts[p].expense
      /\ \A q \in Payout \ {p} : payouts'[q] = payouts[q]
  BY <1>1, <1>2 DEF PayoutRow
<1>4. /\ \A e \in Expense \ payouts[p].expense : expenses'[e] = expenses[e]
      /\ \A e \in payouts[p].expense \cap Expense :
            /\ expenses'[e].amount = a /\ expenses'[e].state = expenses[e].state
            /\ expenses'[e].vendor = expenses[e].vendor /\ expenses'[e].status = expenses[e].status
  BY <1>1, <1>2 DEF Synced, ExpenseRow
<1>5. \A q \in Payout : payouts[q].expense \subseteq Expense
  BY <1>2 DEF PayoutRow
<1>6. \A e \in Expense : /\ expenses'[e].state = expenses[e].state
                         /\ expenses'[e].vendor = expenses[e].vendor
                         /\ expenses'[e].status = expenses[e].status
  BY <1>4
<1>7. \A q \in Payout : payouts'[q].status = payouts[q].status /\ payouts'[q].expense = payouts[q].expense
  BY <1>3
<1>8. OwnExpense'
  BY <1>5, <1>6, <1>7 DEF PayInv, OwnExpense
<1>9. OwnedOnce' /\ VendorPaid'
  BY <1>6, <1>7 DEF PayInv, OwnedOnce, VendorPaid, Spent
<1>10. PaidStands'
  <2>1. ASSUME NEW q \in Payout, payouts[q].status = "paid"
        PROVE  \E d \in Expense : /\ payouts'[q].expense = {d}
                                  /\ expenses'[d].status = "approved"
                                  /\ expenses'[d].amount = payouts'[q].amount
    <3>1. PICK d \in Expense : /\ payouts[q].expense = {d} /\ expenses[d].status = "approved"
                               /\ expenses[d].amount = payouts[q].amount
      BY <2>1 DEF PayInv, PaidStands
    <3>2. CASE q = p
      BY <1>3, <1>4, <1>6, <3>1, <3>2
    <3>3. CASE q # p
      <4>1. d \notin payouts[p].expense
        BY <3>1, <3>3 DEF PayInv, OwnedOnce
      <4> QED BY <1>3, <1>4, <3>1, <3>3, <4>1
    <3> QED BY <3>2, <3>3
  <2> QED BY <1>7, <2>1 DEF PaidStands
<1> QED BY <1>8, <1>9, <1>10 DEF PayInv

LEMMA PaidKeeps ==
    ASSUME PayInv, PayoutTypeOK', NEW p \in Payout, PayPayout(p) PROVE PayInv'
<1> DEFINE row == [state |-> "live", status |-> "approved", amount |-> payouts[p].amount, vendor |-> TRUE]
<1>1. PICK e \in Expense :
        /\ expenses[e].state = "none"
        /\ expenses' = [expenses EXCEPT ![e] = row]
        /\ payouts' = [payouts EXCEPT ![p].status = "paid", ![p].expense = {e}]
  BY DEF PayPayout
<1>2. /\ payouts \in [Payout -> PayoutRow] /\ \A q \in Payout : payouts[q] \in PayoutRow
      /\ expenses \in [Expense -> ExpenseRow]
  BY RowTypes DEF PayInv
<1>3. /\ payouts'[p].amount = payouts[p].amount /\ payouts'[p].status = "paid"
      /\ payouts'[p].expense = {e}
      /\ \A q \in Payout \ {p} : payouts'[q] = payouts[q]
  BY <1>1, <1>2 DEF PayoutRow
<1>4. expenses'[e] = row /\ \A d \in Expense \ {e} : expenses'[d] = expenses[d]
  BY <1>1, <1>2
<1>5. /\ expenses'[e].state = "live" /\ expenses'[e].status = "approved" /\ expenses'[e].vendor
      /\ expenses'[e].amount = payouts[p].amount
  BY <1>4
<1> HIDE DEF row
<1>6. \A q \in Payout : e \notin payouts[q].expense /\ payouts[q].expense \subseteq Expense
  BY <1>1, <1>2 DEF PayInv, OwnExpense, PayoutRow
<1>7. OwnExpense'
  BY <1>3, <1>4, <1>5, <1>6 DEF PayInv, OwnExpense
<1>8. OwnedOnce'
  BY <1>3, <1>6 DEF PayInv, OwnedOnce
<1>9. VendorPaid'
  <2>1. payouts[p].status = "owed"
    BY DEF PayPayout
  <2>2. ASSUME NEW d \in Expense, expenses'[d].state = "live", expenses'[d].vendor
        PROVE  \E q \in Payout : payouts'[q].status = "paid" /\ d \in payouts'[q].expense
    <3>1. CASE d = e
      BY <1>3, <3>1
    <3>2. CASE d # e
      <4>1. PICK q \in Payout : payouts[q].status = "paid" /\ d \in payouts[q].expense
        BY <1>4, <2>2, <3>2 DEF PayInv, VendorPaid, Spent
      <4> QED BY <1>3, <2>1, <4>1
    <3> QED BY <3>1, <3>2
  <2> QED BY <2>2 DEF VendorPaid, Spent
<1>10. PaidStands'
  <2>1. ASSUME NEW q \in Payout, payouts'[q].status = "paid"
        PROVE  \E d \in Expense : /\ payouts'[q].expense = {d}
                                  /\ expenses'[d].status = "approved"
                                  /\ expenses'[d].amount = payouts'[q].amount
    <3>1. CASE q = p
      BY <1>3, <1>5, <3>1
    <3>2. CASE q # p
      <4>1. PICK d \in Expense : /\ payouts[q].expense = {d} /\ expenses[d].status = "approved"
                                 /\ expenses[d].amount = payouts[q].amount
        BY <1>3, <2>1, <3>2 DEF PayInv, PaidStands
      <4>2. d # e
        BY <1>6, <4>1
      <4> QED BY <1>3, <1>4, <3>2, <4>1, <4>2
    <3> QED BY <3>1, <3>2
  <2> QED BY <2>1 DEF PaidStands
<1> QED BY <1>7, <1>8, <1>9, <1>10 DEF PayInv

-----------------------------------------------------------------------------
LEMMA PayoutTypeStep == PayoutTypeOK /\ [PayoutNext]_payoutVars => PayoutTypeOK'
<1> SUFFICES ASSUME PayoutTypeOK, [PayoutNext]_payoutVars PROVE PayoutTypeOK'
  OBVIOUS
<1> SUFFICES payouts' \in [Payout -> PayoutRow] /\ expenses' \in [Expense -> ExpenseRow]
  BY DEF PayoutTypeOK, PayoutRow, ExpenseRow
<1> DEFINE Typed == payouts' \in [Payout -> PayoutRow] /\ expenses' \in [Expense -> ExpenseRow]
<1>a. /\ payouts \in [Payout -> PayoutRow] /\ \A p \in Payout : payouts[p] \in PayoutRow
      /\ expenses \in [Expense -> ExpenseRow] /\ \A e \in Expense : expenses[e] \in ExpenseRow
      /\ Amount \subseteq Nat
  BY RowTypes, PayoutAssumption
<1>b. ASSUME NEW es PROVE Deleted(es) \in [Expense -> ExpenseRow]
  <2>1. \A e \in Expense : [expenses[e] EXCEPT !.state = "deleted"] \in ExpenseRow
    BY <1>a DEF ExpenseRow
  <2> QED BY <1>a, <2>1 DEF Deleted
<1>1. ASSUME NEW p \in Payout, CreatePayout(p) PROVE Typed
  <2>1. \A a \in Amount : [NoPayout EXCEPT !.status = "owed", !.amount = a] \in PayoutRow
    BY <1>a DEF NoPayout, PayoutRow
  <2>2. PICK a \in Amount : payouts' = [payouts EXCEPT ![p] = [NoPayout EXCEPT !.status = "owed", !.amount = a]]
    BY <1>1 DEF CreatePayout
  <2> QED BY <1>1, <1>a, <2>1, <2>2 DEF CreatePayout
<1>2. ASSUME NEW p \in Payout, UpdatePayout(p) PROVE Typed
  <2>1. PICK a \in Amount : payouts' = [payouts EXCEPT ![p].amount = a] /\ expenses' = Synced(p, a)
    BY <1>2 DEF UpdatePayout
  <2>2. [payouts[p] EXCEPT !.amount = a] \in PayoutRow
    BY <1>a DEF PayoutRow
  <2>3. \A e \in Expense : [expenses[e] EXCEPT !.amount = a] \in ExpenseRow
    BY <1>a DEF ExpenseRow
  <2> QED BY <1>a, <2>1, <2>2, <2>3 DEF Synced
<1>3. ASSUME NEW p \in Payout, PayPayout(p) PROVE Typed
  <2>1. PICK e \in Expense :
          /\ expenses' = [expenses EXCEPT ![e] =
                [state |-> "live", status |-> "approved", amount |-> payouts[p].amount, vendor |-> TRUE]]
          /\ payouts' = [payouts EXCEPT ![p].status = "paid", ![p].expense = {e}]
    BY <1>3 DEF PayPayout
  <2>3. [state |-> "live", status |-> "approved", amount |-> payouts[p].amount, vendor |-> TRUE]
          \in ExpenseRow
    BY <1>a DEF PayoutRow, ExpenseRow
  <2>4. payouts' \in [Payout -> PayoutRow]
    BY <1>a, <2>1 DEF PayoutRow
  <2> QED BY <1>a, <2>1, <2>3, <2>4
<1>4. ASSUME NEW p \in Payout, UnpayPayout(p) \/ DeletePayout(p) PROVE Typed
  <2>1. CASE UnpayPayout(p)
    BY <1>a, <1>b, <2>1 DEF UnpayPayout, PayoutRow
  <2>2. CASE DeletePayout(p)
    BY <1>a, <1>b, <2>2 DEF DeletePayout, PayoutRow
  <2> QED BY <1>4, <2>1, <2>2
<1>5. ASSUME NEW e \in Expense, CreateExpense(e) PROVE Typed
  BY <1>5, <1>a DEF CreateExpense, ExpenseRow
<1>6. ASSUME NEW e \in Expense, UpdateExpense(e) PROVE Typed
  <2>1. PICK a \in Amount, approver \in BOOLEAN :
          expenses' = [expenses EXCEPT ![e].amount = a, ![e].status = IF approver THEN @ ELSE "pending"]
    BY <1>6 DEF UpdateExpense
  <2>2. /\ expenses'[e].amount = a /\ expenses'[e].status \in {expenses[e].status, "pending"}
        /\ expenses'[e].state = expenses[e].state /\ expenses'[e].vendor = expenses[e].vendor
        /\ expenses'[e] = [state |-> expenses'[e].state, amount |-> expenses'[e].amount,
                           vendor |-> expenses'[e].vendor, status |-> expenses'[e].status]
    BY <1>a, <2>1 DEF ExpenseRow
  <2>3. expenses'[e] \in ExpenseRow
    BY <1>a, <2>2 DEF ExpenseRow
  <2>4. expenses' = [expenses EXCEPT ![e] = expenses'[e]]
    BY <1>a, <2>1
  <2> QED BY <1>6, <1>a, <2>3, <2>4 DEF UpdateExpense
<1>7. ASSUME NEW e \in Expense, ReviewExpense(e) PROVE Typed
  BY <1>7, <1>a DEF ReviewExpense, ExpenseRow
<1>8. ASSUME NEW e \in Expense, DeleteExpense(e) PROVE Typed
  BY <1>8, <1>a, <1>b DEF DeleteExpense
<1>9. CASE UNCHANGED payoutVars
  BY <1>9, <1>a DEF payoutVars
<1> QED BY <1>1, <1>2, <1>3, <1>4, <1>5, <1>6, <1>7, <1>8, <1>9 DEF PayoutNext

LEMMA PayInvStep ==
    ASSUME OnlyVendors = TRUE, PayInv, [PayoutNext]_payoutVars PROVE PayInv'
<1>0. PayoutTypeOK /\ PayoutTypeOK'
  BY PayoutTypeStep DEF PayInv
<1>a. /\ payouts \in [Payout -> PayoutRow] /\ \A q \in Payout : payouts[q] \in PayoutRow
      /\ expenses \in [Expense -> ExpenseRow] /\ \A e \in Expense : expenses[e] \in ExpenseRow
  BY <1>0, RowTypes
<1>1. ASSUME NEW p \in Payout, CreatePayout(p) PROVE PayInv'
  <2>1. /\ payouts'[p].status = "owed" /\ payouts'[p].expense = {}
        /\ \A q \in Payout \ {p} : payouts'[q] = payouts[q]
        /\ payouts[p].status = "none" /\ expenses' = expenses
    BY <1>1, <1>a DEF CreatePayout, NoPayout
  <2>2. OwnExpense' /\ OwnedOnce'
    BY <2>1 DEF PayInv, OwnExpense, OwnedOnce
  <2>3. PaidStands' /\ VendorPaid'
    BY <2>1 DEF PayInv, PaidStands, VendorPaid, Spent
  <2> QED BY <1>0, <2>2, <2>3 DEF PayInv
<1>2. ASSUME NEW p \in Payout, UpdatePayout(p) PROVE PayInv'
  BY <1>0, <1>2, UpdatedKeeps
<1>3. ASSUME NEW p \in Payout, PayPayout(p) PROVE PayInv'
  BY <1>0, <1>3, PaidKeeps
<1>4. ASSUME NEW p \in Payout, UnpayPayout(p) PROVE PayInv'
  <2>1. /\ payouts'[p].status = "owed" /\ payouts'[p].expense = {}
        /\ \A q \in Payout \ {p} : payouts'[q] = payouts[q]
        /\ expenses' = Deleted(payouts[p].expense)
    BY <1>4, <1>a DEF UnpayPayout, PayoutRow
  <2> QED BY <1>0, <2>1, TakenBack
<1>5. ASSUME NEW p \in Payout, DeletePayout(p) PROVE PayInv'
  <2>1. /\ payouts'[p].status = "deleted" /\ payouts'[p].expense = payouts[p].expense
        /\ \A q \in Payout \ {p} : payouts'[q] = payouts[q]
        /\ expenses' = Deleted(payouts[p].expense)
    BY <1>5, <1>a DEF DeletePayout, PayoutRow
  <2> QED BY <1>0, <2>1, TakenBack
<1>6. ASSUME NEW e \in Expense, CreateExpense(e) PROVE PayInv'
  <2>1. \A p \in Payout : e \notin payouts[p].expense
    BY <1>6 DEF CreateExpense, PayInv, OwnExpense
  <2>2. ~expenses'[e].vendor /\ \A d \in Expense \ {e} : expenses'[d] = expenses[d]
    BY <1>6, <1>a DEF CreateExpense
  <2> QED BY <1>0, <1>6, <2>1, <2>2, ElseChanged DEF CreateExpense
<1>7. ASSUME NEW e \in Expense, UpdateExpense(e) PROVE PayInv'
  <2>1. ~expenses[e].vendor /\ \A p \in Payout : e \notin payouts[p].expense
    BY <1>7, NotVendors DEF UpdateExpense
  <2>2. ~expenses'[e].vendor /\ \A d \in Expense \ {e} : expenses'[d] = expenses[d]
    BY <1>7, <1>a, <2>1 DEF UpdateExpense, ExpenseRow
  <2> QED BY <1>0, <1>7, <2>1, <2>2, ElseChanged DEF UpdateExpense
<1>8. ASSUME NEW e \in Expense, ReviewExpense(e) PROVE PayInv'
  <2>1. ~expenses[e].vendor /\ \A p \in Payout : e \notin payouts[p].expense
    BY <1>8, NotVendors DEF ReviewExpense
  <2>2. ~expenses'[e].vendor /\ \A d \in Expense \ {e} : expenses'[d] = expenses[d]
    BY <1>8, <1>a, <2>1 DEF ReviewExpense, ExpenseRow
  <2> QED BY <1>0, <1>8, <2>1, <2>2, ElseChanged DEF ReviewExpense
<1>9. ASSUME NEW e \in Expense, DeleteExpense(e) PROVE PayInv'
  <2>1. ~expenses[e].vendor /\ \A p \in Payout : e \notin payouts[p].expense
    BY <1>9, NotVendors DEF DeleteExpense
  <2>2. ~expenses'[e].vendor /\ \A d \in Expense \ {e} : expenses'[d] = expenses[d]
    BY <1>9, <1>a, <2>1 DEF DeleteExpense, Deleted, ExpenseRow
  <2> QED BY <1>0, <1>9, <2>1, <2>2, ElseChanged DEF DeleteExpense
<1>10. CASE UNCHANGED payoutVars
  BY <1>0, <1>10 DEF payoutVars, PayInv, OwnExpense, OwnedOnce, PaidStands, VendorPaid, Spent
<1> QED BY <1>1, <1>2, <1>3, <1>4, <1>5, <1>6, <1>7, <1>8, <1>9, <1>10 DEF PayoutNext

LEMMA PayoutShape == PayoutSpec => []PayoutTypeOK
<1>1. PayoutInit => PayoutTypeOK
  BY PayInvInit DEF PayInv
<1> QED BY <1>1, PayoutTypeStep, PTL DEF PayoutSpec

(* What was paid to vendors stands among the approved expenses, once and     *)
(* with its amount, for any number of payouts and expenses, as long as       *)
(* nobody reviews an expense that paying a vendor made.                      *)
THEOREM TheTwoAgree ==
    ASSUME OnlyVendors = TRUE
    PROVE  PayoutSpec => []PaidIsSpent
<1>1. PayInv /\ [PayoutNext]_payoutVars => PayInv'
  BY PayInvStep
<1> QED BY <1>1, PaidFollows, PayInvInit, PTL DEF PayoutSpec

-----------------------------------------------------------------------------
(* The plan: rows, messages and the provider                                 *)

SubRow == [status : Renewing \cup Closing \cup {"created"}, end : Nat]
ProviderRow == [status : DOMAIN RAZORPAY_STATUS \cup {"created", "manual"}, end : Nat]
MessageRow == [sub : Nat, event : DOMAIN RAZORPAY_STATUS, end : Nat]

(* A handler is at a message that is recorded, and no two are at one: what    *)
(* was recorded is taken for a repeat by whoever brings it next.             *)
HandlersHold ==
    \A h \in Handler :
        /\ handling[h].of # 0 => handling[h].of \in events
        /\ handling[h].applied => handling[h].of # 0
        /\ \A g \in Handler \ {h} : handling[h].of # 0 => handling[g].of # handling[h].of

(* A message that is not recorded, or whose handler has not come to it yet,  *)
(* has changed nothing.                                                      *)
ChangesNothingYet ==
    \A m \in DOMAIN messages :
        /\ m \notin events => applied[m] = 0
        /\ \A h \in Handler : handling[h].of = m /\ ~handling[h].applied => applied[m] = 0

BillingInv == BillingTypeOK /\ HandlersHold /\ ChangesNothingYet /\ HandledAtMostOnce

LEMMA BillingRows ==
    ASSUME BillingTypeOK
    PROVE  /\ \A i \in DOMAIN subscriptions : subscriptions[i] \in SubRow
           /\ \A i \in DOMAIN razorpay : razorpay[i] \in ProviderRow
           /\ \A m \in DOMAIN messages : messages[m] \in MessageRow
           /\ Len(subscriptions) \in Nat /\ DOMAIN subscriptions = 1 .. Len(subscriptions)
           /\ Len(razorpay) \in Nat /\ DOMAIN razorpay = 1 .. Len(razorpay)
           /\ Len(messages) \in Nat /\ DOMAIN messages = 1 .. Len(messages)
           /\ events \subseteq DOMAIN messages /\ answered \subseteq events
           /\ DOMAIN applied = DOMAIN messages /\ \A m \in DOMAIN messages : applied[m] \in Nat
           /\ \A h \in Handler : /\ handling[h] \in [of : Nat, applied : BOOLEAN]
                                 /\ handling[h].of \in Nat /\ handling[h].applied \in BOOLEAN
<1>1. /\ subscriptions \in Seq(SubRow) /\ razorpay \in Seq(ProviderRow) /\ messages \in Seq(MessageRow)
  BY DEF BillingTypeOK, SubRow, ProviderRow, MessageRow
<1>2. /\ \A i \in DOMAIN subscriptions : subscriptions[i] \in SubRow
      /\ Len(subscriptions) \in Nat /\ DOMAIN subscriptions = 1 .. Len(subscriptions)
  BY <1>1
<1>3. /\ \A i \in DOMAIN razorpay : razorpay[i] \in ProviderRow
      /\ Len(razorpay) \in Nat /\ DOMAIN razorpay = 1 .. Len(razorpay)
  BY <1>1
<1>4. /\ \A m \in DOMAIN messages : messages[m] \in MessageRow
      /\ Len(messages) \in Nat /\ DOMAIN messages = 1 .. Len(messages)
  BY <1>1
<1>5. DOMAIN applied = DOMAIN messages /\ \A m \in DOMAIN messages : applied[m] \in Nat
  BY <1>4 DEF BillingTypeOK
<1> QED BY <1>2, <1>3, <1>4, <1>5 DEF BillingTypeOK

LEMMA BillingInit_Inv == BillingInit => BillingInv
<1> SUFFICES ASSUME BillingInit PROVE BillingInv
  OBVIOUS
<1>1. /\ subscriptions = <<>> /\ razorpay = <<>> /\ messages = <<>> /\ applied = <<>>
      /\ Len(<<>>) = 0 /\ DOMAIN <<>> = {}
  BY DEF BillingInit
<1>2. BillingTypeOK
  <2>1. \A S : <<>> \in Seq(S)
    OBVIOUS
  <2>2. Idling \in [of : Nat, applied : BOOLEAN]
    BY DEF Idling
  <2> QED BY <1>1, <2>1, <2>2 DEF BillingInit, BillingTypeOK
<1>3. HandlersHold /\ ChangesNothingYet /\ HandledAtMostOnce
  BY <1>1 DEF BillingInit, HandlersHold, ChangesNothingYet, HandledAtMostOnce, Idling
<1> QED BY <1>2, <1>3 DEF BillingInv

(* A step that leaves the messages and their handlers alone.                 *)
LEMMA HandlersRest ==
    ASSUME BillingInv, UNCHANGED <<messages, events, applied, handling>>
    PROVE  HandlersHold' /\ ChangesNothingYet' /\ HandledAtMostOnce'
BY DEF BillingInv, HandlersHold, ChangesNothingYet, HandledAtMostOnce

LEMMA Replaced ==
    ASSUME NEW S, NEW s \in Seq(S), NEW i, NEW x \in S
    PROVE  [s EXCEPT ![i] = x] \in Seq(S)
<1>1. /\ Len(s) \in Nat /\ DOMAIN s = 1 .. Len(s) /\ \A j \in 1 .. Len(s) : s[j] \in S
  OBVIOUS
<1>2. [s EXCEPT ![i] = x] \in [1 .. Len(s) -> S]
  BY <1>1
<1> QED BY <1>1, <1>2

(* A new message is neither recorded nor anybody's yet.                      *)
LEMMA TellsKeeps ==
    ASSUME BillingInv, NEW i \in DOMAIN razorpay,
           NEW status \in DOMAIN RAZORPAY_STATUS, NEW end \in Nat, Tells(i, status, end)
    PROVE  BillingInv'
<1> DEFINE has == [status |-> status, end |-> end]
           message == [sub |-> i, event |-> status, end |-> end]
<1>0. BillingTypeOK /\ HandlersHold /\ ChangesNothingYet /\ HandledAtMostOnce
  BY DEF BillingInv
<1>1. /\ subscriptions \in Seq(SubRow) /\ razorpay \in Seq(ProviderRow)
      /\ messages \in Seq(MessageRow) /\ i \in Nat
  BY <1>0, BillingRows DEF BillingTypeOK, SubRow, ProviderRow, MessageRow
<1>2. has \in ProviderRow /\ message \in MessageRow
  BY <1>1 DEF ProviderRow, MessageRow
<1>3. /\ razorpay' = [razorpay EXCEPT ![i] = has] /\ messages' = Append(messages, message)
      /\ applied' = Append(applied, 0)
      /\ UNCHANGED <<subscriptions, events, answered, handling, buying, date>>
  BY DEF Tells
<1> HIDE DEF has, message
<1>4. razorpay' \in Seq(ProviderRow)
  BY <1>1, <1>2, <1>3, Replaced
<1>5. /\ messages' \in Seq(MessageRow) /\ DOMAIN messages' = DOMAIN messages \cup {Len(messages) + 1}
      /\ Len(messages') = Len(messages) + 1
  <2>1. PICK x \in MessageRow : x = message
    BY <1>2
  <2>2. messages' = Append(messages, x) /\ Len(messages) \in Nat
    BY <1>1, <1>3, <2>1
  <2>3. messages' \in Seq(MessageRow) /\ Len(messages') = Len(messages) + 1
    BY <1>1, <2>1, <2>2
  <2>4. DOMAIN messages = 1 .. Len(messages) /\ DOMAIN messages' = 1 .. Len(messages')
    BY <1>1, <2>3
  <2> QED BY <2>2, <2>3, <2>4
<1>6. /\ applied' \in Seq(Nat) /\ Len(applied') = Len(messages')
      /\ \A m \in DOMAIN messages : applied'[m] = applied[m]
      /\ applied'[Len(messages) + 1] = 0
  <2>1. applied \in Seq(Nat) /\ Len(applied) = Len(messages)
    BY <1>0 DEF BillingTypeOK
  <2>2. Len(messages) \in Nat /\ DOMAIN messages = 1 .. Len(messages)
    BY <1>1
  <2> QED BY <1>3, <1>5, <2>1, <2>2
<1>7. BillingTypeOK'
  BY <1>0, <1>3, <1>4, <1>5, <1>6 DEF BillingTypeOK, ProviderRow, MessageRow
<1>8. HandlersHold' /\ ChangesNothingYet'
  BY <1>0, <1>3, <1>5, <1>6 DEF HandlersHold, ChangesNothingYet
<1>9. HandledAtMostOnce'
  <2>1. ASSUME NEW m \in DOMAIN messages' PROVE applied'[m] <= 1
    <3>1. CASE m \in DOMAIN messages
      BY <1>0, <1>6, <3>1 DEF HandledAtMostOnce
    <3>2. CASE m = Len(messages) + 1
      BY <1>6, <3>2
    <3> QED BY <1>5, <2>1, <3>1, <3>2
  <2> QED BY <2>1 DEF HandledAtMostOnce
<1> QED BY <1>7, <1>8, <1>9 DEF BillingInv

(* Whoever brings a message first is alone at it; others find it recorded.   *)
LEMMA ReceiveKeeps ==
    ASSUME BillingInv, NEW h \in Handler, NEW m \in DOMAIN messages, Receive(h, m)
    PROVE  BillingInv'
<1>0. BillingTypeOK /\ HandlersHold /\ ChangesNothingYet /\ HandledAtMostOnce
  BY DEF BillingInv
<1>1. /\ m \in Nat /\ handling[h] = Idling /\ Idling.of = 0 /\ ~Idling.applied
      /\ handling' = [handling EXCEPT ![h].of = IF Unseen(m) THEN m ELSE 0]
      /\ answered' = IF Unseen(m) THEN answered ELSE answered \cup {m}
      /\ events' = events \cup {m}
      /\ UNCHANGED <<subscriptions, razorpay, messages, applied, buying, date>>
  BY <1>0, BillingRows DEF Receive, Idling
<1>2. BillingTypeOK'
  <2>1. answered' \subseteq events' /\ events' \subseteq DOMAIN messages'
    BY <1>0, <1>1 DEF Unseen, BillingTypeOK
  <2>2. handling' \in [Handler -> [of : Nat, applied : BOOLEAN]]
    BY <1>0, <1>1 DEF BillingTypeOK
  <2> QED BY <1>0, <1>1, <2>1, <2>2 DEF BillingTypeOK
<1>3. \A g \in Handler : g # h => handling'[g] = handling[g]
  BY <1>0, <1>1 DEF BillingTypeOK
<1>4. handling'[h].of = (IF Unseen(m) THEN m ELSE 0) /\ ~handling'[h].applied
  BY <1>0, <1>1 DEF BillingTypeOK
<1>5. m \in events => handling'[h].of = 0
  BY <1>4 DEF Unseen
<1>6. handling'[h].of # 0 => handling'[h].of = m /\ m \notin events
  BY <1>4 DEF Unseen
<1>7. HandlersHold'
  BY <1>0, <1>1, <1>3, <1>4, <1>6 DEF HandlersHold
<1>8. ChangesNothingYet'
  <2>1. 0 \notin DOMAIN messages
    BY <1>0, BillingRows
  <2> QED BY <1>0, <1>1, <1>3, <1>6, <2>1 DEF ChangesNothingYet
<1>9. HandledAtMostOnce'
  BY <1>0, <1>1 DEF HandledAtMostOnce
<1> QED BY <1>2, <1>7, <1>8, <1>9 DEF BillingInv

(* The row changes for the first time: nobody else is at the message.        *)
LEMMA ApplyKeeps ==
    ASSUME BillingInv, NEW h \in Handler, Apply(h)
    PROVE  BillingInv'
<1>0. BillingTypeOK /\ HandlersHold /\ ChangesNothingYet /\ HandledAtMostOnce
  BY DEF BillingInv
<1> DEFINE k == handling[h].of
<1>1. k \in DOMAIN messages /\ k \in events /\ k # 0 /\ ~handling[h].applied /\ applied[k] = 0
  BY <1>0 DEF Apply, HandlersHold, BillingTypeOK, ChangesNothingYet
<1>2. PICK m \in MessageRow : m = messages[k]
  BY <1>0, <1>1, BillingRows
<1>3. /\ subscriptions' = [subscriptions EXCEPT ![m.sub] = Applied(@, m)]
      /\ applied' = [applied EXCEPT ![k] = @ + 1]
      /\ handling' = [handling EXCEPT ![h].applied = TRUE]
      /\ UNCHANGED <<razorpay, messages, events, answered, buying, date>>
  BY <1>2 DEF Apply
<1>4. subscriptions' \in Seq(SubRow)
  <2>0. subscriptions \in Seq(SubRow)
    BY <1>0 DEF BillingTypeOK, SubRow
  <2>1. CASE m.sub \in DOMAIN subscriptions
    <3>0. PICK i : i = m.sub
      OBVIOUS
    <3>1. PICK s \in SubRow : s = subscriptions[i]
      BY <1>0, <2>1, <3>0, BillingRows
    <3>2. Applied(s, m) \in SubRow
      BY <1>2 DEF Applied, SubRow, MessageRow, RAZORPAY_STATUS, Renewing, Closing
    <3>3. PICK x \in SubRow : x = Applied(s, m)
      BY <3>2
    <3>4. subscriptions' = [subscriptions EXCEPT ![i] = x]
      BY <1>3, <3>0, <3>1, <3>3
    <3> QED BY <2>0, <3>4, Replaced
  <2>2. CASE m.sub \notin DOMAIN subscriptions
    <3>1. subscriptions' = subscriptions
      BY <1>3, <2>0, <2>2
    <3> QED BY <2>0, <3>1
  <2> QED BY <2>1, <2>2
<1>5. /\ applied' \in Seq(Nat) /\ Len(applied') = Len(messages')
      /\ applied'[k] = 1 /\ \A j \in DOMAIN messages : j # k => applied'[j] = applied[j]
  <2>1. applied \in Seq(Nat) /\ Len(applied) = Len(messages) /\ k \in DOMAIN applied
    BY <1>0, <1>1, BillingRows DEF BillingTypeOK
  <2>2. applied' = [applied EXCEPT ![k] = 1]
    BY <1>1, <1>3
  <2> HIDE DEF k
  <2>3. applied' \in Seq(Nat)
    BY <2>1, <2>2, Replaced
  <2>4. Len(applied') = Len(applied)
    BY <2>1, <2>2
  <2> QED BY <1>3, <2>1, <2>2, <2>3, <2>4
<1>6. /\ handling' \in [Handler -> [of : Nat, applied : BOOLEAN]]
      /\ \A g \in Handler : handling'[g].of = handling[g].of
      /\ \A g \in Handler : g # h => handling'[g].applied = handling[g].applied
      /\ handling'[h].applied
  BY <1>0, <1>3 DEF BillingTypeOK
<1> HIDE DEF k
<1>7. BillingTypeOK'
  BY <1>0, <1>3, <1>4, <1>5, <1>6 DEF BillingTypeOK, SubRow
<1>8. HandlersHold'
  <2>1. handling[h].of # 0
    BY <1>1 DEF k
  <2> QED BY <1>0, <1>3, <1>6, <2>1 DEF HandlersHold
<1>9. ChangesNothingYet'
  <2>1. \A g \in Handler : g # h => handling[g].of # k
    BY <1>0, <1>1 DEF HandlersHold, k
  <2> QED BY <1>0, <1>1, <1>3, <1>5, <1>6, <2>1 DEF ChangesNothingYet
<1>10. HandledAtMostOnce'
  BY <1>0, <1>3, <1>5 DEF HandledAtMostOnce
<1> QED BY <1>7, <1>8, <1>9, <1>10 DEF BillingInv

(* A handler that is done, or stopped, leaves its message recorded.          *)
LEMMA EndKeeps ==
    ASSUME BillingInv, NEW h \in Handler, Answer(h) \/ HandlerCrash(h)
    PROVE  BillingInv'
<1>0. BillingTypeOK /\ HandlersHold /\ ChangesNothingYet /\ HandledAtMostOnce
  BY DEF BillingInv
<1>1. /\ handling' = [handling EXCEPT ![h] = Idling]
      /\ UNCHANGED <<subscriptions, razorpay, messages, events, applied, buying, date>>
      /\ answered' \subseteq events
  BY <1>0 DEF Answer, HandlerCrash, BillingTypeOK, HandlersHold
<1>2. /\ handling' \in [Handler -> [of : Nat, applied : BOOLEAN]]
      /\ \A g \in Handler : g # h => handling'[g] = handling[g]
      /\ handling'[h].of = 0 /\ ~handling'[h].applied
  BY <1>0, <1>1 DEF BillingTypeOK, Idling
<1>3. BillingTypeOK'
  BY <1>0, <1>1, <1>2 DEF BillingTypeOK
<1>4. HandlersHold'
  BY <1>0, <1>1, <1>2 DEF HandlersHold
<1>5. ChangesNothingYet'
  <2>1. 0 \notin DOMAIN messages
    BY <1>0, BillingRows
  <2> QED BY <1>0, <1>1, <1>2, <2>1 DEF ChangesNothingYet
<1>6. HandledAtMostOnce'
  BY <1>0, <1>1 DEF HandledAtMostOnce
<1> QED BY <1>3, <1>4, <1>5, <1>6 DEF BillingInv

LEMMA BillingStep ==
    ASSUME BillingInv, [BillingNext]_billingVars
    PROVE  BillingInv'
<1>0. /\ BillingTypeOK
      /\ subscriptions \in Seq(SubRow) /\ razorpay \in Seq(ProviderRow) /\ date \in Nat
  BY DEF BillingInv, BillingTypeOK, SubRow, ProviderRow
<1>1. ASSUME NEW b \in Buyer, CheckoutLooks(b)
      PROVE  BillingInv'
  <2>1. BillingTypeOK'
    BY <1>0, <1>1 DEF CheckoutLooks, BillingTypeOK
  <2> QED BY <1>1, <2>1, HandlersRest DEF CheckoutLooks, BillingInv
<1>2. ASSUME NEW b \in Buyer, CheckoutEnds(b)
      PROVE  BillingInv'
  <2> DEFINE row == [status |-> "created", end |-> 0]
  <2>1. row \in SubRow /\ row \in ProviderRow
    BY DEF SubRow, ProviderRow
  <2>2. subscriptions' \in Seq(SubRow) /\ razorpay' \in Seq(ProviderRow)
    <3>1. \/ subscriptions' = Append(subscriptions, row) /\ razorpay' = Append(razorpay, row)
          \/ UNCHANGED <<subscriptions, razorpay>>
      BY <1>2 DEF CheckoutEnds
    <3> HIDE DEF row
    <3>2. Append(subscriptions, row) \in Seq(SubRow) /\ Append(razorpay, row) \in Seq(ProviderRow)
      BY <1>0, <2>1
    <3> QED BY <1>0, <3>1, <3>2
  <2>3. BillingTypeOK'
    BY <1>0, <1>2, <2>2 DEF CheckoutEnds, BillingTypeOK, SubRow, ProviderRow
  <2> QED BY <1>2, <2>3, HandlersRest DEF CheckoutEnds, BillingInv
<1>3. CASE setManualPlan
  <2>1. PICK until \in date + 1 .. LastDate + 1 :
          subscriptions' = Append(subscriptions, [status |-> "active", end |-> until])
    BY <1>3 DEF setManualPlan
  <2> DEFINE row == [status |-> "active", end |-> until]
             has == [status |-> "manual", end |-> 0]
  <2>2. row \in SubRow /\ has \in ProviderRow
    BY <1>0, BillingAssumption DEF SubRow, Renewing, ProviderRow
  <2>3. /\ subscriptions' = Append(subscriptions, row) /\ razorpay' = Append(razorpay, has)
        /\ UNCHANGED <<messages, events, applied, answered, handling, buying, date>>
    BY <1>3, <2>1 DEF setManualPlan
  <2> HIDE DEF row, has
  <2>4. subscriptions' \in Seq(SubRow) /\ razorpay' \in Seq(ProviderRow)
    BY <1>0, <2>2, <2>3
  <2>5. BillingTypeOK'
    BY <1>0, <2>3, <2>4 DEF BillingTypeOK, SubRow, ProviderRow
  <2> QED BY <2>3, <2>5, HandlersRest DEF BillingInv
<1>4. ASSUME NEW i \in DOMAIN razorpay, Charged(i) \/ RenewalFails(i) \/ Closes(i) \/ Resumed(i)
      PROVE  BillingInv'
  <2>1. razorpay[i].end \in Nat /\ date + Period \in Nat
    BY <1>0, BillingRows, BillingAssumption DEF ProviderRow
  <2>2. PICK status \in DOMAIN RAZORPAY_STATUS, end \in Nat : Tells(i, status, end)
    BY <1>4, <2>1 DEF Charged, RenewalFails, Closes, Resumed, RAZORPAY_STATUS
  <2> QED BY <2>2, TellsKeeps
<1>5. CASE DatePasses
  <2>1. BillingTypeOK'
    BY <1>0, <1>5 DEF DatePasses, BillingTypeOK
  <2> QED BY <1>5, <2>1, HandlersRest DEF DatePasses, BillingInv
<1>6. CASE UNCHANGED billingVars
  <2>1. BillingTypeOK'
    BY <1>0, <1>6 DEF billingVars, BillingTypeOK
  <2> QED BY <1>6, <2>1, HandlersRest DEF billingVars, BillingInv
<1> QED BY <1>1, <1>2, <1>3, <1>4, <1>5, <1>6, ReceiveKeeps, ApplyKeeps, EndKeeps DEF BillingNext

LEMMA BillingShape == BillingSpec => []BillingTypeOK
<1>1. BillingInv /\ [BillingNext]_billingVars => BillingInv'
  BY BillingStep
<1>2. BillingInv => BillingTypeOK
  BY DEF BillingInv
<1> QED BY <1>1, <1>2, BillingInit_Inv, PTL DEF BillingSpec

(* However many messages there are, however often and in whatever order they *)
(* come, to however many handlers at once, and wherever those stop, no       *)
(* message changes its row twice.                                            *)
THEOREM HandledOnceAtMost == BillingSpec => []HandledAtMostOnce
<1>1. BillingInv /\ [BillingNext]_billingVars => BillingInv'
  BY BillingStep
<1>2. BillingInv => HandledAtMostOnce
  BY DEF BillingInv
<1> QED BY <1>1, <1>2, BillingInit_Inv, PTL DEF BillingSpec

-----------------------------------------------------------------------------
(* Sums of sequences of whole numbers                                        *)

(* Numbers that are bounded have a greatest one.                             *)
LEMMA LeastOfAll ==
    ASSUME NEW T, T \subseteq Nat, T # {}
    PROVE  \E x \in T : \A y \in T : x <= y
<1> DEFINE R == OpToRel(<, Nat)
<1>1. \A x, y \in Nat : <<y, x>> \in R <=> y < x
  BY DEF OpToRel
<1>2. IsWellFoundedOn(R, Nat)
  BY NatLessThanWellFounded
<1> HIDE DEF R
<1>3. PICK x \in T : \A y \in T : ~(<<y, x>> \in R)
  BY <1>2, WFMin
<1>4. \A y \in T : ~(y < x)
  BY <1>1, <1>3
<1> QED BY <1>4

LEMMA GreatestOfAll ==
    ASSUME NEW T, T \subseteq Nat, T # {}, NEW t \in Nat, \A d \in T : d <= t
    PROVE  \E d \in T : \A e \in T : e <= d
<1> DEFINE left == {t - d : d \in T}
<1>1. left \subseteq Nat /\ left # {}
  <2>1. PICK d \in T : TRUE
    OBVIOUS
  <2>2. t - d \in left
    BY <2>1
  <2> QED BY <2>2
<1> HIDE DEF left
<1>2. PICK x \in left : \A y \in left : x <= y
  BY <1>1, LeastOfAll
<1>3. PICK d \in T : x = t - d
  BY DEF left
<1>4. ASSUME NEW e \in T PROVE e <= d
  <2>1. t - e \in left
    BY DEF left
  <2>2. t - d <= t - e
    BY <1>2, <1>3, <2>1
  <2> QED BY <2>2
<1> QED BY <1>4

(* A set with 0 that goes on from each of its numbers has all of them.       *)
LEMMA OneByOne ==
    ASSUME NEW n \in Nat, NEW T, 0 \in T, \A i \in 0 .. n : i < n /\ i \in T => i + 1 \in T
    PROVE  0 .. n \subseteq T
<1> SUFFICES ASSUME 0 .. n \ T # {} PROVE FALSE
  OBVIOUS
<1> DEFINE left == {i \in 0 .. n : i \notin T}
<1>0. left \subseteq Nat /\ left # {}
  OBVIOUS
<1>1. PICK x \in left : \A y \in left : x <= y
  <2> HIDE DEF left
  <2> QED BY <1>0, LeastOfAll
<1>2. x # 0 /\ x - 1 \in 0 .. n /\ x - 1 \in T
  BY <1>1
<1> QED BY <1>1, <1>2

(* The sum is the last of the sums so far.                                   *)
LEMMA SumSoFar ==
    ASSUME NEW s, NEW n \in Nat, Len(s) = n, \A i \in 1 .. n : s[i] \in Int
    PROVE  \E u \in [0 .. n -> Int] : /\ u[0] = 0 /\ Sum(s) = u[n]
                                      /\ \A i \in 1 .. n : u[i] = u[i - 1] + s[i]
<1> DEFINE Adds(u, m) == u[0] = 0 /\ \A i \in 1 .. m : u[i] = u[i - 1] + s[i]
           U(u) == u = [i \in 0 .. n |-> IF i = 0 THEN 0 ELSE u[i - 1] + s[i]]
           T == {m \in 0 .. n : \E u \in [0 .. m -> Int] : Adds(u, m)}
<1>1. 0 \in T
  <2> DEFINE z == [i \in 0 .. 0 |-> 0]
  <2>1. z \in [0 .. 0 -> Int] /\ z[0] = 0 /\ 1 .. 0 = {}
    OBVIOUS
  <2> HIDE DEF z
  <2>2. Adds(z, 0) /\ 0 \in 0 .. n
    BY <2>1
  <2> HIDE DEF Adds
  <2> QED BY <2>1, <2>2
<1>2. ASSUME NEW m \in 0 .. n, m < n, m \in T PROVE m + 1 \in T
  <2>1. PICK u \in [0 .. m -> Int] : Adds(u, m)
    BY <1>2
  <2> DEFINE v == [i \in 0 .. m + 1 |-> IF i <= m THEN u[i] ELSE u[m] + s[m + 1]]
  <2>2. s[m + 1] \in Int /\ u[m] \in Int
    BY <1>2
  <2>3. v \in [0 .. m + 1 -> Int]
    BY <2>2
  <2>4. v[m + 1] = u[m] + s[m + 1] /\ \A i \in 0 .. m : v[i] = u[i]
    OBVIOUS
  <2> HIDE DEF v
  <2>5. Adds(v, m + 1)
    <3>1. ASSUME NEW i \in 1 .. m + 1 PROVE v[i] = v[i - 1] + s[i]
      <4>1. CASE i = m + 1
        <5>1. i - 1 = m /\ m \in 0 .. m
          BY <4>1
        <5> QED BY <2>4, <4>1, <5>1
      <4>2. CASE i # m + 1
        <5>1. i \in 0 .. m /\ i - 1 \in 0 .. m /\ i \in 1 .. m
          BY <4>2
        <5> QED BY <2>1, <2>4, <5>1
      <4> QED BY <4>1, <4>2
    <3> QED BY <2>1, <2>4, <3>1
  <2>6. m + 1 \in 0 .. n
    BY <1>2
  <2> QED BY <2>3, <2>5, <2>6
<1> HIDE DEF T
<1>3. n \in T
  <2>1. \A i \in 0 .. n : i < n /\ i \in T => i + 1 \in T
    BY <1>2
  <2>2. 0 .. n \subseteq T
    BY <1>1, <2>1, OneByOne
  <2> QED BY <2>2
<1>4. PICK u \in [0 .. n -> Int] : Adds(u, n)
  BY <1>3 DEF T
<1>5. U(u)
  BY <1>4
<1>6. Sum(s) = (CHOOSE w : U(w))[n]
  BY DEF Sum
<1>7. PICK w : U(w) /\ Sum(s) = w[n]
  BY <1>5, <1>6
<1>8. w[0] = 0 /\ \A i \in 1 .. n : w[i] = w[i - 1] + s[i]
  BY <1>7
<1> DEFINE W == {i \in 0 .. n : w[i] \in Int}
<1>9. 0 \in W /\ \A i \in 0 .. n : i < n /\ i \in W => i + 1 \in W
  <2>1. ASSUME NEW i \in 0 .. n, i < n, w[i] \in Int PROVE w[i + 1] \in Int
    <3>1. i + 1 \in 1 .. n /\ (i + 1) - 1 = i
      BY <2>1
    <3>2. w[i + 1] = w[i] + s[i + 1] /\ s[i + 1] \in Int
      BY <1>8, <3>1
    <3> QED BY <2>1, <3>2
  <2> QED BY <1>8, <2>1
<1>10. 0 .. n \subseteq W
  <2> HIDE DEF W
  <2> QED BY <1>9, OneByOne
<1>11. w \in [0 .. n -> Int]
  BY <1>7, <1>10
<1> QED BY <1>7, <1>8, <1>11

(* Term by term: as much, more, so many times as much.                       *)
LEMMA SumIsInt ==
    ASSUME NEW s, NEW n \in Nat, Len(s) = n, \A i \in 1 .. n : s[i] \in Int
    PROVE  Sum(s) \in Int
BY SumSoFar

LEMMA SumOfTwo ==
    ASSUME NEW n \in Nat, NEW r \in [1 .. n -> Int], NEW s \in [1 .. n -> Int],
           NEW t \in [1 .. n -> Int], \A i \in 1 .. n : r[i] = s[i] + t[i]
    PROVE  Sum(r) = Sum(s) + Sum(t)
<1>0. /\ \A i \in 1 .. n : r[i] \in Int /\ s[i] \in Int /\ t[i] \in Int
      /\ Len(r) = n /\ Len(s) = n /\ Len(t) = n
  OBVIOUS
<1>1. PICK u \in [0 .. n -> Int] : u[0] = 0 /\ Sum(r) = u[n] /\ \A i \in 1 .. n : u[i] = u[i - 1] + r[i]
  BY <1>0, SumSoFar
<1>2. PICK v \in [0 .. n -> Int] : v[0] = 0 /\ Sum(s) = v[n] /\ \A i \in 1 .. n : v[i] = v[i - 1] + s[i]
  BY <1>0, SumSoFar
<1>3. PICK w \in [0 .. n -> Int] : w[0] = 0 /\ Sum(t) = w[n] /\ \A i \in 1 .. n : w[i] = w[i - 1] + t[i]
  BY <1>0, SumSoFar
<1> DEFINE T == {i \in 0 .. n : u[i] = v[i] + w[i]}
<1>4. 0 \in T /\ \A i \in 0 .. n : i < n /\ i \in T => i + 1 \in T
  <2>1. ASSUME NEW i \in 0 .. n, i < n, u[i] = v[i] + w[i] PROVE u[i + 1] = v[i + 1] + w[i + 1]
    <3>1. i + 1 \in 1 .. n /\ (i + 1) - 1 = i
      BY <2>1
    <3>2. u[i + 1] = u[i] + r[i + 1] /\ r[i + 1] = s[i + 1] + t[i + 1] /\ v[i + 1] = v[i] + s[i + 1] /\ w[i + 1] = w[i] + t[i + 1]
      BY <1>1, <1>2, <1>3, <3>1
    <3>3. v[i] \in Int /\ w[i] \in Int /\ s[i + 1] \in Int /\ t[i + 1] \in Int
      BY <1>0, <3>1
    <3> QED BY <2>1, <3>1, <3>2, <3>3
  <2> QED BY <1>1, <1>2, <1>3, <2>1
<1>5. 0 .. n \subseteq T
  <2> HIDE DEF T
  <2> QED BY <1>4, OneByOne
<1> QED BY <1>1, <1>2, <1>3, <1>5

LEMMA SumAtLeast ==
    ASSUME NEW n \in Nat, NEW s \in [1 .. n -> Int], NEW t \in [1 .. n -> Int],
           \A i \in 1 .. n : s[i] <= t[i]
    PROVE  Sum(s) <= Sum(t)
<1>0. Len(s) = n /\ Len(t) = n /\ \A i \in 1 .. n : s[i] \in Int /\ t[i] \in Int
  OBVIOUS
<1>1. PICK v \in [0 .. n -> Int] : v[0] = 0 /\ Sum(s) = v[n] /\ \A i \in 1 .. n : v[i] = v[i - 1] + s[i]
  BY <1>0, SumSoFar
<1>2. PICK w \in [0 .. n -> Int] : w[0] = 0 /\ Sum(t) = w[n] /\ \A i \in 1 .. n : w[i] = w[i - 1] + t[i]
  BY <1>0, SumSoFar
<1> DEFINE T == {i \in 0 .. n : v[i] <= w[i]}
<1>3. 0 \in T /\ \A i \in 0 .. n : i < n /\ i \in T => i + 1 \in T
  <2>1. ASSUME NEW i \in 0 .. n, i < n, v[i] <= w[i] PROVE v[i + 1] <= w[i + 1]
    <3>1. i + 1 \in 1 .. n /\ (i + 1) - 1 = i
      BY <2>1
    <3>2. v[i + 1] = v[i] + s[i + 1] /\ w[i + 1] = w[i] + t[i + 1]
      BY <1>1, <1>2, <3>1
    <3> QED BY <2>1, <3>1, <3>2
  <2> QED BY <1>1, <1>2, <2>1
<1>4. 0 .. n \subseteq T
  <2> HIDE DEF T
  <2> QED BY <1>3, OneByOne
<1> QED BY <1>1, <1>2, <1>4

LEMMA SumOfTimes ==
    ASSUME NEW n \in Nat, NEW c \in Int, NEW r \in [1 .. n -> Int], NEW s \in [1 .. n -> Int],
           \A i \in 1 .. n : r[i] = c * s[i]
    PROVE  Sum(r) = c * Sum(s)
<1>0. /\ \A i \in 1 .. n : r[i] \in Int /\ s[i] \in Int
      /\ Len(r) = n /\ Len(s) = n
  OBVIOUS
<1>1. PICK u \in [0 .. n -> Int] : u[0] = 0 /\ Sum(r) = u[n] /\ \A i \in 1 .. n : u[i] = u[i - 1] + r[i]
  BY <1>0, SumSoFar
<1>2. PICK v \in [0 .. n -> Int] : v[0] = 0 /\ Sum(s) = v[n] /\ \A i \in 1 .. n : v[i] = v[i - 1] + s[i]
  BY <1>0, SumSoFar
<1> DEFINE T == {i \in 0 .. n : u[i] = c * v[i]}
<1>3. 0 \in T /\ \A i \in 0 .. n : i < n /\ i \in T => i + 1 \in T
  <2>1. ASSUME NEW i \in 0 .. n, i < n, u[i] = c * v[i] PROVE u[i + 1] = c * v[i + 1]
    <3>1. i + 1 \in 1 .. n /\ (i + 1) - 1 = i
      BY <2>1
    <3>2. u[i + 1] = c * v[i] + c * s[i + 1] /\ v[i + 1] = v[i] + s[i + 1]
      BY <1>1, <1>2, <2>1, <3>1
    <3>3. v[i] \in Int /\ s[i + 1] \in Int
      BY <1>0, <3>1
    <3> QED BY <3>2, <3>3
  <2> QED BY <1>1, <1>2, <2>1
<1>4. 0 .. n \subseteq T
  <2> HIDE DEF T
  <2> QED BY <1>3, OneByOne
<1> QED BY <1>1, <1>2, <1>4

(* The same number every time, and one number with zeros around it.          *)
LEMMA SumOfSame ==
    ASSUME NEW n \in Nat, NEW c \in Int, NEW s \in [1 .. n -> Int], \A i \in 1 .. n : s[i] = c
    PROVE  Sum(s) = n * c
<1>0. Len(s) = n /\ \A i \in 1 .. n : s[i] \in Int
  OBVIOUS
<1>1. PICK v \in [0 .. n -> Int] : v[0] = 0 /\ Sum(s) = v[n] /\ \A i \in 1 .. n : v[i] = v[i - 1] + s[i]
  BY <1>0, SumSoFar
<1> DEFINE T == {i \in 0 .. n : v[i] = i * c}
<1>2. 0 \in T /\ \A i \in 0 .. n : i < n /\ i \in T => i + 1 \in T
  <2>1. ASSUME NEW i \in 0 .. n, i < n, v[i] = i * c PROVE v[i + 1] = (i + 1) * c
    <3>1. i + 1 \in 1 .. n /\ (i + 1) - 1 = i
      BY <2>1
    <3>2. v[i + 1] = i * c + c
      BY <1>1, <2>1, <3>1
    <3> QED BY <3>2
  <2> QED BY <1>1, <2>1
<1>3. 0 .. n \subseteq T
  <2> HIDE DEF T
  <2> QED BY <1>2, OneByOne
<1> QED BY <1>1, <1>3

LEMMA SumOfOne ==
    ASSUME NEW n \in Nat, NEW k \in 1 .. n, NEW s \in [1 .. n -> Int],
           \A i \in 1 .. n : i # k => s[i] = 0
    PROVE  Sum(s) = s[k]
<1>0. Len(s) = n /\ \A i \in 1 .. n : s[i] \in Int
  OBVIOUS
<1>1. PICK v \in [0 .. n -> Int] : v[0] = 0 /\ Sum(s) = v[n] /\ \A i \in 1 .. n : v[i] = v[i - 1] + s[i]
  BY <1>0, SumSoFar
<1> DEFINE T == {i \in 0 .. n : v[i] = IF i < k THEN 0 ELSE s[k]}
<1>2. 0 \in T /\ \A i \in 0 .. n : i < n /\ i \in T => i + 1 \in T
  <2>1. ASSUME NEW i \in 0 .. n, i < n, v[i] = IF i < k THEN 0 ELSE s[k]
        PROVE  v[i + 1] = IF i + 1 < k THEN 0 ELSE s[k]
    <3>1. i + 1 \in 1 .. n /\ (i + 1) - 1 = i
      BY <2>1
    <3>2. v[i + 1] = v[i] + s[i + 1]
      BY <1>1, <3>1
    <3> QED BY <2>1, <3>1, <3>2
  <2> QED BY <1>1, <2>1
<1>3. 0 .. n \subseteq T
  <2> HIDE DEF T
  <2> QED BY <1>2, OneByOne
<1> QED BY <1>1, <1>3

-----------------------------------------------------------------------------
(* A line's share of the discount                                            *)

LEMMA RoundedIs ==
    ASSUME NEW a \in Nat, NEW d \in Nat, d > 0
    PROVE  /\ Rounded(a, d) \in Nat
           /\ d * Rounded(a, d) + d * Rounded(a, d) <= 2 * a + d
           /\ 2 * a - d < d * Rounded(a, d) + d * Rounded(a, d)
<1>1. 2 * a + d \in Nat /\ 2 * d \in Nat /\ 2 * d > 0
  OBVIOUS
<1>2. PICK q \in Nat : q = Rounded(a, d) /\ q * (2 * d) <= 2 * a + d /\ 2 * a + d < q * (2 * d) + 2 * d
  BY <1>1 DEF Rounded
<1>3. q * (2 * d) = d * q + d * q
  OBVIOUS
<1>4. d * q \in Nat
  OBVIOUS
<1> QED BY <1>2, <1>3, <1>4

(* A share of at most the whole is at most what it is a share of.            *)
LEMMA ShareFits ==
    ASSUME NEW a \in Nat, NEW d \in Nat, NEW S \in Nat, S > 0, d <= S
    PROVE  Rounded(d * a, S) <= a
<1>1. d * a \in Nat /\ S * a \in Nat /\ d * a <= S * a
  <2>1. PICK e \in Nat : S = d + e
    <3>1. S - d \in Nat /\ S = d + (S - d)
      OBVIOUS
    <3> QED BY <3>1
  <2>2. S * a = d * a + e * a /\ e * a \in Nat /\ d * a \in Nat
    BY <2>1
  <2> QED BY <2>2
<1>2. PICK q \in Nat : q = Rounded(d * a, S) /\ S * q + S * q <= 2 * (d * a) + S
  BY <1>1, RoundedIs
<1>3. ASSUME q > a PROVE FALSE
  <2>1. PICK e \in Nat : q = a + 1 + e
    <3>1. q - (a + 1) \in Nat /\ q = a + 1 + (q - (a + 1))
      BY <1>3
    <3> QED BY <3>1
  <2>2. S * q = S * a + S + S * e /\ S * e \in Nat
    BY <2>1
  <2> QED BY <1>1, <1>2, <2>2
<1> QED BY <1>2, <1>3

LEMMA LastLineIs ==
    ASSUME NEW n \in Nat, NEW amounts \in [1 .. n -> Nat]
    PROVE  /\ LastLine(amounts) \in 0 .. n
           /\ LastLine(amounts) = 0 => \A i \in 1 .. n : amounts[i] = 0
           /\ LastLine(amounts) # 0 => amounts[LastLine(amounts)] > 0
<1> DEFINE costing == {i \in 1 .. n : amounts[i] > 0}
           Bottom(i) == i \in costing /\ \A j \in costing : j <= i
<1>1. LastLine(amounts) = IF costing = {} THEN 0 ELSE CHOOSE i \in costing : \A j \in costing : j <= i
  BY DEF LastLine
<1>2. CASE costing = {}
  BY <1>1, <1>2
<1>3. CASE costing # {}
  <2>1. costing \subseteq Nat /\ \A i \in costing : i <= n
    OBVIOUS
  <2>2. \E i \in costing : \A j \in costing : j <= i
    <3> HIDE DEF costing
    <3> QED BY <1>3, <2>1, GreatestOfAll
  <2>3. LastLine(amounts) \in costing
    <3> HIDE DEF costing
    <3> QED BY <1>1, <1>3, <2>2
  <2> QED BY <2>3
<1> QED BY <1>2, <1>3

(* Functions on the first numbers are sequences.                             *)
LEMMA IsSeq ==
    ASSUME NEW n \in Nat, NEW S, NEW f \in [1 .. n -> S]
    PROVE  f \in Seq(S) /\ Len(f) = n /\ DOMAIN f = 1 .. n
OBVIOUS

(* The shares add up to the discount.  Only the last line that costs         *)
(* something may have a share larger than what it costs, and by less than    *)
(* half a paisa for each line.                                               *)
LEMMA SharesAddUp ==
    ASSUME NEW n \in Nat, NEW amounts \in [1 .. n -> Nat], NEW d \in Nat, d <= Sum(amounts)
    PROVE  /\ Shares(amounts, d) \in [1 .. n -> Int]
           /\ Sum(Shares(amounts, d)) = d
           /\ LastLine(amounts) \in 0 .. n
           /\ \A i \in 1 .. n : i # LastLine(amounts) => Shares(amounts, d)[i] <= amounts[i]
           /\ LastLine(amounts) # 0 =>
                2 * (Shares(amounts, d)[LastLine(amounts)] - amounts[LastLine(amounts)]) < n
<1> DEFINE last == LastLine(amounts)
           S == Sum(amounts)
           part == [i \in 1 .. n |-> IF i = last \/ amounts[i] = 0 THEN 0 ELSE Rounded(d * amounts[i], S)]
           rest == [i \in 1 .. n |-> IF i = last THEN d - Sum(part) ELSE 0]
           shares == Shares(amounts, d)
<1>1. /\ last \in 0 .. n
      /\ last = 0 => \A i \in 1 .. n : amounts[i] = 0
      /\ last # 0 => last \in 1 .. n /\ amounts[last] > 0
  BY LastLineIs
<1>2. Len(amounts) = n /\ DOMAIN amounts = 1 .. n
  OBVIOUS
<1>3. S \in Nat
  <2>1. S \in Int
    BY <1>2, SumIsInt
  <2> DEFINE zeros == [i \in 1 .. n |-> 0]
  <2>2. zeros \in [1 .. n -> Int] /\ \A i \in 1 .. n : zeros[i] = 0 /\ zeros[i] <= amounts[i]
    OBVIOUS
  <2>3. Len(zeros) = n
    BY <2>2, IsSeq
  <2> HIDE DEF zeros
  <2>4. Sum(zeros) = n * 0 /\ Sum(zeros) <= S
    <3>1. Sum(zeros) = n * 0
      BY <2>2, <2>3, SumOfSame
    <3>2. Sum(zeros) <= S
      BY <1>2, <2>2, <2>3, SumAtLeast
    <3> QED BY <3>1, <3>2
  <2>5. n * 0 = 0
    OBVIOUS
  <2> QED BY <2>1, <2>4, <2>5
<1>4. shares = [i \in 1 .. n |-> IF i = last /\ amounts[i] > 0 THEN d - Sum(part) ELSE part[i]]
  BY <1>2 DEF Shares
<1> HIDE DEF last, S, shares
<1>5. ASSUME NEW i \in 1 .. n, amounts[i] # 0
      PROVE  S > 0
  <2> DEFINE one == [j \in 1 .. n |-> IF j = i THEN amounts[i] ELSE 0]
  <2>1. one \in [1 .. n -> Int] /\ one[i] = amounts[i] /\ \A j \in 1 .. n : j # i => one[j] = 0
    OBVIOUS
  <2>2. \A j \in 1 .. n : one[j] <= amounts[j] /\ one[j] \in Int /\ amounts[j] \in Int
    OBVIOUS
  <2>3. Len(one) = n
    BY <2>1, IsSeq
  <2> HIDE DEF one
  <2>4. Sum(one) = amounts[i]
    BY <2>1, <2>3, SumOfOne
  <2>5. Sum(one) <= S
    BY <1>4, <2>1, <2>2, SumAtLeast DEF S
  <2> QED BY <1>3, <1>5, <2>4, <2>5
<1>6. d <= S
  BY DEF S
<1>7. \A i \in 1 .. n : /\ part[i] \in Nat /\ part[i] <= amounts[i]
                        /\ i = last \/ amounts[i] = 0 => part[i] = 0
  <2>1. ASSUME NEW i \in 1 .. n PROVE part[i] \in Nat /\ part[i] <= amounts[i]
    <3>1. CASE i = last \/ amounts[i] = 0
      BY <3>1
    <3>2. CASE ~(i = last \/ amounts[i] = 0)
      <4>1. S > 0 /\ part[i] = Rounded(d * amounts[i], S) /\ d * amounts[i] \in Nat
        BY <1>5, <3>2
      <4>2. Rounded(d * amounts[i], S) \in Nat
        BY <1>3, <4>1, RoundedIs
      <4>3. Rounded(d * amounts[i], S) <= amounts[i]
        BY <1>3, <1>6, <4>1, ShareFits
      <4> QED BY <4>1, <4>2, <4>3
    <3> QED BY <3>1, <3>2
  <2> QED BY <2>1
<1>8. part \in [1 .. n -> Nat] /\ Len(part) = n
  <2>1. part = [i \in 1 .. n |-> part[i]]
    OBVIOUS
  <2>2. part \in [1 .. n -> Nat]
    <3> HIDE DEF part
    <3> QED BY <1>7, <2>1
  <2> QED BY <2>2, IsSeq
<1>9. Sum(part) \in Int
  <2> HIDE DEF part
  <2> QED BY <1>8, SumIsInt
<1>10. \A i \in 1 .. n : i # last => shares[i] = part[i]
  BY <1>4
<1>11. last # 0 => shares[last] = d - Sum(part)
  <2> HIDE DEF part
  <2> QED BY <1>1, <1>4
<1>12. shares \in [1 .. n -> Int] /\ Len(shares) = n
  <2>1. shares \in [1 .. n -> Int]
    <3> HIDE DEF part
    <3> QED BY <1>4, <1>7, <1>9
  <2> QED BY <2>1, IsSeq
<1>13. rest \in [1 .. n -> Int] /\ Len(rest) = n
  <2>1. rest \in [1 .. n -> Int]
    <3> HIDE DEF part
    <3> QED BY <1>9
  <2> QED BY <2>1, IsSeq
<1>14. CASE last = 0
  <2>1. \A i \in 1 .. n : amounts[i] = 0 /\ shares[i] = 0
    BY <1>1, <1>7, <1>10, <1>14
  <2>2. S = n * 0 /\ Sum(shares) = n * 0 /\ n * 0 = 0
    <3>1. S = n * 0
      BY <1>2, <2>1, SumOfSame DEF S
    <3>2. Sum(shares) = n * 0
      BY <1>12, <2>1, SumOfSame
    <3> QED BY <3>1, <3>2
  <2>3. d = 0
    BY <1>6, <2>2
  <2> QED BY <1>12, <1>14, <2>1, <2>2, <2>3 DEF last, shares
<1>15. CASE last # 0
  <2>1. Sum(shares) = d
    <3>1. \A i \in 1 .. n : part[i] \in Int /\ rest[i] \in Int /\ shares[i] = part[i] + rest[i]
      <4> HIDE DEF part
      <4> QED BY <1>7, <1>9, <1>10, <1>11, <1>15
    <3>2. Sum(rest) = d - Sum(part)
      <4>1. rest[last] = d - Sum(part) /\ \A i \in 1 .. n : i # last => rest[i] = 0
        BY <1>1, <1>15
      <4> HIDE DEF rest, part
      <4>2. PICK c \in Int, k \in 1 .. n : c = d - Sum(part) /\ k = last
        BY <1>1, <1>9, <1>15
      <4>3. rest[k] = c /\ \A i \in 1 .. n : i # k => rest[i] = 0
        BY <4>1, <4>2
      <4>4. Sum(rest) = c
        BY <1>13, <4>3, SumOfOne
      <4> QED BY <4>2, <4>4
    <3> HIDE DEF rest, part
    <3>3. Sum(shares) = Sum(part) + Sum(rest)
      <4>1. part \in [1 .. n -> Int]
        BY <1>8
      <4> QED BY <1>12, <1>13, <3>1, <4>1, SumOfTwo
    <3> QED BY <1>9, <3>2, <3>3
  <2>2. 2 * (shares[last] - amounts[last]) < n
    <3> DEFINE a == amounts[last]
               due == [i \in 1 .. n |-> (2 * d) * amounts[i]]
               most == [i \in 1 .. n |-> S]
               got == [i \in 1 .. n |-> (2 * S) * part[i]]
               gone == [i \in 1 .. n |-> IF i = last THEN (2 * d) * a - S ELSE 0]
               both == [i \in 1 .. n |-> got[i] + most[i]]
               all == [i \in 1 .. n |-> both[i] + gone[i]]
    <3>1. a \in Nat /\ a > 0 /\ S > 0 /\ last \in 1 .. n
      BY <1>1, <1>5, <1>15
    <3>2. (2 * d) * a - S \in Int
      BY <1>3, <3>1
    <3>3. \A i \in 1 .. n : /\ amounts[i] \in Int /\ part[i] \in Int
                            /\ due[i] \in Int /\ most[i] \in Int /\ got[i] \in Int /\ gone[i] \in Int
                            /\ both[i] \in Int /\ all[i] \in Int
      <4>1. ASSUME NEW i \in 1 .. n
            PROVE  /\ amounts[i] \in Int /\ part[i] \in Int
                   /\ due[i] \in Int /\ most[i] \in Int /\ got[i] \in Int /\ gone[i] \in Int
        <5> HIDE DEF part, a
        <5>1. amounts[i] \in Int /\ part[i] \in Int /\ S \in Int /\ gone[i] \in Int
          BY <1>3, <1>7, <3>2
        <5>2. (2 * d) * amounts[i] \in Int /\ (2 * S) * part[i] \in Int
          BY <5>1
        <5> QED BY <5>1, <5>2
      <4>2. \A i \in 1 .. n : both[i] = got[i] + most[i] /\ all[i] = both[i] + gone[i]
        OBVIOUS
      <4> HIDE DEF due, most, got, gone, both, all, part, a
      <4>3. ASSUME NEW i \in 1 .. n PROVE both[i] \in Int /\ all[i] \in Int
        <5>1. got[i] \in Int /\ most[i] \in Int /\ gone[i] \in Int
          BY <4>1
        <5>2. both[i] = got[i] + most[i] /\ all[i] = both[i] + gone[i]
          BY <4>2
        <5> QED BY <5>1, <5>2
      <4> QED BY <4>1, <4>3
    <3>4. \A i \in 1 .. n : /\ most[i] = S /\ both[i] = got[i] + most[i] /\ all[i] = both[i] + gone[i]
                            /\ i # last => gone[i] = 0
      OBVIOUS
    <3>0. \A i \in 1 .. n : due[i] = (2 * d) * amounts[i] /\ got[i] = (2 * S) * part[i]
      OBVIOUS
    <3>7. gone[last] = (2 * d) * a - S
      BY <3>1
    <3>5. \A i \in 1 .. n : due[i] <= all[i]
      <4> HIDE DEF due, most, got, gone, both, all, a
      <4>1. ASSUME NEW i \in 1 .. n PROVE due[i] <= all[i]
        <5>1. CASE i = last
          <6>1. part[i] = 0
            BY <1>3, <5>1
          <6>2. PICK w \in Int, v \in Int : w = due[i] /\ v = (2 * d) * a - S
            BY <3>2, <3>3
          <6>3. w = v + S /\ gone[i] = v
            BY <1>3, <3>2, <3>0, <3>7, <5>1, <6>2 DEF a
          <6>4. got[i] = 0 /\ most[i] = S /\ all[i] = got[i] + most[i] + gone[i]
            <7> HIDE DEF part
            <7>1. got[i] = 0
              BY <1>3, <3>0, <6>1
            <7> QED BY <1>3, <3>3, <3>4, <7>1
          <6> QED BY <1>3, <6>2, <6>3, <6>4
        <5>2. CASE i # last
          <6>1. all[i] = got[i] + S
            <7> HIDE DEF part
            <7>1. PICK g \in Int, m \in Int, o \in Int : g = got[i] /\ m = most[i] /\ o = gone[i]
              BY <3>3
            <7>2. m = S /\ o = 0 /\ both[i] = g + m
              BY <3>4, <5>2, <7>1
            <7>3. all[i] = both[i] + o
              BY <3>4, <7>1
            <7> QED BY <1>3, <7>1, <7>2, <7>3
          <6>2. CASE amounts[i] = 0
            <7>1. part[i] = 0
              BY <6>2
            <7> HIDE DEF part
            <7>2. due[i] = 0 /\ got[i] = 0
              BY <1>3, <3>0, <6>2, <7>1
            <7> QED BY <1>3, <6>1, <7>2
          <6>3. CASE amounts[i] # 0
            <7>1. part[i] = Rounded(d * amounts[i], S) /\ d * amounts[i] \in Nat /\ part[i] \in Nat
              BY <1>7, <5>2, <6>3
            <7> HIDE DEF part
            <7>2. 2 * (d * amounts[i]) - S < S * part[i] + S * part[i]
              BY <1>3, <3>1, <7>1, RoundedIs
            <7>3. got[i] = S * part[i] + S * part[i] /\ due[i] = 2 * (d * amounts[i])
              BY <1>3, <3>0, <7>1
            <7>4. PICK p \in Nat : p = S * part[i]
              BY <1>3, <7>1
            <7>5. PICK q \in Nat : q = d * amounts[i]
              BY <7>1
            <7>6. 2 * q - S < p + p /\ got[i] = p + p /\ due[i] = 2 * q
              BY <7>2, <7>3, <7>4, <7>5
            <7> QED BY <1>3, <6>1, <7>6
          <6> QED BY <6>2, <6>3
        <5> QED BY <5>1, <5>2
      <4> QED BY <4>1
    <3>6. /\ due \in [1 .. n -> Int] /\ most \in [1 .. n -> Int] /\ got \in [1 .. n -> Int]
          /\ gone \in [1 .. n -> Int] /\ both \in [1 .. n -> Int] /\ all \in [1 .. n -> Int]
      <4>1. /\ due = [i \in 1 .. n |-> due[i]] /\ most = [i \in 1 .. n |-> most[i]]
            /\ got = [i \in 1 .. n |-> got[i]] /\ gone = [i \in 1 .. n |-> gone[i]]
            /\ both = [i \in 1 .. n |-> both[i]] /\ all = [i \in 1 .. n |-> all[i]]
        OBVIOUS
      <4> HIDE DEF due, most, got, gone, both, all
      <4> QED BY <3>3, <4>1
    <3> HIDE DEF due, most, got, gone, both, all, part, a
    <3>8. Sum(due) = (2 * d) * S
      <4>1. PICK c \in Int : c = 2 * d
        OBVIOUS
      <4>2. \A i \in 1 .. n : due[i] = c * amounts[i]
        BY <3>0, <4>1
      <4>3. due \in [1 .. n -> Int] /\ amounts \in [1 .. n -> Int]
        BY <3>6
      <4>4. Sum(due) = c * Sum(amounts)
        BY <4>2, <4>3, SumOfTimes
      <4> QED BY <4>1, <4>4 DEF S
    <3>9. Sum(most) = n * S
      <4>1. S \in Int /\ \A i \in 1 .. n : most[i] = S
        BY <1>3, <3>4
      <4>2. PICK v \in Int : v = S
        BY <4>1
      <4>3. Sum(most) = n * v
        BY <3>6, <4>1, <4>2, SumOfSame
      <4> QED BY <4>2, <4>3
    <3>10. Sum(got) = (2 * S) * Sum(part)
      <4>1. PICK c \in Int : c = 2 * S
        BY <1>3
      <4>2. \A i \in 1 .. n : got[i] = c * part[i]
        BY <3>0, <4>1
      <4>3. got \in [1 .. n -> Int] /\ part \in [1 .. n -> Int]
        <5>1. got \in [1 .. n -> Int]
          BY <3>6
        <5>2. part \in [1 .. n -> Int]
          BY <1>8
        <5> QED BY <5>1, <5>2
      <4>4. Sum(got) = c * Sum(part)
        BY <4>2, <4>3, SumOfTimes
      <4> QED BY <4>1, <4>4
    <3>11. Sum(gone) = (2 * d) * a - S
      <4>1. PICK c \in Int, k \in 1 .. n : c = (2 * d) * a - S /\ k = last
        BY <3>1, <3>2
      <4>2. gone[k] = c /\ \A i \in 1 .. n : i # k => gone[i] = 0
        BY <3>4, <3>7, <4>1
      <4>3. Sum(gone) = c
        BY <3>6, <4>2, SumOfOne
      <4> QED BY <4>1, <4>3
    <3>12. Sum(both) = Sum(got) + Sum(most)
      <4>1. \A i \in 1 .. n : both[i] = got[i] + most[i]
        BY <3>4
      <4> QED BY <3>6, <4>1, SumOfTwo
    <3>13. Sum(all) = Sum(both) + Sum(gone)
      <4>1. \A i \in 1 .. n : all[i] = both[i] + gone[i]
        BY <3>4
      <4> QED BY <3>6, <4>1, SumOfTwo
    <3>14. Sum(due) <= Sum(all)
      BY <3>3, <3>5, <3>6, SumAtLeast
    <3>15. (2 * d) * S <= (2 * S) * Sum(part) + n * S + (2 * d) * a - S
      <4>1. (2 * S) * Sum(part) \in Int /\ n * S \in Int
        BY <1>3, <1>9
      <4> QED BY <1>3, <3>2, <3>8, <3>9, <3>10, <3>11, <3>12, <3>13, <3>14, <4>1
    <3>16. d * a <= S * a
      <4>1. PICK e \in Nat : S = d + e
        <5>1. S - d \in Nat /\ S = d + (S - d)
          BY <1>3, <1>6
        <5> QED BY <5>1
      <4>2. S * a = d * a + e * a /\ e * a \in Nat /\ d * a \in Nat
        BY <3>1, <4>1
      <4> QED BY <4>2
    <3> DEFINE left == d - Sum(part)
    <3>17. left \in Int /\ Sum(part) = d - left /\ shares[last] = left
      BY <1>9, <1>11, <1>15
    <3> HIDE DEF left
    <3>18. (2 * S) * left <= n * S + (2 * S) * a - S
      <4>1. (2 * S) * Sum(part) = (2 * d) * S - (2 * S) * left
        BY <1>3, <3>17
      <4>2. /\ (2 * d) * S \in Int /\ (2 * S) * left \in Int /\ n * S \in Int
            /\ (2 * d) * a \in Int /\ (2 * S) * a \in Int
            /\ (2 * d) * a <= (2 * S) * a
        <5>1. (2 * d) * a = 2 * (d * a) /\ (2 * S) * a = 2 * (S * a) /\ d * a \in Int /\ S * a \in Int
          BY <1>3, <3>1
        <5> QED BY <1>3, <3>1, <3>16, <3>17, <5>1
      <4> QED BY <1>3, <3>15, <4>1, <4>2
    <3>19. ASSUME ~(2 * (left - a) < n) PROVE FALSE
      <4>1. PICK e \in Nat : 2 * left = n + 2 * a + e
        <5>1. 2 * left - (n + 2 * a) \in Nat /\ 2 * left = n + 2 * a + (2 * left - (n + 2 * a))
          BY <3>1, <3>17, <3>19
        <5> QED BY <5>1
      <4>2. (2 * S) * left = S * (2 * left)
        BY <1>3, <3>17
      <4>3. S * (2 * left) = n * S + (2 * S) * a + S * e
        BY <1>3, <3>1, <4>1
      <4>4. S * e \in Nat /\ n * S \in Int /\ (2 * S) * a \in Int
        BY <1>3, <3>1
      <4>5. S * e >= 0 /\ (2 * S) * left = n * S + (2 * S) * a + S * e
        BY <4>2, <4>3, <4>4
      <4>6. (2 * S) * left \in Int
        BY <1>3, <3>17
      <4> QED BY <1>3, <3>1, <3>18, <4>4, <4>5, <4>6
    <3> QED BY <3>17, <3>19 DEF a
  <2>3. \A i \in 1 .. n : i # last => shares[i] <= amounts[i]
    BY <1>7, <1>10
  <2> QED BY <1>1, <1>12, <1>15, <2>1, <2>2, <2>3 DEF last, shares
<1> QED BY <1>14, <1>15
-----------------------------------------------------------------------------
(* An invoice: what was typed, and the figures that follow from it           *)

Item == [quantity : Nat, rate : Nat, gst : Nat]
Part == [percent : Nat, amount : Nat]

LinesOf(items, off, inter) ==
    [i \in DOMAIN items |-> Line(items[i], Amounts(items)[i], Shares(Amounts(items), off)[i], inter)]

TaxOf(lines) == Column(lines, "cgst") + Column(lines, "sgst") + Column(lines, "igst")

TotalOf(items, off, inter) ==
    100 * Rounded(Sum(Amounts(items)) - off + TaxOf(LinesOf(items, off, inter)), 100)

Figures(bill, items, off, plan) ==
    [saved |-> TRUE, gst |-> bill.gst, inclusive |-> bill.inclusive,
     inter |-> bill.inter, percent |-> bill.percent, lines |-> LinesOf(items, off, bill.inter),
     subtotal |-> Sum(Amounts(items)), discount |-> off,
     tax |-> TaxOf(LinesOf(items, off, bill.inter)), total |-> TotalOf(items, off, bill.inter),
     plan |-> SavedPlan(plan, TotalOf(items, off, bill.inter))]

(* The discount a bill comes to when its lines are before GST.               *)
OffSettled(percent, items, off) ==
    Least(DiscountBefore(off, items, items, percent, FALSE), Sum(Amounts(items))) = off

(* A saved invoice is what saving it would make of it again.                 *)
AsSaved ==
    invoice.saved =>
        /\ invoice = Figures(invoice, Kept, invoice.discount, invoice.plan)
        /\ Kept \in Seq(Item) /\ invoice.plan \in Seq(Part)
        /\ invoice.percent \in Nat /\ invoice.discount \in Nat
        /\ {invoice.gst, invoice.inclusive, invoice.inter} \subseteq BOOLEAN
        /\ (\A i \in DOMAIN Kept : ~invoice.gst => Kept[i].gst = 0)
        /\ OffSettled(invoice.percent, Kept, invoice.discount)
        /\ PlanFits(invoice.plan, invoice.total)

LinesInv == invoice.saved \in BOOLEAN /\ edits \in 0 .. MaxEdits /\ AsSaved

-----------------------------------------------------------------------------
(* What an invoice comes to                                                  *)

LineRow == [quantity : Nat, rate : Nat, gst : Nat, amount : Nat, discount : Int, taxable : Nat,
            cgst : Int, sgst : Int, igst : Int]

LEMMA SumIsNat ==
    ASSUME NEW n \in Nat, NEW s \in [1 .. n -> Nat]
    PROVE  Sum(s) \in Nat
<1> DEFINE zeros == [i \in 1 .. n |-> 0]
<1>1. /\ zeros \in [1 .. n -> Int] /\ Len(s) = n
      /\ \A i \in 1 .. n : zeros[i] = 0 /\ zeros[i] \in Int /\ s[i] \in Int /\ zeros[i] <= s[i]
  OBVIOUS
<1>2. Len(zeros) = n
  BY <1>1, IsSeq
<1> HIDE DEF zeros
<1>3. Sum(s) \in Int
  BY <1>1, SumIsInt
<1>4. Sum(zeros) = n * 0
  BY <1>1, <1>2, SumOfSame
<1>5. Sum(zeros) <= Sum(s)
  BY <1>1, <1>2, SumAtLeast
<1>6. n * 0 = 0
  OBVIOUS
<1> QED BY <1>3, <1>4, <1>5, <1>6

LEMMA SumAndLast ==
    ASSUME NEW n \in Nat, n > 0, NEW s \in [1 .. n -> Int], NEW r \in [1 .. n - 1 -> Int],
           \A i \in 1 .. n - 1 : r[i] = s[i]
    PROVE  Sum(s) = Sum(r) + s[n]
<1>0. /\ \A i \in 1 .. n : s[i] \in Int
      /\ \A i \in 1 .. n - 1 : r[i] \in Int
      /\ Len(s) = n /\ n - 1 \in Nat /\ Len(r) = n - 1
  OBVIOUS
<1>1. PICK u \in [0 .. n -> Int] : u[0] = 0 /\ Sum(s) = u[n] /\ \A i \in 1 .. n : u[i] = u[i - 1] + s[i]
  BY <1>0, SumSoFar
<1>2. PICK v \in [0 .. n - 1 -> Int] :
        v[0] = 0 /\ Sum(r) = v[n - 1] /\ \A i \in 1 .. n - 1 : v[i] = v[i - 1] + r[i]
  BY <1>0, SumSoFar
<1> DEFINE T == {i \in 0 .. n - 1 : u[i] = v[i]}
<1>3. 0 \in T /\ \A i \in 0 .. n - 1 : i < n - 1 /\ i \in T => i + 1 \in T
  <2>1. ASSUME NEW i \in 0 .. n - 1, i < n - 1, u[i] = v[i] PROVE u[i + 1] = v[i + 1]
    <3>1. i + 1 \in 1 .. n - 1 /\ i + 1 \in 1 .. n /\ (i + 1) - 1 = i
      BY <2>1
    <3> QED BY <1>1, <1>2, <2>1, <3>1
  <2> QED BY <1>1, <1>2, <2>1
<1>4. 0 .. n - 1 \subseteq T
  <2> HIDE DEF T
  <2> QED BY <1>0, <1>3, OneByOne
<1>5. n - 1 \in 0 .. n - 1 /\ n \in 1 .. n
  OBVIOUS
<1> QED BY <1>1, <1>2, <1>4, <1>5

(* One line.                                                                 *)
LEMMA LineIs ==
    ASSUME NEW item \in Item, NEW amount \in Nat, NEW share \in Int, NEW inter \in BOOLEAN
    PROVE  /\ Line(item, amount, share, inter) \in LineRow
           /\ Line(item, amount, share, inter).quantity = item.quantity
           /\ Line(item, amount, share, inter).rate = item.rate
           /\ Line(item, amount, share, inter).gst = item.gst
           /\ Line(item, amount, share, inter).amount = amount
           /\ Line(item, amount, share, inter).discount = share
           /\ Line(item, amount, share, inter).taxable =
                IF amount >= share THEN amount - share ELSE 0
<1> DEFINE taxable == IF amount >= share THEN amount - share ELSE 0
           gst == Rounded(taxable * item.gst, 100)
           cgst == IF inter THEN 0 ELSE Rounded(gst, 2)
           sgst == IF inter THEN 0 ELSE gst - cgst
           igst == IF inter THEN gst ELSE 0
<1>0. item.quantity \in Nat /\ item.rate \in Nat /\ item.gst \in Nat
  BY DEF Item
<1>1. taxable \in Nat
  OBVIOUS
<1>2. gst \in Nat
  <2> HIDE DEF taxable
  <2>1. taxable * item.gst \in Nat
    BY <1>0, <1>1
  <2> QED BY <2>1, RoundedIs
<1>3. cgst \in Int /\ sgst \in Int /\ igst \in Int
  <2> HIDE DEF gst
  <2>1. Rounded(gst, 2) \in Nat
    BY <1>2, RoundedIs
  <2> QED BY <1>2, <2>1
<1>4. Line(item, amount, share, inter) =
        [quantity |-> item.quantity, rate |-> item.rate, gst |-> item.gst,
         amount |-> amount, discount |-> share, taxable |-> taxable,
         cgst |-> cgst, sgst |-> sgst, igst |-> igst]
  BY DEF Line
<1> HIDE DEF taxable, cgst, sgst, igst
<1>5. Line(item, amount, share, inter) \in LineRow
  BY <1>0, <1>1, <1>3, <1>4 DEF LineRow
<1> QED BY <1>4, <1>5 DEF taxable

LEMMA AmountsAre ==
    ASSUME NEW items \in Seq(Item)
    PROVE  /\ Len(items) \in Nat /\ DOMAIN items = 1 .. Len(items)
           /\ \A i \in 1 .. Len(items) : items[i] \in Item
           /\ Amounts(items) \in [1 .. Len(items) -> Nat] /\ Sum(Amounts(items)) \in Nat
<1>1. /\ Len(items) \in Nat /\ DOMAIN items = 1 .. Len(items)
      /\ \A i \in 1 .. Len(items) : items[i] \in Item
  OBVIOUS
<1>2. \A i \in 1 .. Len(items) : items[i].quantity * items[i].rate \in Nat
  <2>1. \A i \in 1 .. Len(items) : items[i].quantity \in Nat /\ items[i].rate \in Nat
    BY <1>1 DEF Item
  <2> QED BY <2>1
<1>3. Amounts(items) \in [1 .. Len(items) -> Nat]
  BY <1>1, <1>2 DEF Amounts
<1> QED BY <1>1, <1>3, SumIsNat

(* Every line.                                                               *)
LEMMA LinesAre ==
    ASSUME NEW items \in Seq(Item), NEW off \in Nat, off <= Sum(Amounts(items)),
           NEW inter \in BOOLEAN
    PROVE  /\ LinesOf(items, off, inter) \in [1 .. Len(items) -> LineRow]
           /\ \A i \in 1 .. Len(items) :
                LET l == LinesOf(items, off, inter)[i] IN
                /\ l.quantity = items[i].quantity /\ l.rate = items[i].rate /\ l.gst = items[i].gst
                /\ l.amount = Amounts(items)[i] /\ l.discount = Shares(Amounts(items), off)[i]
                /\ l.taxable = IF l.amount >= l.discount THEN l.amount - l.discount ELSE 0
<1> DEFINE n == Len(items)
           A == Amounts(items)
           D == Shares(A, off)
           L == LinesOf(items, off, inter)
<1>1. /\ n \in Nat /\ DOMAIN items = 1 .. n /\ A \in [1 .. n -> Nat]
      /\ \A i \in 1 .. n : items[i] \in Item
  BY AmountsAre
<1>2. D \in [1 .. n -> Int]
  <2> HIDE DEF A, n
  <2>1. off <= Sum(A)
    BY DEF A
  <2> QED BY <1>1, <2>1, SharesAddUp
<1>3. L = [i \in 1 .. n |-> Line(items[i], A[i], D[i], inter)]
  BY <1>1 DEF LinesOf
<1>4. \A i \in 1 .. n : L[i] = Line(items[i], A[i], D[i], inter)
  BY <1>3
<1> HIDE DEF A, D, L, n
<1>5. ASSUME NEW i \in 1 .. n
      PROVE  /\ L[i] \in LineRow
             /\ L[i].quantity = items[i].quantity /\ L[i].rate = items[i].rate /\ L[i].gst = items[i].gst
             /\ L[i].amount = A[i] /\ L[i].discount = D[i]
             /\ L[i].taxable = IF A[i] >= D[i] THEN A[i] - D[i] ELSE 0
  <2>1. items[i] \in Item /\ A[i] \in Nat /\ D[i] \in Int
    BY <1>1, <1>2
  <2> QED BY <1>4, <2>1, LineIs
<1>6. L \in [1 .. n -> LineRow]
  <2>1. L = [i \in 1 .. n |-> L[i]]
    BY <1>3
  <2> QED BY <1>5, <2>1
<1> QED BY <1>5, <1>6 DEF A, D, L, n

(* The lines add up to the discount and to the price less the discount, but  *)
(* for what rounding leaves on the last one.                                 *)
LEMMA LinesAddUp ==
    ASSUME NEW items \in Seq(Item), NEW off \in Nat, off <= Sum(Amounts(items)),
           NEW inter \in BOOLEAN, NEW L, L = LinesOf(items, off, inter),
           NEW over, over = Column(L, "taxable") - (Sum(Amounts(items)) - off)
    PROVE  /\ Column(L, "discount") = off
           /\ 2 * over \in 0 .. Len(L)
           /\ (\A i \in DOMAIN L : L[i].discount <= L[i].amount) => over = 0
           /\ TaxOf(L) \in Int
<1> DEFINE n == Len(items)
           A == Amounts(items)
           D == Shares(A, off)
           last == LastLine(A)
           taxed == [i \in 1 .. n |-> L[i].taxable]
           net == [i \in 1 .. n |-> A[i] - D[i]]
           more == [i \in 1 .. n |-> taxed[i] - net[i]]
<1>1. /\ n \in Nat /\ A \in [1 .. n -> Nat] /\ A \in [1 .. n -> Int] /\ Sum(A) \in Nat
      /\ \A i \in 1 .. n : A[i] \in Nat
  BY AmountsAre
<1>2. /\ L \in [1 .. n -> LineRow] /\ \A i \in 1 .. n : L[i] \in LineRow
      /\ \A i \in 1 .. n : /\ L[i].amount = A[i] /\ L[i].discount = D[i]
                           /\ L[i].taxable = IF A[i] >= D[i] THEN A[i] - D[i] ELSE 0
  BY LinesAre
<1>3. /\ D \in [1 .. n -> Int] /\ Sum(D) = off /\ last \in 0 .. n
      /\ \A i \in 1 .. n : i # last => D[i] <= A[i]
      /\ last # 0 => 2 * (D[last] - A[last]) < n
  <2>1. off <= Sum(A)
    OBVIOUS
  <2> HIDE DEF A, n
  <2> QED BY <1>1, <2>1, SharesAddUp
<1> HIDE DEF A, D, n, last
<1>4. DOMAIN L = 1 .. n /\ Len(L) = n
  BY <1>1, <1>2, IsSeq
<1>5. Column(L, "discount") = off
  <2>1. [i \in DOMAIN L |-> L[i]["discount"]] = D
    BY <1>2, <1>3, <1>4
  <2> QED BY <1>3, <2>1 DEF Column
<1>6. Column(L, "taxable") = Sum(taxed)
  <2>1. [i \in DOMAIN L |-> L[i]["taxable"]] = taxed
    BY <1>4
  <2> HIDE DEF taxed
  <2> QED BY <2>1 DEF Column
<1>7. \A i \in 1 .. n : /\ taxed[i] \in Nat /\ net[i] \in Int /\ more[i] \in Int
                        /\ A[i] = net[i] + D[i] /\ taxed[i] = net[i] + more[i]
                        /\ more[i] = IF D[i] <= A[i] THEN 0 ELSE D[i] - A[i]
  <2>1. ASSUME NEW i \in 1 .. n
        PROVE  /\ taxed[i] \in Nat /\ net[i] \in Int /\ more[i] \in Int
               /\ A[i] = net[i] + D[i] /\ taxed[i] = net[i] + more[i]
               /\ more[i] = IF D[i] <= A[i] THEN 0 ELSE D[i] - A[i]
    <3>1. A[i] \in Nat /\ D[i] \in Int /\ taxed[i] = IF A[i] >= D[i] THEN A[i] - D[i] ELSE 0
      BY <1>1, <1>2, <1>3
    <3>2. net[i] = A[i] - D[i] /\ more[i] = taxed[i] - net[i]
      OBVIOUS
    <3> HIDE DEF taxed, net, more
    <3>3. CASE D[i] <= A[i]
      <4>1. taxed[i] = A[i] - D[i] /\ A[i] - D[i] \in Nat
        BY <3>1, <3>3
      <4>2. PICK a \in Nat, d \in Int : a = A[i] /\ d = D[i]
        BY <3>1
      <4>3. d <= a /\ taxed[i] = a - d /\ net[i] = a - d /\ more[i] = (a - d) - (a - d)
        BY <3>2, <3>3, <4>1, <4>2
      <4>4. a - d \in Nat /\ more[i] = 0 /\ a = (a - d) + d /\ a - d = (a - d) + 0
        BY <4>3
      <4> QED BY <4>2, <4>3, <4>4
    <3>4. CASE ~(D[i] <= A[i])
      <4>1. taxed[i] = 0
        BY <3>1, <3>4
      <4> QED BY <3>1, <3>2, <3>4, <4>1
    <3> QED BY <3>3, <3>4
  <2> QED BY <2>1
<1>8. taxed \in [1 .. n -> Int] /\ net \in [1 .. n -> Int] /\ more \in [1 .. n -> Int]
  <2>1. taxed = [i \in 1 .. n |-> taxed[i]] /\ net = [i \in 1 .. n |-> net[i]]
        /\ more = [i \in 1 .. n |-> more[i]]
    OBVIOUS
  <2> HIDE DEF taxed, net, more
  <2> QED BY <1>7, <2>1
<1> HIDE DEF taxed, net, more
<1>9. Sum(A) = Sum(net) + Sum(D)
  <2>1. /\ n \in Nat /\ A \in [1 .. n -> Int] /\ D \in [1 .. n -> Int] /\ net \in [1 .. n -> Int]
        /\ \A i \in 1 .. n : A[i] = net[i] + D[i]
    BY <1>1, <1>3, <1>7, <1>8
  <2> QED BY <2>1, SumOfTwo
<1>10. Sum(taxed) = Sum(net) + Sum(more)
  <2>1. \A i \in 1 .. n : taxed[i] = net[i] + more[i]
    BY <1>7
  <2> QED BY <1>1, <1>8, <2>1, SumOfTwo
<1>11. Sum(net) \in Int /\ Sum(more) \in Int
  <2>1. \A s \in [1 .. n -> Int] : Len(s) = n /\ \A i \in 1 .. n : s[i] \in Int
    BY <1>1, IsSeq
  <2> QED BY <1>1, <1>8, <2>1, SumIsInt
<1>12. over = Sum(more)
  BY <1>1, <1>3, <1>6, <1>9, <1>10, <1>11 DEF A
<1>13. ASSUME \A i \in 1 .. n : D[i] <= A[i]
       PROVE  Sum(more) = 0
  <2>1. \A i \in 1 .. n : more[i] = 0
    BY <1>7, <1>13
  <2>2. n * 0 = 0
    BY <1>1
  <2>3. Sum(more) = n * 0
    <3>1. PICK z \in Int : z = 0
      OBVIOUS
    <3>2. Sum(more) = n * z
      BY <1>1, <1>8, <2>1, <3>1, SumOfSame
    <3> QED BY <3>1, <3>2
  <2> QED BY <2>2, <2>3
<1>14. 2 * Sum(more) \in 0 .. n
  <2>1. CASE \A i \in 1 .. n : D[i] <= A[i]
    BY <1>1, <1>13, <2>1
  <2>2. CASE ~\A i \in 1 .. n : D[i] <= A[i]
    <3>1. last \in 1 .. n /\ ~(D[last] <= A[last]) /\ D[last] \in Int /\ A[last] \in Nat
      BY <1>1, <1>3, <2>2
    <3>2. more[last] = D[last] - A[last] /\ more[last] \in Int
      BY <1>7, <3>1
    <3>3. \A i \in 1 .. n : i # last => more[i] = 0
      BY <1>3, <1>7
    <3>5. PICK c \in Int : c = more[last]
      BY <3>2
    <3>6. Sum(more) = c
      BY <1>1, <1>8, <3>1, <3>3, <3>5, SumOfOne
    <3>7. c = D[last] - A[last] /\ c > 0 /\ last # 0
      BY <1>3, <3>1, <3>2, <3>5
    <3>8. 2 * c < n
      BY <1>3, <3>7
    <3> QED BY <1>1, <3>6, <3>7, <3>8
  <2> QED BY <2>1, <2>2
<1>15. (\A i \in DOMAIN L : L[i].discount <= L[i].amount) => over = 0
  BY <1>2, <1>4, <1>12, <1>13
<1>16. TaxOf(L) \in Int
  <2>1. /\ Column(L, "cgst") \in Int /\ Column(L, "sgst") \in Int /\ Column(L, "igst") \in Int
    <3>1. /\ [i \in DOMAIN L |-> L[i]["cgst"]] \in [1 .. n -> Int]
          /\ [i \in DOMAIN L |-> L[i]["sgst"]] \in [1 .. n -> Int]
          /\ [i \in DOMAIN L |-> L[i]["igst"]] \in [1 .. n -> Int]
      BY <1>2, <1>4 DEF LineRow
    <3>2. ASSUME NEW s \in [1 .. n -> Int] PROVE Sum(s) \in Int
      <4>1. Len(s) = n /\ \A i \in 1 .. n : s[i] \in Int
        BY <1>1, IsSeq
      <4> QED BY <1>1, <4>1, SumIsInt
    <3> QED BY <3>1, <3>2 DEF Column
  <2> QED BY <2>1 DEF TaxOf
<1> QED BY <1>4, <1>5, <1>12, <1>14, <1>15, <1>16

(* A total in whole rupees is within half a rupee of what it rounds.         *)
LEMMA RoundedRupees ==
    ASSUME NEW a \in Int
    PROVE  /\ 100 * Rounded(a, 100) \in Int
           /\ 100 * Rounded(a, 100) - a \in -50 .. 50
BY DEF Rounded

-----------------------------------------------------------------------------
(* The parts of a plan                                                       *)

LEMMA PartsAddUp ==
    ASSUME NEW plan \in Seq(Part), NEW total \in Int
    PROVE  /\ PartAmounts(plan, total) \in [1 .. Len(plan) -> Int]
           /\ Column(SavedPlan(plan, total), "amount") = Sum(PartAmounts(plan, total))
           /\ plan # <<>> /\ (\A i \in DOMAIN plan : plan[i].percent > 0)
                /\ Column(plan, "percent") = 10000
                => Sum(PartAmounts(plan, total)) = total
<1> DEFINE n == Len(plan)
           parts == [i \in 1 .. n |-> IF plan[i].percent > 0 THEN Rounded(total * plan[i].percent, 10000)
                                      ELSE plan[i].amount]
           percents == [i \in 1 .. n |-> plan[i].percent]
           first == [i \in 1 .. n - 1 |-> parts[i]]
           InPercents == (\A i \in 1 .. n : percents[i] > 0) /\ Sum(percents) = 10000
<1>1. /\ n \in Nat /\ DOMAIN plan = 1 .. n
      /\ \A i \in 1 .. n : plan[i].percent \in Nat /\ plan[i].amount \in Nat
  <2>1. n \in Nat /\ DOMAIN plan = 1 .. n /\ \A i \in 1 .. n : plan[i] \in Part
    OBVIOUS
  <2> QED BY <2>1 DEF Part
<1>2. \A i \in 1 .. n : parts[i] \in Int
  <2>1. ASSUME NEW i \in 1 .. n PROVE Rounded(total * plan[i].percent, 10000) \in Int
    <3>1. total * plan[i].percent \in Int
      BY <1>1
    <3> QED BY <3>1 DEF Rounded
  <2> QED BY <1>1, <2>1
<1>3. parts \in [1 .. n -> Int]
  <2>1. parts = [i \in 1 .. n |-> parts[i]]
    OBVIOUS
  <2> HIDE DEF parts
  <2> QED BY <1>2, <2>1
<1>4. PartAmounts(plan, total) = IF InPercents THEN [parts EXCEPT ![n] = total - Sum(first)] ELSE parts
  BY <1>1 DEF PartAmounts
<1>5. first \in [1 .. n - 1 -> Int] /\ \A i \in 1 .. n - 1 : first[i] = parts[i]
  <2> HIDE DEF parts
  <2> QED BY <1>1, <1>3
<1> HIDE DEF parts, first
<1>6. Sum(first) \in Int
  <2>1. CASE n = 0
    <3>1. 0 \in Nat /\ first \in [1 .. 0 -> Int]
      BY <1>5, <2>1
    <3>2. Len(first) = 0 /\ \A i \in 1 .. 0 : first[i] \in Int
      BY <3>1, IsSeq
    <3> QED BY <3>1, <3>2, SumIsInt
  <2>2. CASE n # 0
    <3>1. n - 1 \in Nat
      BY <1>1, <2>2
    <3>2. Len(first) = n - 1 /\ \A i \in 1 .. n - 1 : first[i] \in Int
      BY <1>5, <3>1, IsSeq
    <3> QED BY <3>1, <3>2, SumIsInt
  <2> QED BY <2>1, <2>2
<1>7. PartAmounts(plan, total) \in [1 .. n -> Int]
  <2>1. [parts EXCEPT ![n] = total - Sum(first)] \in [1 .. n -> Int]
    <3>1. PICK v \in Int : v = total - Sum(first)
      BY <1>6
    <3> QED BY <1>3, <3>1
  <2> HIDE DEF InPercents
  <2> QED BY <1>3, <1>4, <2>1
<1>8. Column(SavedPlan(plan, total), "amount") = Sum(PartAmounts(plan, total))
  <2> DEFINE saved == SavedPlan(plan, total)
  <2>1. DOMAIN saved = 1 .. n /\ \A i \in 1 .. n : saved[i].amount = PartAmounts(plan, total)[i]
    BY <1>1 DEF SavedPlan
  <2> HIDE DEF saved
  <2>2. [i \in DOMAIN saved |-> saved[i]["amount"]] = PartAmounts(plan, total)
    BY <1>7, <2>1
  <2> QED BY <2>2 DEF Column, saved
<1>9. ASSUME plan # <<>>, \A i \in DOMAIN plan : plan[i].percent > 0,
             Column(plan, "percent") = 10000
      PROVE  Sum(PartAmounts(plan, total)) = total
  <2>1. InPercents
    <3>1. percents = [i \in DOMAIN plan |-> plan[i]["percent"]]
      BY <1>1
    <3>2. \A i \in 1 .. n : percents[i] > 0
      BY <1>1, <1>9
    <3> HIDE DEF percents
    <3>3. Sum(percents) = 10000
      BY <1>9, <3>1 DEF Column
    <3> QED BY <3>2, <3>3
  <2>2. n > 0 /\ n \in 1 .. n
    BY <1>1, <1>9
  <2> DEFINE all == [parts EXCEPT ![n] = total - Sum(first)]
  <2>3. /\ all \in [1 .. n -> Int] /\ all[n] = total - Sum(first)
        /\ \A i \in 1 .. n - 1 : first[i] = all[i]
    BY <1>3, <1>5, <1>6, <2>2
  <2>4. PartAmounts(plan, total) = all
    BY <1>4, <2>1
  <2> HIDE DEF all
  <2>5. Sum(all) = Sum(first) + all[n]
    BY <1>1, <1>5, <2>2, <2>3, SumAndLast
  <2> QED BY <1>6, <2>3, <2>4, <2>5
<1> QED BY <1>7, <1>8, <1>9

(* A plan that was saved is saved as the same one again.                     *)
LEMMA SavedTwice ==
    ASSUME NEW plan \in Seq(Part), NEW total \in Int,
           \A i \in DOMAIN plan : PartAmounts(plan, total)[i] > 0
    PROVE  /\ SavedPlan(plan, total) \in Seq(Part)
           /\ Len(SavedPlan(plan, total)) = Len(plan)
           /\ PartAmounts(SavedPlan(plan, total), total) = PartAmounts(plan, total)
           /\ SavedPlan(SavedPlan(plan, total), total) = SavedPlan(plan, total)
<1> DEFINE n == Len(plan)
           parts == PartAmounts(plan, total)
           saved == SavedPlan(plan, total)
           InPercents(p) == /\ \A i \in DOMAIN p : [j \in DOMAIN p |-> p[j].percent][i] > 0
                            /\ Sum([j \in DOMAIN p |-> p[j].percent]) = 10000
           Own(p) == [i \in DOMAIN p |-> IF p[i].percent > 0 THEN Rounded(total * p[i].percent, 10000)
                                         ELSE p[i].amount]
           Parts(p) == IF InPercents(p)
                       THEN [Own(p) EXCEPT ![Len(p)] = total - Sum([i \in 1 .. Len(p) - 1 |-> Own(p)[i]])]
                       ELSE Own(p)
<1>1. /\ n \in Nat /\ DOMAIN plan = 1 .. n
      /\ \A i \in 1 .. n : plan[i].percent \in Nat /\ plan[i].amount \in Nat
  <2>1. n \in Nat /\ DOMAIN plan = 1 .. n /\ \A i \in 1 .. n : plan[i] \in Part
    OBVIOUS
  <2> QED BY <2>1 DEF Part
<1>2. parts \in [1 .. n -> Int] /\ \A i \in 1 .. n : parts[i] > 0
  <2>1. PartAmounts(plan, total) \in [1 .. Len(plan) -> Int]
    BY PartsAddUp
  <2> QED BY <1>1, <2>1
<1>3. \A p : PartAmounts(p, total) = Parts(p)
  BY DEF PartAmounts
<1>4. \A i \in 1 .. n : ~(plan[i].percent > 0) => parts[i] = plan[i].amount
  <2> SUFFICES ASSUME NEW i \in 1 .. n, ~(plan[i].percent > 0) PROVE parts[i] = plan[i].amount
    OBVIOUS
  <2>1. ~InPercents(plan)
    BY <1>1
  <2>2. parts = Own(plan)
    <3> HIDE DEF InPercents, Own
    <3> QED BY <1>3, <2>1
  <2> QED BY <1>1, <2>2
<1>5. /\ saved = [i \in 1 .. n |-> [percent |-> plan[i].percent, amount |-> parts[i]]]
  BY <1>1 DEF SavedPlan
<1> HIDE DEF parts, saved
<1>6. /\ DOMAIN saved = 1 .. n
      /\ \A i \in 1 .. n : /\ saved[i] \in Part /\ saved[i].percent = plan[i].percent
                           /\ saved[i].amount = parts[i]
  <2>1. \A i \in 1 .. n : parts[i] \in Nat /\ plan[i].percent \in Nat
    BY <1>1, <1>2
  <2>2. DOMAIN saved = 1 .. n
        /\ \A i \in 1 .. n : saved[i] = [percent |-> plan[i].percent, amount |-> parts[i]]
    BY <1>5
  <2> QED BY <2>1, <2>2 DEF Part
<1>7. saved \in [1 .. n -> Part]
  <2>1. saved = [i \in 1 .. n |-> saved[i]]
    BY <1>5
  <2> QED BY <1>6, <2>1
<1>8. saved \in Seq(Part) /\ Len(saved) = n
  BY <1>1, <1>7, IsSeq
<1>9. PartAmounts(saved, total) = parts
  <2>1. [j \in DOMAIN saved |-> saved[j].percent] = [j \in DOMAIN plan |-> plan[j].percent]
    BY <1>1, <1>6
  <2>2. InPercents(saved) <=> InPercents(plan)
    <3>1. PICK percents : percents = [j \in DOMAIN plan |-> plan[j].percent]
      OBVIOUS
    <3>2. InPercents(plan) <=> (\A i \in 1 .. n : percents[i] > 0) /\ Sum(percents) = 10000
      BY <1>1, <3>1
    <3>3. InPercents(saved) <=> (\A i \in 1 .. n : percents[i] > 0) /\ Sum(percents) = 10000
      <4>1. [j \in DOMAIN saved |-> saved[j].percent] = percents
        BY <2>1, <3>1
      <4>2. (\A i \in DOMAIN saved : [j \in DOMAIN saved |-> saved[j].percent][i] > 0)
               <=> \A i \in 1 .. n : percents[i] > 0
        BY <1>1, <1>6, <3>1
      <4>3. Sum([j \in DOMAIN saved |-> saved[j].percent]) = 10000 <=> Sum(percents) = 10000
        BY <4>1
      <4> QED BY <4>2, <4>3
    <3> HIDE DEF InPercents
    <3> QED BY <3>2, <3>3
  <2>3. CASE InPercents(plan)
    <3>1. \A i \in 1 .. n : plan[i].percent > 0
      BY <1>1, <2>3
    <3>2. Own(saved) = Own(plan)
      BY <1>1, <1>6, <3>1
    <3> HIDE DEF InPercents, Own
    <3>3. Parts(saved) = Parts(plan)
      BY <1>8, <2>2, <2>3, <3>2
    <3> QED BY <1>3, <3>3 DEF parts
  <2>4. CASE ~InPercents(plan)
    <3>1. parts = Own(plan) /\ PartAmounts(saved, total) = Own(saved)
      <4> HIDE DEF InPercents, Own
      <4> QED BY <1>3, <2>2, <2>4 DEF parts
    <3>2. Own(saved) = Own(plan)
      BY <1>1, <1>4, <1>6, <3>1
    <3> QED BY <3>1, <3>2
  <2> QED BY <2>3, <2>4
<1>10. SavedPlan(saved, total) = saved
  <2>1. SavedPlan(saved, total) = [i \in 1 .. n |-> [percent |-> saved[i].percent, amount |-> parts[i]]]
    BY <1>6, <1>9 DEF SavedPlan
  <2> QED BY <1>5, <1>6, <2>1
<1> QED BY <1>8, <1>9, <1>10 DEF parts, saved

-----------------------------------------------------------------------------
(* Saving                                                                    *)

BillOf(bill) ==
    /\ bill.gst \in BOOLEAN /\ bill.inclusive \in BOOLEAN /\ bill.inter \in BOOLEAN
    /\ bill.percent \in Nat

(* What is saved is what saving it would make of it again.                   *)
LEMMA FiguresStand ==
    ASSUME NEW bill, BillOf(bill), NEW items \in Seq(Item), NEW off \in Nat,
           off <= Sum(Amounts(items)), NEW plan \in Seq(Part),
           PlanFits(plan, TotalOf(items, off, bill.inter)),
           \A i \in DOMAIN items : ~bill.gst => items[i].gst = 0,
           OffSettled(bill.percent, items, off),
           invoice' = Figures(bill, items, off, plan)
    PROVE  invoice'.saved = TRUE /\ AsSaved'
<1> DEFINE n == Len(items)
           L == LinesOf(items, off, bill.inter)
           total == TotalOf(items, off, bill.inter)
           saved == SavedPlan(plan, total)
<1>1. n \in Nat /\ DOMAIN items = 1 .. n /\ \A i \in 1 .. n : items[i] \in Item
  BY AmountsAre
<1>2. /\ L \in [1 .. n -> LineRow] /\ DOMAIN L = 1 .. n
      /\ \A i \in 1 .. n : L[i].quantity = items[i].quantity /\ L[i].rate = items[i].rate
                           /\ L[i].gst = items[i].gst
  <2>1. bill.inter \in BOOLEAN
    BY DEF BillOf
  <2>2. PICK inter \in BOOLEAN : inter = bill.inter
    BY <2>1
  <2> DEFINE M == LinesOf(items, off, inter)
  <2>3. L = M
    BY <2>2
  <2>4. /\ M \in [1 .. n -> LineRow]
        /\ \A i \in 1 .. n : M[i].quantity = items[i].quantity /\ M[i].rate = items[i].rate
                             /\ M[i].gst = items[i].gst
    BY LinesAre
  <2> HIDE DEF L, M
  <2> QED BY <2>3, <2>4
<1>3. total \in Int
  <2>1. PICK inter \in BOOLEAN : inter = bill.inter
    BY DEF BillOf
  <2>2. TaxOf(L) \in Int
    BY <2>1, LinesAddUp
  <2>3. Sum(Amounts(items)) - off + TaxOf(L) \in Int
    BY <2>2, AmountsAre
  <2> HIDE DEF L
  <2> QED BY <2>3, RoundedRupees DEF TotalOf, L
<1>4. \A i \in DOMAIN plan : PartAmounts(plan, total)[i] > 0
  <2>1. plan = <<>> => DOMAIN plan = {}
    OBVIOUS
  <2> QED BY <2>1 DEF PlanFits
<1>5. saved \in Seq(Part) /\ PartAmounts(saved, total) = PartAmounts(plan, total)
      /\ SavedPlan(saved, total) = saved /\ Len(saved) = Len(plan)
  <2> HIDE DEF total
  <2> QED BY <1>3, <1>4, SavedTwice
<1>6. PlanFits(saved, total)
  <2>1. saved = <<>> <=> plan = <<>>
    BY <1>5
  <2>2. DOMAIN saved = DOMAIN plan
    BY <1>5
  <2>3. PlanFits(plan, total)
    OBVIOUS
  <2> HIDE DEF saved, total
  <2> QED BY <1>5, <2>1, <2>2, <2>3 DEF PlanFits
<1> DEFINE f == Figures(bill, items, off, plan)
<1>7. /\ f.saved = TRUE /\ f.gst = bill.gst /\ f.inclusive = bill.inclusive /\ f.inter = bill.inter
      /\ f.percent = bill.percent /\ f.lines = L /\ f.discount = off /\ f.total = total
      /\ f.plan = saved
      /\ f = [saved |-> TRUE, gst |-> bill.gst, inclusive |-> bill.inclusive,
              inter |-> bill.inter, percent |-> bill.percent, lines |-> L,
              subtotal |-> Sum(Amounts(items)), discount |-> off,
              tax |-> TaxOf(L), total |-> total, plan |-> saved]
  <2> HIDE DEF L, total, saved
  <2> QED BY DEF Figures, L, total, saved
<1>8. invoice' = f
  OBVIOUS
<1> HIDE DEF f
<1>9. Kept' = items
  <2>1. Kept' = [i \in 1 .. n |-> [quantity |-> L[i].quantity, rate |-> L[i].rate, gst |-> L[i].gst]]
    BY <1>2, <1>7, <1>8 DEF Kept
  <2>2. \A i \in 1 .. n : [quantity |-> L[i].quantity, rate |-> L[i].rate, gst |-> L[i].gst] = items[i]
    <3> HIDE DEF L
    <3> QED BY <1>1, <1>2 DEF Item
  <2>3. items = [i \in 1 .. n |-> items[i]]
    BY <1>1
  <2> HIDE DEF L
  <2> QED BY <2>1, <2>2, <2>3
<1>10. Figures(f, items, off, saved) = f
  <2> HIDE DEF L, total, saved
  <2>1. /\ LinesOf(items, off, f.inter) = L /\ TotalOf(items, off, f.inter) = total
        /\ SavedPlan(saved, total) = saved
    BY <1>5, <1>7 DEF L, total
  <2> QED BY <1>7, <2>1 DEF Figures
<1> HIDE DEF L, total, saved
<1>11. invoice' = Figures(invoice', Kept', invoice'.discount, invoice'.plan)
  BY <1>7, <1>8, <1>9, <1>10
<1>12. /\ Kept' \in Seq(Item) /\ invoice'.plan \in Seq(Part)
       /\ invoice'.percent \in Nat /\ invoice'.discount \in Nat
       /\ {invoice'.gst, invoice'.inclusive, invoice'.inter} \subseteq BOOLEAN
  BY <1>5, <1>7, <1>8, <1>9 DEF BillOf
<1>13. \A i \in DOMAIN Kept' : ~invoice'.gst => Kept'[i].gst = 0
  BY <1>7, <1>8, <1>9
<1>14. OffSettled(invoice'.percent, Kept', invoice'.discount) /\ PlanFits(invoice'.plan, invoice'.total)
  BY <1>6, <1>7, <1>8, <1>9
<1> QED BY <1>7, <1>8, <1>11, <1>12, <1>13, <1>14 DEF AsSaved

(* Taking the GST out of prices leaves nothing of nothing.                   *)
LEMMA BeforeIs ==
    ASSUME NEW item \in Item
    PROVE  /\ BeforeGst(item) \in Item /\ BeforeGst(item).quantity = item.quantity
           /\ BeforeGst(item).gst = item.gst
           /\ item.rate = 0 => BeforeGst(item).rate = 0
<1> DEFINE rate == Rounded(item.rate * 100, 100 + item.gst)
<1>1. item.quantity \in Nat /\ item.rate \in Nat /\ item.gst \in Nat
  BY DEF Item
<1>2. item.rate * 100 \in Nat /\ 100 + item.gst \in Nat /\ 100 + item.gst > 0
  BY <1>1
<1>3. rate \in Nat
  BY <1>2, RoundedIs
<1>4. item.rate = 0 => rate = 0
  <2>1. SUFFICES ASSUME item.rate = 0 PROVE rate = 0
    OBVIOUS
  <2>2. PICK d \in Nat : d = 100 + item.gst /\ d > 0
    BY <1>2
  <2>3. rate = Rounded(0, d)
    BY <2>1, <2>2
  <2>4. PICK q \in Nat : q = Rounded(0, d) /\ d * q + d * q <= d
    <3>1. Rounded(0, d) \in Nat /\ d * Rounded(0, d) + d * Rounded(0, d) <= 2 * 0 + d
      BY <2>2, RoundedIs
    <3> QED BY <3>1
  <2>5. ASSUME q # 0 PROVE FALSE
    <3>1. PICK e \in Nat : q = e + 1
      <4>1. q - 1 \in Nat /\ q = (q - 1) + 1
        BY <2>5
      <4> QED BY <4>1
    <3>2. d * q = d * e + d /\ d * e \in Nat
      BY <3>1
    <3> QED BY <2>2, <2>4, <3>2
  <2> QED BY <2>3, <2>4, <2>5
<1> HIDE DEF rate
<1>5. BeforeGst(item) = [item EXCEPT !.rate = rate]
  BY DEF BeforeGst, rate
<1> QED BY <1>1, <1>3, <1>4, <1>5 DEF Item

(* Sums of nothing and of something.                                         *)
LEMMA SumOfNothing ==
    ASSUME NEW n \in Nat, NEW s \in [1 .. n -> Nat]
    PROVE  Sum(s) = 0 <=> \A i \in 1 .. n : s[i] = 0
<1>1. Len(s) = n /\ \A i \in 1 .. n : s[i] \in Int
  OBVIOUS
<1>2. ASSUME \A i \in 1 .. n : s[i] = 0 PROVE Sum(s) = 0
  <2>1. Sum(s) = n * 0
    BY <1>1, <1>2, SumOfSame
  <2> QED BY <2>1
<1>3. ASSUME NEW k \in 1 .. n, s[k] # 0 PROVE Sum(s) # 0
  <2> DEFINE one == [j \in 1 .. n |-> IF j = k THEN s[k] ELSE 0]
  <2>1. /\ one \in [1 .. n -> Int] /\ one[k] = s[k]
        /\ \A j \in 1 .. n : j # k => one[j] = 0
        /\ \A j \in 1 .. n : one[j] <= s[j] /\ one[j] \in Int
    OBVIOUS
  <2>2. Len(one) = n
    BY <2>1, IsSeq
  <2> HIDE DEF one
  <2>3. PICK c \in Int : c = s[k]
    BY <1>1
  <2>4. Sum(one) = c
    BY <2>1, <2>2, <2>3, SumOfOne
  <2>5. Sum(one) <= Sum(s)
    BY <1>1, <2>1, <2>2, SumAtLeast
  <2>6. c > 0 /\ Sum(s) \in Nat
    BY <1>3, <2>3, SumIsNat
  <2> QED BY <2>4, <2>5, <2>6
<1> QED BY <1>2, <1>3

(* The lines before GST that saving comes to, and what it takes off them.    *)
TaxedItems(bill, items) ==
    [i \in DOMAIN items |-> IF bill.gst THEN items[i] ELSE [items[i] EXCEPT !.gst = 0]]

BeforeOf(bill, items, inclusive) ==
    IF inclusive THEN [i \in DOMAIN items |-> BeforeGst(TaxedItems(bill, items)[i])]
    ELSE TaxedItems(bill, items)

OffOf(bill, items, typed, inclusive) ==
    Least(DiscountBefore(typed, items, BeforeOf(bill, items, inclusive), bill.percent, inclusive),
          Sum(Amounts(BeforeOf(bill, items, inclusive))))

LEMMA WriteMakes ==
    ASSUME NEW bill, NEW items, NEW typed, NEW inclusive, NEW plan,
           Write(bill, items, typed, inclusive, plan)
    PROVE  LET before == BeforeOf(bill, items, inclusive)
               off == OffOf(bill, items, typed, inclusive)
           IN  /\ PlanFits(plan, TotalOf(before, off, bill.inter))
               /\ invoice' = Figures(bill, before, off, plan)
<1> DEFINE before == BeforeOf(bill, items, inclusive)
           off == OffOf(bill, items, typed, inclusive)
<1>1. \E b \in {before} : \E amounts \in {Amounts(b)} :
      \E o \in {Least(DiscountBefore(typed, items, b, bill.percent, inclusive), Sum(amounts))} :
      \E shares \in {Shares(amounts, o)} :
      \E lines \in {[i \in DOMAIN b |-> Line(b[i], amounts[i], shares[i], bill.inter)]} :
        LET tax == Column(lines, "cgst") + Column(lines, "sgst") + Column(lines, "igst")
            total == 100 * Rounded(Sum(amounts) - o + tax, 100)
        IN  /\ PlanFits(plan, total)
            /\ invoice' = [saved |-> TRUE, gst |-> bill.gst, inclusive |-> bill.inclusive,
                           inter |-> bill.inter, percent |-> bill.percent, lines |-> lines,
                           subtotal |-> Sum(amounts), discount |-> o, tax |-> tax, total |-> total,
                           plan |-> SavedPlan(plan, total)]
  BY DEF Write, BeforeOf, TaxedItems
<1> HIDE DEF before
<1>2. /\ Amounts(before) = Amounts(before)
      /\ off = Least(DiscountBefore(typed, items, before, bill.percent, inclusive), Sum(Amounts(before)))
  BY DEF off, OffOf, before
<1> HIDE DEF off
<1> DEFINE L == LinesOf(before, off, bill.inter)
           tax == Column(L, "cgst") + Column(L, "sgst") + Column(L, "igst")
           total == 100 * Rounded(Sum(Amounts(before)) - off + tax, 100)
<1>3. L = [i \in DOMAIN before |-> Line(before[i], Amounts(before)[i], Shares(Amounts(before), off)[i], bill.inter)]
  BY DEF LinesOf
<1> HIDE DEF L
<1>4. /\ PlanFits(plan, total)
      /\ invoice' = [saved |-> TRUE, gst |-> bill.gst, inclusive |-> bill.inclusive,
                     inter |-> bill.inter, percent |-> bill.percent, lines |-> L,
                     subtotal |-> Sum(Amounts(before)), discount |-> off, tax |-> tax, total |-> total,
                     plan |-> SavedPlan(plan, total)]
  <2> DEFINE Saved(b, amounts, o, lines) ==
        LET t == Column(lines, "cgst") + Column(lines, "sgst") + Column(lines, "igst")
            sum == 100 * Rounded(Sum(amounts) - o + t, 100)
        IN  /\ PlanFits(plan, sum)
            /\ invoice' = [saved |-> TRUE, gst |-> bill.gst, inclusive |-> bill.inclusive,
                           inter |-> bill.inter, percent |-> bill.percent, lines |-> lines,
                           subtotal |-> Sum(amounts), discount |-> o, tax |-> t, total |-> sum,
                           plan |-> SavedPlan(plan, sum)]
  <2>1. \E b \in {before} : \E amounts \in {Amounts(b)} :
        \E o \in {Least(DiscountBefore(typed, items, b, bill.percent, inclusive), Sum(amounts))} :
        \E shares \in {Shares(amounts, o)} :
        \E lines \in {[i \in DOMAIN b |-> Line(b[i], amounts[i], shares[i], bill.inter)]} :
          Saved(b, amounts, o, lines)
    BY <1>1
  <2> HIDE DEF Saved
  <2>2. Saved(before, Amounts(before), off, L)
    BY <1>2, <1>3, <2>1, Zenon
  <2> QED BY <2>2 DEF Saved, tax, total
<1>5. tax = TaxOf(L) /\ total = TotalOf(before, off, bill.inter)
  BY DEF TaxOf, TotalOf, L
<1> HIDE DEF tax, total
<1>6. PlanFits(plan, TotalOf(before, off, bill.inter)) /\ invoice' = Figures(bill, before, off, plan)
  BY <1>4, <1>5 DEF Figures, L
<1> QED BY <1>6 DEF before, off

(* Saving makes its figures out of the lines before GST.                     *)
LEMMA WriteStands ==
    ASSUME NEW bill, BillOf(bill), NEW items \in Seq(Item), NEW typed \in Nat,
           NEW inclusive \in BOOLEAN, NEW plan \in Seq(Part),
           Write(bill, items, typed, inclusive, plan)
    PROVE  invoice'.saved = TRUE /\ AsSaved'
<1> DEFINE n == Len(items)
           taxed == [i \in DOMAIN items |-> IF bill.gst THEN items[i] ELSE [items[i] EXCEPT !.gst = 0]]
           before == IF inclusive THEN [i \in DOMAIN items |-> BeforeGst(taxed[i])] ELSE taxed
           found == DiscountBefore(typed, items, before, bill.percent, inclusive)
           off == Least(found, Sum(Amounts(before)))
<1>1. /\ n \in Nat /\ DOMAIN items = 1 .. n /\ \A i \in 1 .. n : items[i] \in Item
      /\ Amounts(items) \in [1 .. n -> Nat] /\ Sum(Amounts(items)) \in Nat
  BY AmountsAre
<1>2. \A i \in 1 .. n : /\ taxed[i] \in Item /\ taxed[i].quantity = items[i].quantity
                        /\ taxed[i].rate = items[i].rate
                        /\ ~bill.gst => taxed[i].gst = 0
  <2>1. ASSUME NEW i \in 1 .. n
        PROVE  /\ taxed[i] \in Item /\ taxed[i].quantity = items[i].quantity
               /\ taxed[i].rate = items[i].rate
               /\ ~bill.gst => taxed[i].gst = 0
    <3>1. taxed[i] = IF bill.gst THEN items[i] ELSE [items[i] EXCEPT !.gst = 0]
      BY <1>1
    <3> HIDE DEF taxed
    <3>2. items[i] \in Item
      BY <1>1
    <3>3. /\ [items[i] EXCEPT !.gst = 0] \in Item
          /\ [items[i] EXCEPT !.gst = 0].quantity = items[i].quantity
          /\ [items[i] EXCEPT !.gst = 0].rate = items[i].rate
          /\ [items[i] EXCEPT !.gst = 0].gst = 0
      BY <3>2 DEF Item
    <3> QED BY <3>1, <3>2, <3>3
  <2> QED BY <2>1
<1>3. DOMAIN taxed = 1 .. n /\ taxed = [i \in 1 .. n |-> taxed[i]]
  BY <1>1
<1> HIDE DEF taxed
<1>4. /\ \A i \in 1 .. n : /\ before[i] \in Item /\ before[i].quantity = items[i].quantity
                           /\ items[i].rate = 0 => before[i].rate = 0
                           /\ ~bill.gst => before[i].gst = 0
      /\ before = [i \in 1 .. n |-> before[i]]
  <2>1. CASE inclusive
    <3>1. before = [i \in 1 .. n |-> BeforeGst(taxed[i])]
      BY <1>1, <2>1
    <3> HIDE DEF before
    <3>2. \A i \in 1 .. n : before[i] = BeforeGst(taxed[i])
      BY <3>1
    <3> QED BY <1>2, <3>1, <3>2, BeforeIs
  <2>2. CASE ~inclusive
    <3>1. before = taxed
      BY <2>2
    <3> HIDE DEF before
    <3> QED BY <1>2, <1>3, <3>1
  <2> QED BY <2>1, <2>2
<1> HIDE DEF before
<1>5. before \in [1 .. n -> Item]
  BY <1>4
<1>6. before \in Seq(Item) /\ Len(before) = n /\ DOMAIN before = 1 .. n
  BY <1>1, <1>5, IsSeq
<1>7. /\ Amounts(before) \in [1 .. n -> Nat] /\ Sum(Amounts(before)) \in Nat
      /\ \A i \in 1 .. n : Amounts(before)[i] = before[i].quantity * before[i].rate
      /\ \A i \in 1 .. n : Amounts(items)[i] = items[i].quantity * items[i].rate
  <2>1. Amounts(before) \in [1 .. n -> Nat] /\ Sum(Amounts(before)) \in Nat
    BY <1>6, AmountsAre
  <2> QED BY <1>1, <1>6, <2>1 DEF Amounts
<1>8. Sum(Amounts(before)) > 0 => Sum(Amounts(items)) > 0
  <2>1. ASSUME Sum(Amounts(items)) = 0 PROVE Sum(Amounts(before)) = 0
    <3>1. \A i \in 1 .. n : Amounts(items)[i] = 0
      BY <1>1, <2>1, SumOfNothing
    <3>2. ASSUME NEW i \in 1 .. n PROVE Amounts(before)[i] = 0
      <4>1. PICK q \in Nat, r \in Nat, b \in Nat :
               q = items[i].quantity /\ r = items[i].rate /\ b = before[i].rate
        BY <1>1, <1>4 DEF Item
      <4>2. q * r = 0 /\ Amounts(before)[i] = q * b /\ (r = 0 => b = 0)
        BY <1>4, <1>7, <3>1, <4>1
      <4>3. q = 0 \/ r = 0
        BY <4>2
      <4> QED BY <4>2, <4>3
    <3> QED BY <1>1, <1>7, <3>2, SumOfNothing
  <2> QED BY <1>1, <1>7, <2>1
<1>9. found \in Nat /\ (bill.percent = 0 /\ ~inclusive => found = typed)
      /\ (bill.percent > 0 =>
            found = Least(Sum(Amounts(before)), Rounded(Sum(Amounts(before)) * bill.percent, 100)))
  <2>1. PICK S \in Nat, T \in Nat, p \in Nat :
           S = Sum(Amounts(before)) /\ T = Sum(Amounts(items)) /\ p = bill.percent
    BY <1>1, <1>7 DEF BillOf
  <2>2. CASE p > 0
    <3>1. found = Least(S, Rounded(S * p, 100))
      BY <2>1, <2>2 DEF DiscountBefore
    <3>2. PICK a \in Nat : a = S * p
      OBVIOUS
    <3>3. Rounded(a, 100) \in Nat
      <4>1. PICK d \in Nat : d = 100 /\ d > 0
        OBVIOUS
      <4>2. Rounded(a, d) \in Nat
        BY <4>1, RoundedIs
      <4> QED BY <4>1, <4>2
    <3>4. found = Least(S, Rounded(a, 100))
      BY <3>1, <3>2
    <3>5. found \in Nat
      BY <3>3, <3>4 DEF Least
    <3> HIDE DEF found
    <3> QED BY <2>1, <2>2, <3>1, <3>5
  <2>3. CASE p = 0 /\ inclusive /\ typed > 0 /\ S > 0
    <3>1. found = Least(S, Rounded(typed * S, T))
      BY <2>1, <2>3 DEF DiscountBefore
    <3>2. PICK a \in Nat : a = typed * S
      OBVIOUS
    <3>3. T > 0
      BY <1>8, <2>1, <2>3
    <3>4. Rounded(a, T) \in Nat
      BY <3>3, RoundedIs
    <3>5. found = Least(S, Rounded(a, T))
      BY <3>1, <3>2
    <3>6. found \in Nat
      BY <3>4, <3>5 DEF Least
    <3> HIDE DEF found
    <3> QED BY <2>1, <2>3, <3>6
  <2>4. CASE p = 0 /\ ~(inclusive /\ typed > 0 /\ S > 0)
    <3>1. found = typed
      BY <2>1, <2>4 DEF DiscountBefore
    <3> QED BY <2>1, <2>4, <3>1
  <2> QED BY <2>2, <2>3, <2>4
<1> HIDE DEF found
<1>10. off \in Nat /\ off <= Sum(Amounts(before))
  BY <1>7, <1>9 DEF Least
<1>11. OffSettled(bill.percent, before, off)
  <2>1. PICK S \in Nat, p \in Nat : S = Sum(Amounts(before)) /\ p = bill.percent
    BY <1>7 DEF BillOf
  <2>2. CASE p > 0
    <3>1. \A t : DiscountBefore(t, before, before, p, FALSE) = Least(S, Rounded(S * p, 100))
      BY <2>1, <2>2 DEF DiscountBefore
    <3> QED BY <1>9, <2>1, <2>2, <3>1 DEF OffSettled
  <2>3. CASE p = 0
    <3>1. DiscountBefore(off, before, before, p, FALSE) = off
      BY <2>3 DEF DiscountBefore
    <3> QED BY <1>10, <2>1, <3>1 DEF OffSettled, Least
  <2> QED BY <2>2, <2>3
<1> HIDE DEF off
<1>12. /\ PlanFits(plan, TotalOf(before, off, bill.inter))
       /\ invoice' = Figures(bill, before, off, plan)
  <2>1. before = BeforeOf(bill, items, inclusive) /\ off = OffOf(bill, items, typed, inclusive)
    BY DEF off, found, before, taxed, TaxedItems, BeforeOf, OffOf
  <2> QED BY <2>1, WriteMakes
<1>13. \A i \in DOMAIN before : ~bill.gst => before[i].gst = 0
  BY <1>4, <1>6
<1> QED BY <1>6, <1>10, <1>11, <1>12, <1>13, FiguresStand

-----------------------------------------------------------------------------
(* An invoice, from its first save through every edit                        *)

LEMMA CreateStands ==
    ASSUME LinesAssumption, NEW items \in ItemList, NEW typed \in Discount,
           NEW percent \in Percent, NEW plan \in PlanList,
           CreateBillLines(items, typed, percent, plan)
    PROVE  invoice'.saved = TRUE /\ AsSaved'
<1>1. PICK gst \in BOOLEAN, inclusive \in BOOLEAN, inter \in BOOLEAN :
         Write([gst |-> gst, inclusive |-> inclusive, inter |-> inter, percent |-> percent],
               items, typed, inclusive, plan)
  BY DEF CreateBillLines
<1> DEFINE made == [gst |-> gst, inclusive |-> inclusive, inter |-> inter, percent |-> percent]
<1>2. BillOf(made)
  BY DEF LinesAssumption, BillOf
<1>3. items \in Seq(Item) /\ typed \in Nat /\ plan \in Seq(Part)
  BY DEF LinesAssumption, Item, Part
<1>4. PICK bill : bill = made
  OBVIOUS
<1>5. Write(bill, items, typed, inclusive, plan) /\ BillOf(bill)
  BY <1>1, <1>2, <1>4
<1> HIDE DEF made
<1> QED BY <1>3, <1>5, WriteStands

(* Saving with the lines kept, or with others.                               *)
LEMMA KeepingStands ==
    ASSUME NEW bill, BillOf(bill), NEW typed \in Nat, NEW plan \in Seq(Part),
           invoice.saved, AsSaved, EditKeepingLines(bill, typed, plan)
    PROVE  invoice'.saved = TRUE /\ AsSaved'
<1>1. PICK items \in Seq(Item) : items = Kept
  BY DEF AsSaved
<1>2. PICK never \in BOOLEAN : never = FALSE
  OBVIOUS
<1>3. Write(bill, items, typed, never, plan)
  BY <1>1, <1>2 DEF EditKeepingLines, KeptInclusive
<1> QED BY <1>3, WriteStands

(* What an edit takes a saved invoice to be, one thing of it changed.        *)
LEMMA BillsOfInvoice ==
    ASSUME invoice.saved, AsSaved
    PROVE  /\ BillOf(invoice)
           /\ \A p \in Nat : BillOf([invoice EXCEPT !.percent = p])
           /\ \A gst \in BOOLEAN : BillOf(WithGst(gst))
           /\ \A to \in BOOLEAN : /\ BillOf([invoice EXCEPT !.inclusive = to])
                                  /\ BillOf([invoice EXCEPT !.inter = to])
<1>1. BillOf(invoice)
  BY DEF AsSaved, BillOf
<1>2. PICK l, s, d, t, a, p :
        invoice = [saved |-> TRUE, gst |-> invoice.gst, inclusive |-> invoice.inclusive,
                   inter |-> invoice.inter, percent |-> invoice.percent, lines |-> l,
                   subtotal |-> s, discount |-> d, tax |-> t, total |-> a, plan |-> p]
  BY DEF AsSaved, Figures
<1>3. \A p2 \in Nat : BillOf([invoice EXCEPT !.percent = p2])
  BY <1>1, <1>2 DEF BillOf
<1>4. \A gst \in BOOLEAN : BillOf(WithGst(gst))
  BY <1>1, <1>2 DEF BillOf, WithGst
<1>5. \A to \in BOOLEAN : BillOf([invoice EXCEPT !.inclusive = to]) /\ BillOf([invoice EXCEPT !.inter = to])
  BY <1>1, <1>2 DEF BillOf
<1> QED BY <1>1, <1>3, <1>4, <1>5

LEMMA EditStands ==
    ASSUME LinesAssumption, invoice.saved, AsSaved, EditBillLines \/ SaveAgain
    PROVE  invoice'.saved = TRUE /\ AsSaved'
<1>1. PICK bill : bill = invoice
  OBVIOUS
<1>2. PICK typed \in Nat, plan \in Seq(Part), inclusive \in BOOLEAN :
         typed = invoice.discount /\ plan = invoice.plan /\ inclusive = invoice.inclusive
  BY DEF AsSaved
<1>3. BillOf(bill)
  BY <1>1, BillsOfInvoice
<1>4. ASSUME NEW items \in ItemList, EditLines(items) PROVE invoice'.saved = TRUE /\ AsSaved'
  <2>1. items \in Seq(Item)
    BY DEF LinesAssumption, Item
  <2>2. Write(bill, items, typed, inclusive, plan)
    BY <1>1, <1>2, <1>4 DEF EditLines
  <2> QED BY <1>3, <2>1, <2>2, WriteStands
<1>5. ASSUME NEW other \in Discount, EditKeepingLines(invoice, other, invoice.plan)
      PROVE  invoice'.saved = TRUE /\ AsSaved'
  <2>1. other \in Nat /\ EditKeepingLines(bill, other, plan)
    BY <1>1, <1>2, <1>5 DEF LinesAssumption
  <2> QED BY <1>3, <2>1, KeepingStands
<1>6. ASSUME NEW changed, BillOf(changed), EditKeepingLines(changed, invoice.discount, invoice.plan)
      PROVE  invoice'.saved = TRUE /\ AsSaved'
  <2>1. EditKeepingLines(changed, typed, plan)
    BY <1>2, <1>6
  <2> QED BY <1>6, <2>1, KeepingStands
<1>7. ASSUME NEW other \in PlanList, EditKeepingLines(invoice, invoice.discount, other)
      PROVE  invoice'.saved = TRUE /\ AsSaved'
  <2>1. other \in Seq(Part) /\ EditKeepingLines(bill, typed, other)
    BY <1>1, <1>2, <1>7 DEF LinesAssumption, Part
  <2> QED BY <1>3, <2>1, KeepingStands
<1>8. ASSUME NEW percent \in Percent,
             EditKeepingLines([invoice EXCEPT !.percent = percent], invoice.discount, invoice.plan)
      PROVE  invoice'.saved = TRUE /\ AsSaved'
  <2>1. PICK changed : changed = [invoice EXCEPT !.percent = percent]
    OBVIOUS
  <2>2. percent \in Nat
    BY DEF LinesAssumption
  <2> QED BY <1>6, <1>8, <2>1, <2>2, BillsOfInvoice
<1>9. ASSUME NEW gst \in BOOLEAN,
             EditKeepingLines(WithGst(gst), invoice.discount, invoice.plan)
      PROVE  invoice'.saved = TRUE /\ AsSaved'
  <2>1. PICK changed : changed = WithGst(gst)
    OBVIOUS
  <2> QED BY <1>6, <1>9, <2>1, BillsOfInvoice
<1>10. ASSUME NEW to \in BOOLEAN,
              EditKeepingLines([invoice EXCEPT !.inclusive = to], invoice.discount, invoice.plan)
              \/ EditKeepingLines([invoice EXCEPT !.inter = to], invoice.discount, invoice.plan)
      PROVE  invoice'.saved = TRUE /\ AsSaved'
  <2>1. PICK one : one = [invoice EXCEPT !.inclusive = to]
    OBVIOUS
  <2>2. PICK other : other = [invoice EXCEPT !.inter = to]
    OBVIOUS
  <2>3. BillOf(one) /\ BillOf(other)
    BY <2>1, <2>2, BillsOfInvoice
  <2>4. EditKeepingLines(one, invoice.discount, invoice.plan)
        \/ EditKeepingLines(other, invoice.discount, invoice.plan)
    BY <1>10, <2>1, <2>2
  <2> QED BY <1>6, <2>3, <2>4
<1>11. CASE SaveAgain
  <2>1. EditKeepingLines(bill, invoice.discount, invoice.plan)
    BY <1>1, <1>11 DEF SaveAgain
  <2> QED BY <1>3, <1>6, <2>1
<1>12. CASE EditBillLines
  BY <1>4, <1>5, <1>7, <1>8, <1>9, <1>10, <1>12 DEF EditBillLines
<1> QED BY <1>11, <1>12

LEMMA LinesInvHolds == LinesSpec => []LinesInv
<1> USE LinesAssumption
<1>1. LinesInit => LinesInv
  BY DEF LinesInit, LinesInv, AsSaved, None, LinesAssumption
<1>2. LinesInv /\ [LinesNext]_linesVars => LinesInv'
  <2> SUFFICES ASSUME LinesInv, [LinesNext]_linesVars PROVE LinesInv'
    OBVIOUS
  <2>1. ASSUME NEW items \in ItemList, NEW typed \in Discount, NEW percent \in Percent,
               NEW plan \in PlanList, CreateBillLines(items, typed, percent, plan), UNCHANGED edits
        PROVE  LinesInv'
    BY <2>1, CreateStands DEF LinesInv
  <2>2. CASE /\ invoice.saved /\ edits < MaxEdits /\ edits' = edits + 1
             /\ EditBillLines \/ SaveAgain
    <3>1. edits' \in 0 .. MaxEdits
      BY <2>2 DEF LinesInv, LinesAssumption
    <3>2. invoice'.saved = TRUE /\ AsSaved'
      BY <2>2, EditStands DEF LinesInv
    <3> QED BY <3>1, <3>2 DEF LinesInv
  <2>3. CASE UNCHANGED linesVars
    <3>1. invoice' = invoice /\ edits' = edits
      BY <2>3 DEF linesVars
    <3>2. AsSaved' <=> AsSaved
      BY <3>1 DEF AsSaved, Kept
    <3> QED BY <3>1, <3>2 DEF LinesInv
  <2> QED BY <2>1, <2>2, <2>3 DEF LinesNext
<1> QED BY <1>1, <1>2, PTL DEF LinesSpec

(* Saved again with nothing changed, an invoice is what it was.              *)
LEMMA SavedAgain ==
    ASSUME invoice.saved, AsSaved, SaveAgain
    PROVE  invoice' = invoice
<1>1. PICK items \in Seq(Item), off \in Nat, plan \in Seq(Part) :
         items = Kept /\ off = invoice.discount /\ plan = invoice.plan
  BY DEF AsSaved
<1>0. PICK bill : bill = invoice
  OBVIOUS
<1>2. PICK never \in BOOLEAN : never = FALSE
  OBVIOUS
<1>9. Write(bill, items, off, never, plan)
  BY <1>0, <1>1, <1>2 DEF SaveAgain, EditKeepingLines, KeptInclusive
<1>3. /\ bill = Figures(bill, items, off, plan) /\ bill.gst \in BOOLEAN
      /\ \A i \in DOMAIN items : ~bill.gst => items[i].gst = 0
      /\ OffSettled(bill.percent, items, off)
  BY <1>0, <1>1 DEF AsSaved
<1>4. TaxedItems(bill, items) = items
  <2>1. /\ \A i \in DOMAIN items : items[i] \in Item
        /\ items = [i \in DOMAIN items |-> items[i]]
    OBVIOUS
  <2>2. ASSUME NEW i \in DOMAIN items, ~bill.gst PROVE [items[i] EXCEPT !.gst = 0] = items[i]
    BY <1>3, <2>1, <2>2 DEF Item
  <2> QED BY <1>3, <2>1, <2>2 DEF TaxedItems
<1>5. off = Least(DiscountBefore(off, items, items, bill.percent, never), Sum(Amounts(items)))
  BY <1>2, <1>3 DEF OffSettled
<1>6. BeforeOf(bill, items, never) = items /\ OffOf(bill, items, off, never) = off
  BY <1>2, <1>4, <1>5 DEF BeforeOf, OffOf
<1>7. invoice' = Figures(bill, items, off, plan)
  BY <1>6, <1>9, WriteMakes
<1> QED BY <1>0, <1>3, <1>7

(* What a discount comes to is never more than what it is taken off.         *)
LEMMA SettledFits ==
    ASSUME NEW percent \in Nat, NEW items \in Seq(Item), NEW off \in Nat,
           OffSettled(percent, items, off)
    PROVE  off <= Sum(Amounts(items))
<1>1. PICK S \in Nat : S = Sum(Amounts(items))
  BY AmountsAre
<1>2. PICK found : found = DiscountBefore(off, items, items, percent, FALSE)
  OBVIOUS
<1>3. Least(found, S) = off
  BY <1>1, <1>2 DEF OffSettled
<1>4. CASE percent = 0
  <2>1. found = off
    BY <1>2, <1>4 DEF DiscountBefore
  <2> QED BY <1>1, <1>3, <2>1 DEF Least
<1>5. CASE percent > 0
  <2>1. PICK a \in Nat, d \in Nat : a = S * percent /\ d = 100 /\ d > 0
    OBVIOUS
  <2>2. found = Least(S, Rounded(a, d)) /\ Rounded(a, d) \in Nat
    BY <1>1, <1>2, <1>5, <2>1, RoundedIs DEF DiscountBefore
  <2> QED BY <1>1, <1>3, <2>2 DEF Least
<1> QED BY <1>4, <1>5

(* A saved invoice adds up.                                                  *)
LEMMA SavedAddsUp ==
    ASSUME AsSaved
    PROVE  InvoiceAddsUp
<1> SUFFICES ASSUME invoice.saved PROVE InvoiceAddsUp
  BY DEF InvoiceAddsUp, BillAddsUp, PlanAddsUp
<1>1. PICK items \in Seq(Item), off \in Nat, plan \in Seq(Part), inter \in BOOLEAN :
         /\ items = Kept /\ off = invoice.discount /\ plan = invoice.plan /\ inter = invoice.inter
  BY DEF AsSaved
<1>2. off <= Sum(Amounts(items))
  BY <1>1, SettledFits DEF AsSaved
<1>3. PICK L : L = LinesOf(items, off, inter)
  OBVIOUS
<1>4. PICK total : total = TotalOf(items, off, inter)
  OBVIOUS
<1>5. /\ invoice.lines = L /\ invoice.subtotal = Sum(Amounts(items)) /\ invoice.tax = TaxOf(L)
      /\ invoice.total = total /\ plan = SavedPlan(plan, total) /\ PlanFits(plan, total)
  BY <1>1, <1>3, <1>4 DEF AsSaved, Figures
<1>6. PICK over : over = Column(L, "taxable") - (Sum(Amounts(items)) - off)
  OBVIOUS
<1>7. /\ Column(L, "discount") = off /\ 2 * over \in 0 .. Len(L) /\ TaxOf(L) \in Int
      /\ (\A i \in DOMAIN L : L[i].discount <= L[i].amount) => over = 0
  BY <1>2, <1>3, <1>6, LinesAddUp
<1>8. total \in Int /\ total - ((Sum(Amounts(items)) - off) + TaxOf(L)) \in -50 .. 50
  <2>1. PICK a \in Int : a = Sum(Amounts(items)) - off + TaxOf(L)
    BY <1>7, AmountsAre
  <2>2. total = 100 * Rounded(a, 100)
    BY <1>3, <1>4, <2>1 DEF TotalOf
  <2> QED BY <2>1, <2>2, RoundedRupees
<1>9. BillAddsUp
  BY <1>1, <1>5, <1>6, <1>7, <1>8 DEF BillAddsUp
<1>10. PlanAddsUp
  <2> SUFFICES ASSUME plan # <<>>
               PROVE  LET gap == Column(plan, "amount") - total IN
                      /\ gap \in -50 .. 50
                      /\ (\A i \in DOMAIN plan : plan[i].percent > 0)
                         /\ Column(plan, "percent") = 10000 => gap = 0
    BY <1>1, <1>5 DEF PlanAddsUp
  <2>1. PICK parts : parts = PartAmounts(plan, total)
    OBVIOUS
  <2>2. Sum(parts) - total \in -50 .. 50
    BY <1>5, <2>1 DEF PlanFits
  <2>3. Column(plan, "amount") = Sum(parts)
    <3>1. Column(SavedPlan(plan, total), "amount") = Sum(parts)
      BY <1>8, <2>1, PartsAddUp
    <3>2. plan = SavedPlan(plan, total)
      BY <1>5
    <3> QED BY <3>1, <3>2
  <2>4. /\ Sum(parts) \in Int
        /\ (\A i \in DOMAIN plan : plan[i].percent > 0) /\ Column(plan, "percent") = 10000
              => Sum(parts) = total
    <3>1. PartAmounts(plan, total) \in [1 .. Len(plan) -> Int] /\ Len(plan) \in Nat
      BY <1>8, PartsAddUp
    <3>2. Len(parts) = Len(plan) /\ \A i \in 1 .. Len(plan) : parts[i] \in Int
      BY <2>1, <3>1, IsSeq
    <3>3. Sum(parts) \in Int
      BY <3>1, <3>2, SumIsInt
    <3> QED BY <1>8, <2>1, <3>3, PartsAddUp
  <2> QED BY <1>8, <2>2, <2>3, <2>4
<1> QED BY <1>9, <1>10 DEF InvoiceAddsUp

LEMMA LinesShape == LinesSpec => []LinesTypeOK
<1>1. LinesInv => LinesTypeOK
  <2> SUFFICES ASSUME LinesInv, invoice.saved
               PROVE  /\ \A i \in DOMAIN invoice.lines : invoice.lines[i] \in [Columns -> Int]
                      /\ \A i \in DOMAIN invoice.plan : invoice.plan[i] \in [percent : Nat, amount : Nat]
                      /\ {invoice.gst, invoice.inclusive, invoice.inter} \subseteq BOOLEAN
    BY DEF LinesInv, LinesTypeOK
  <2>1. PICK items \in Seq(Item), off \in Nat, inter \in BOOLEAN :
           items = Kept /\ off = invoice.discount /\ inter = invoice.inter
    BY DEF LinesInv, AsSaved
  <2>2. invoice.lines = LinesOf(items, off, inter)
    BY <2>1 DEF LinesInv, AsSaved, Figures
  <2>3. off <= Sum(Amounts(items))
    BY <2>1, SettledFits DEF LinesInv, AsSaved
  <2>4. invoice.lines \in [1 .. Len(items) -> LineRow]
    BY <2>2, <2>3, LinesAre
  <2>5. \A row \in LineRow : row \in [Columns -> Int]
    BY DEF LineRow, Columns
  <2>6. \A i \in DOMAIN invoice.lines : invoice.lines[i] \in [Columns -> Int]
    BY <2>4, <2>5
  <2>7. PICK plan \in Seq(Part) : plan = invoice.plan
    BY DEF LinesInv, AsSaved
  <2>8. \A i \in DOMAIN plan : plan[i] \in Part
    OBVIOUS
  <2>9. {invoice.gst, invoice.inclusive, invoice.inter} \subseteq BOOLEAN
    BY DEF LinesInv, AsSaved
  <2> QED BY <2>6, <2>7, <2>8, <2>9 DEF Part
<1> QED BY <1>1, LinesInvHolds, PTL

(* Every saved invoice adds up: its lines to its discount and to what GST is *)
(* charged on, its total to whole rupees, its plan to its total, whatever    *)
(* was typed and however often it was edited.                                *)
THEOREM InvoicesAddUp == LinesSpec => []InvoiceAddsUp
<1>1. LinesInv => InvoiceAddsUp
  BY SavedAddsUp DEF LinesInv
<1> QED BY <1>1, LinesInvHolds, PTL

(* An invoice saved again with nothing changed keeps every number it has:    *)
(* its prices are not taken for prices with GST a second time, its discount  *)
(* is not taken off twice, its plan is not rounded again.                    *)
THEOREM SavedIsSettled == LinesSpec => SavingChangesNothing
<1>1. LinesInv /\ [LinesNext]_linesVars => [SaveAgain => UNCHANGED invoice]_linesVars
  <2> SUFFICES ASSUME LinesInv, SaveAgain PROVE UNCHANGED invoice
    OBVIOUS
  <2>1. invoice.saved
    BY DEF SaveAgain, EditKeepingLines
  <2> QED BY <2>1, SavedAgain DEF LinesInv
<1> QED BY <1>1, LinesInvHolds, PTL DEF LinesSpec, SavingChangesNothing
=============================================================================
