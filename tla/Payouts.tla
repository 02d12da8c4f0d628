------------------------------ MODULE Payouts -------------------------------
(* What is owed to vendors, and the expenses: paying a vendor records an     *)
(* approved expense, which then changes only from Vendors.                   *)
EXTENDS Naturals

CONSTANTS
    Payout, Expense,
    Amount,         \* what one may cost
    OnlyVendors     \* bound: nobody reviews an expense that paying a vendor made

ASSUME PayoutAssumption == Amount \subseteq Nat /\ OnlyVendors \in BOOLEAN

VARIABLES
    payouts,
    expenses        \* vendor: made by paying one

payoutVars == <<payouts, expenses>>

NoPayout == [status |-> "none", amount |-> 0, expense |-> {}]
NoExpense == [state |-> "none", status |-> "none", amount |-> 0, vendor |-> FALSE]

PayoutInit ==
    /\ payouts = [p \in Payout |-> NoPayout]
    /\ expenses = [e \in Expense |-> NoExpense]

Owing(p) == payouts[p].status \in {"owed", "paid"}
Spent(e) == expenses[e].state = "live"

(* Mutant: any expense may be changed from Expenses. *)
AnyExpense(e) == TRUE

(* requireNotPayout, which looks at every payout that was not deleted.       *)
NotPayout(e) == \A p \in Payout : Owing(p) => e \notin payouts[p].expense

Deleted(es) ==
    [e \in Expense |-> IF e \in es THEN [expenses[e] EXCEPT !.state = "deleted"] ELSE expenses[e]]

-----------------------------------------------------------------------------
(* Vendors                                                                   *)

CreatePayout(p) ==
    /\ payouts[p].status = "none"
    /\ \E a \in Amount : payouts' = [payouts EXCEPT ![p] = [NoPayout EXCEPT !.status = "owed", !.amount = a]]
    /\ UNCHANGED expenses

(* Mutant: the expense is left as it was. *)
NotSynced(p, a) == expenses

(* syncExpense *)
Synced(p, a) ==
    [e \in Expense |-> IF e \in payouts[p].expense THEN [expenses[e] EXCEPT !.amount = a] ELSE expenses[e]]

UpdatePayout(p) ==
    /\ Owing(p)
    /\ \E a \in Amount :
          /\ payouts' = [payouts EXCEPT ![p].amount = a]
          /\ expenses' = Synced(p, a)

PayPayout(p) ==
    /\ payouts[p].status = "owed"
    /\ \E e \in Expense :
          /\ expenses[e].state = "none"
          /\ expenses' = [expenses EXCEPT ![e] =
                [state |-> "live", status |-> "approved", amount |-> payouts[p].amount, vendor |-> TRUE]]
          /\ payouts' = [payouts EXCEPT ![p].status = "paid", ![p].expense = {e}]

UnpayPayout(p) ==
    /\ payouts[p].status = "paid"
    /\ expenses' = Deleted(payouts[p].expense)
    /\ payouts' = [payouts EXCEPT ![p].status = "owed", ![p].expense = {}]

DeletePayout(p) ==
    /\ Owing(p)
    /\ expenses' = Deleted(payouts[p].expense)
    /\ payouts' = [payouts EXCEPT ![p].status = "deleted"]

-----------------------------------------------------------------------------
(* Expenses                                                                  *)

(* A manager's counts straight away.                                         *)
CreateExpense(e) ==
    /\ expenses[e].state = "none"
    /\ \E a \in Amount, status \in {"approved", "pending"} :
          expenses' = [expenses EXCEPT ![e] = [state |-> "live", status |-> status, amount |-> a,
                                               vendor |-> FALSE]]
    /\ UNCHANGED payouts

(* An approver's change leaves the status; others change their own until it  *)
(* is approved, and a rejected one waits for approval again.                 *)
UpdateExpense(e) ==
    /\ Spent(e) /\ NotPayout(e)
    /\ \E a \in Amount, approver \in BOOLEAN :
          /\ ~approver => expenses[e].status # "approved"
          /\ expenses' = [expenses EXCEPT ![e].amount = a,
                                          ![e].status = IF approver THEN @ ELSE "pending"]
    /\ UNCHANGED payouts

(* reviewExpense looks at no payout.                                         *)
ReviewExpense(e) ==
    /\ Spent(e)
    /\ OnlyVendors => ~expenses[e].vendor
    /\ \E status \in {"approved", "rejected"} : expenses' = [expenses EXCEPT ![e].status = status]
    /\ UNCHANGED payouts

DeleteExpense(e) ==
    /\ Spent(e) /\ NotPayout(e)
    /\ expenses' = Deleted({e})
    /\ UNCHANGED payouts

PayoutNext ==
    \/ \E p \in Payout :
          CreatePayout(p) \/ UpdatePayout(p) \/ PayPayout(p) \/ UnpayPayout(p) \/ DeletePayout(p)
    \/ \E e \in Expense :
          CreateExpense(e) \/ UpdateExpense(e) \/ ReviewExpense(e) \/ DeleteExpense(e)

PayoutSpec == PayoutInit /\ [][PayoutNext]_payoutVars

-----------------------------------------------------------------------------
(* Properties                                                                *)

PayoutTypeOK ==
    /\ payouts \in [Payout -> [status : {"none", "owed", "paid", "deleted"}, amount : Nat,
                               expense : SUBSET Expense]]
    /\ expenses \in [Expense -> [state : {"none", "live", "deleted"}, amount : Nat, vendor : BOOLEAN,
                                 status : {"none", "pending", "approved", "rejected"}]]

(* "So the two never disagree": however payouts are paid, changed, unpaid    *)
(* and deleted and expenses changed, what was paid to a vendor stands among  *)
(* the approved expenses once, with its amount, and nothing else does.       *)
PaidIsSpent ==
    /\ \A p \in Payout : payouts[p].status = "paid" =>
          \E e \in Expense : /\ payouts[p].expense = {e}
                             /\ Spent(e) /\ expenses[e].status = "approved"
                             /\ expenses[e].amount = payouts[p].amount
    /\ \A e \in Expense : Spent(e) /\ expenses[e].vendor =>
          \E p \in Payout : /\ payouts[p].status = "paid" /\ e \in payouts[p].expense
                            /\ \A q \in Payout \ {p} : e \notin payouts[q].expense
=============================================================================
