---------------------------- MODULE MCBillLedger ----------------------------
(* BillLedger on small instances. *)
EXTENDS BillLedger, TLC

CONSTANTS e1

(* What the code does not keep apart, and should: see the README. *)
KeptApart == {{"record", "cancelBill"}, {"createBill", "updatePayment"}}
=============================================================================
