------------------------------ MODULE MCOffice ------------------------------
(* The smaller parts of the office share one run.  They keep apart tables,   *)
(* so each behaviour looks at one of them (focus) while the others rest.     *)
EXTENDS TaskLife, Repeats, Alerts, BillLines, Payouts, Joining, Billing, Enquiries

VARIABLE focus

officeVars == <<taskVars, repeatVars, alertVars, linesVars, payoutVars, joinVars, billingVars,
                enquiryVars, focus>>

MCFalls == [r \in Rule |-> {1, 3}]

(* Lines whose shares round up or down together, one that costs nothing, one *)
(* that rounding may leave a share larger than itself; plans in thirds, in   *)
(* halves, and part percent, part amount.                                    *)
Typed(quantity, rate, gst) == [quantity |-> quantity, rate |-> rate, gst |-> gst]
MCItemList ==
    {<<Typed(1, 20000, 18)>>,
     <<Typed(1, 3333, 18), Typed(1, 3333, 5), Typed(1, 3333, 0)>>,
     <<Typed(1, 999, 18), Typed(1, 999, 5), Typed(2, 0, 18)>>,
     <<Typed(1, 1000, 5), Typed(1, 1000, 5), Typed(1, 1000, 5), Typed(1, 3, 18)>>}

InPercent(p) == [percent |-> p, amount |-> 0]
MCPlanList ==
    {<<>>, <<InPercent(3333), InPercent(3333), InPercent(3334)>>,
     <<InPercent(5000), InPercent(5000)>>,
     <<InPercent(3000), [percent |-> 0, amount |-> 7000]>>}

OfficeInit ==
    /\ TaskInit /\ RepeatInit /\ AlertInit /\ LinesInit /\ PayoutInit /\ JoinInit
    /\ BillingInit /\ EnquiryInit
    /\ focus \in {"task", "repeats", "alerts", "lines", "payouts", "joining", "billing",
                  "enquiries"}

OfficeNext ==
    /\ UNCHANGED focus
    /\ \/ focus = "task" /\ TaskNext
          /\ UNCHANGED <<repeatVars, alertVars, linesVars, payoutVars, joinVars, billingVars,
                         enquiryVars>>
       \/ focus = "repeats" /\ RepeatNext
          /\ UNCHANGED <<taskVars, alertVars, linesVars, payoutVars, joinVars, billingVars,
                         enquiryVars>>
       \/ focus = "alerts" /\ AlertNext
          /\ UNCHANGED <<taskVars, repeatVars, linesVars, payoutVars, joinVars, billingVars,
                         enquiryVars>>
       \/ focus = "lines" /\ LinesNext
          /\ UNCHANGED <<taskVars, repeatVars, alertVars, payoutVars, joinVars, billingVars,
                         enquiryVars>>
       \/ focus = "payouts" /\ PayoutNext
          /\ UNCHANGED <<taskVars, repeatVars, alertVars, linesVars, joinVars, billingVars,
                         enquiryVars>>
       \/ focus = "joining" /\ JoinNext
          /\ UNCHANGED <<taskVars, repeatVars, alertVars, linesVars, payoutVars, billingVars,
                         enquiryVars>>
       \/ focus = "billing" /\ BillingNext
          /\ UNCHANGED <<taskVars, repeatVars, alertVars, linesVars, payoutVars, joinVars,
                         enquiryVars>>
       \/ focus = "enquiries" /\ EnquiryNext
          /\ UNCHANGED <<taskVars, repeatVars, alertVars, linesVars, payoutVars, joinVars,
                         billingVars>>

OfficeSpec == OfficeInit /\ [][OfficeNext]_officeVars /\ AlertFairness

(* Every part keeps to the shape of its tables.                              *)
OfficeTypeOK ==
    /\ TaskTypeOK /\ RepeatTypeOK /\ AlertTypeOK /\ LinesTypeOK /\ PayoutTypeOK
    /\ JoinTypeOK /\ BillingTypeOK /\ EnquiryTypeOK
=============================================================================
