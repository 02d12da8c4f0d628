---------------------------- MODULE MCLeadIntake ----------------------------
(* LeadIntake on small instances.  One run may play several casts: which     *)
(* jobs each of two tasks may be, whose Page and whose leads there are, how  *)
(* much may go wrong, and whether Meta may ask to slow down.                 *)
EXTENDS LeadIntake, TLC

CONSTANTS biz1, biz2, l1, l2, t1, t2,
    Casts          \* bound: the casts of this run

VARIABLE cast

(* One business's Page switched on and off, against the timer's work. *)
Owners == [plays |-> (t1 :> {"drain", "catchUp", "lapse"})
                     @@ (t2 :> {"turnOn", "turnOff", "disconnect", "test"}),
           businesses |-> {biz1}, leads |-> {l1}, upsets |-> 1, pauses |-> FALSE]

(* Two businesses with the same Page: both may switch it on at once. *)
Sharers == [plays |-> (t1 :> {"turnOn", "turnOff"}) @@ (t2 :> {"turnOn", "disconnect"}),
            businesses |-> {biz1, biz2}, leads |-> {}, upsets |-> 2, pauses |-> TRUE]

(* A Page that stays on, read by the timer and by "Check again". *)
Retries == [plays |-> (t1 :> {"drain"}) @@ (t2 :> {"turnOn", "checkHealth"}),
            businesses |-> {biz1}, leads |-> {l1}, upsets |-> 1, pauses |-> FALSE]

(* More leads than a batch takes, on a Page that may be paused. *)
Batches == [plays |-> (t1 :> {"drain"}) @@ (t2 :> {"turnOn"}),
            businesses |-> {biz1}, leads |-> {l1, l2}, upsets |-> 0, pauses |-> TRUE]

OwnerCasts == {Owners, Sharers}
RetryCasts == {Retries, Batches}

Together(casts) == [t \in {t1, t2} |-> UNION {c.plays[t] : c \in casts}]
OwnerPlays == Together(OwnerCasts)
RetryPlays == Together(RetryCasts)

KeepsToTheCast ==
    /\ UNCHANGED cast
    /\ \A t \in Task :
          /\ task'[t].job \in {"none", "checkCatchUp", "checkDrain"} \cup cast.plays[t]
          /\ task'[t].biz \in {None} \cup cast.businesses
          /\ task'[t].pc = "pause" => cast.pauses
    /\ \A c \in Business \ cast.businesses : pages'[c] = pages[c] /\ conn'[c] = conn[c]
    /\ expired' \subseteq cast.businesses
    /\ \A l \in Lead \ cast.leads : stamp'[l] = stamp[l]
    /\ upsets' <= cast.upsets

MCInit == Init /\ cast \in Casts

MCSpec == MCInit /\ [][Next /\ KeepsToTheCast]_<<vars, cast>>

(* Meta may always answer otherwise than that it is too much, so what is     *)
(* fair in LeadIntake can be kept to the cast.                               *)
MCFairSpec == MCSpec /\ Fairness
=============================================================================
