------------------------------ MODULE LeadFate ------------------------------
(* What a business is promised about the leads filled in on its Facebook     *)
(* Page, without queues, claims, tokens or retries: a lead that has arrived  *)
(* waits, is brought in as exactly one enquiry, or shows as not brought in;  *)
(* what was brought in stays brought in, and what was not can be tried       *)
(* again.  LeadIntake implements this (see LeadIntake!Fate).                 *)
EXTENDS Naturals

CONSTANT Row

VARIABLES
    fate,       \* what has become of each lead
    enquiries   \* how many enquiries each lead has made

vars == <<fate, enquiries>>

Fates == {"unseen", "waiting", "broughtIn", "skipped", "notBroughtIn"}

Init == /\ fate = [r \in Row |-> "unseen"]
        /\ enquiries = [r \in Row |-> 0]

(* One lead becomes one enquiry (a new one, or more detail on an open one). *)
BringIn(r) == /\ fate[r] = "waiting"
              /\ fate' = [fate EXCEPT ![r] = "broughtIn"]
              /\ enquiries' = [enquiries EXCEPT ![r] = @ + 1]

(* The moves that make no enquiry; many leads may make one together (a Page  *)
(* turned off, "Try again").                                                 *)
Move == [unseen |-> {"unseen", "waiting"},
         waiting |-> {"waiting", "skipped", "notBroughtIn"},
         broughtIn |-> {"broughtIn"},
         skipped |-> {"skipped"},
         notBroughtIn |-> {"notBroughtIn", "waiting"}]

Settle == /\ fate' \in [Row -> Fates]
          /\ \A r \in Row : fate'[r] \in Move[fate[r]]
          /\ UNCHANGED enquiries

Next == Settle \/ \E r \in Row : BringIn(r)

Spec == Init /\ [][Next]_vars
=============================================================================
