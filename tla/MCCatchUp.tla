----------------------------- MODULE MCCatchUp ------------------------------
(* CatchUp on small instances: which form each lead is filled in on.         *)
EXTENDS CatchUp, TLC

CONSTANTS f1, f2, l1, l2

OneForm == [l \in Lead |-> f1]
TwoForms == [l \in Lead |-> IF l = l1 THEN f1 ELSE f2]

(* Leads of one form are interchangeable. *)
SameForm == Permutations(Lead)

(* Where symmetry may not be used (for liveness), it is enough to look at l1 *)
(* filled in no later than l2: a behaviour with the names of two leads of    *)
(* one form exchanged is a behaviour too, and filling in is nobody's duty.   *)
InOrder == filled[l2] > 0 => filled[l1] \in 1..filled[l2]
=============================================================================
