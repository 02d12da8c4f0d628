------------------------------ MODULE Enquiries -----------------------------
(* Enquiries that arrive by themselves, from the public form and from Meta's *)
(* lead forms, several at once: the same number joins its open lead, a new   *)
(* lead from an ad goes to whoever has the fewest, and the team changes      *)
(* leads by hand meanwhile.  Nothing locks a lead; two advisory locks, one   *)
(* per number and one per business for routing, are held to the commit.      *)
EXTENDS Naturals, Sequences, FiniteSets

CONSTANTS
    Sender,         \* transactions that bring an enquiry in
    Number,         \* phone numbers with ten digits
    NoNumber,       \* an enquiry without one
    MaxLeads,       \* bound: how many leads there may be
    Seller,         \* people with the Leads screen
    FirstOwner,     \* the longest-standing owner
    FormWindow,     \* for how many days a number joins its lead: the public form
    MetaWindow,     \* and Meta's forms
    LastMorning,    \* bound: the last day there is
    MaxByHand       \* bound: changes by hand

ASSUME EnquiryAssumption ==
    /\ NoNumber \notin Number
    /\ FormWindow \in Nat /\ MetaWindow \in Nat
    /\ MaxLeads \in Nat /\ LastMorning \in Nat /\ MaxByHand \in Nat

VARIABLES
    leads,          \* in the order they came: open, closed (won or lost) or gone
    sending,        \* where each sender is, and what it holds or has read
    routing,        \* who the settings name and can take leads
    onLeave,        \* who is away today
    morning,        \* what day it is
    byHand          \* how much was changed by hand

enquiryVars == <<leads, sending, routing, onLeave, morning, byHand>>

Resting == [at |-> "rest", from |-> "form", number |-> NoNumber, who |-> {}, stirred |-> FALSE]

EnquiryInit ==
    /\ leads = <<>>
    /\ sending = [s \in Sender |-> Resting]
    /\ routing = Seller
    /\ onLeave = {}
    /\ morning = 0 /\ byHand = 0

-----------------------------------------------------------------------------
(* intakeLead                                                                *)

(* A test lead from Meta goes to the owner. *)
Origin == {"form", "meta", "test"}
repeatWindow(from) == IF from = "form" THEN FormWindow ELSE MetaWindow

(* Mutant: the number is not locked. *)
NotHeld(n) == TRUE

NumberFree(n) == n # NoNumber => \A s \in Sender : sending[s].number # n

(* The leads that an enquiry would join.  A transaction is short against the *)
(* days of a window: its time is the morning it is written.                  *)
Joins(from, n, l) ==
    /\ n # NoNumber /\ leads[l].number = n
    /\ leads[l].status = "open"
    /\ leads[l].born + repeatWindow(from) > morning

(* A repeat only adds a note to its lead; a new lead is given to somebody.   *)
LooksForLead(s, from, n) ==
    /\ sending[s] = Resting /\ NumberFree(n)
    /\ ~\E l \in DOMAIN leads : Joins(from, n, l)
    /\ sending' = [sending EXCEPT ![s] =
          IF from = "meta" THEN [Resting EXCEPT !.at = "new", !.from = from, !.number = n]
          ELSE [Resting EXCEPT !.at = "writes", !.from = from, !.number = n, !.who = {FirstOwner}]]
    /\ UNCHANGED <<leads, routing, onLeave, morning, byHand>>

-----------------------------------------------------------------------------
(* pickAssignee                                                              *)

OpenLeads(p) == Cardinality({l \in DOMAIN leads : leads[l].status = "open" /\ leads[l].who = {p}})

(* People on leave are skipped, unless that would leave nobody.              *)
Available == IF routing \subseteq onLeave THEN routing ELSE routing \ onLeave

(* On a tie it is whoever waited longest, then the name: left open here.     *)
FewestOpen ==
    IF routing = {} THEN {FirstOwner}
    ELSE {p \in Available : \A q \in Available : OpenLeads(p) <= OpenLeads(q)}

(* Mutant: the business's routing is not locked. *)
NobodyAsked(s) == TRUE

RoutingFree(s) ==
    \A r \in Sender \ {s} : ~(sending[r].at = "writes" /\ sending[r].from = "meta")

pickAssignee(s) ==
    /\ sending[s].at = "new" /\ RoutingFree(s)
    /\ \E p \in FewestOpen : sending' = [sending EXCEPT ![s].at = "writes", ![s].who = {p}]
    /\ UNCHANGED <<leads, routing, onLeave, morning, byHand>>

-----------------------------------------------------------------------------
(* The lead and its first follow-up are written, and the locks let go.       *)

(* History: what somebody chose an assignee by has changed under them.       *)
Stirred(f) == [s \in Sender |-> IF f[s].at = "writes" /\ f[s].from = "meta" THEN [f[s] EXCEPT !.stirred = TRUE] ELSE f[s]]

NewLead(q) == [status |-> "open", number |-> q.number, born |-> morning, who |-> q.who, handled |-> FALSE]

WritesLead(s) ==
    /\ sending[s].at = "writes"
    /\ Len(leads) < MaxLeads
    /\ leads' = Append(leads, NewLead(sending[s]))
    /\ LET ended == [sending EXCEPT ![s] = Resting] IN
       sending' = IF sending[s].from = "meta" THEN ended ELSE Stirred(ended)
    /\ UNCHANGED <<routing, onLeave, morning, byHand>>

(* A statement fails or the server stops: the transaction leaves nothing.    *)
SendFails(s) ==
    /\ sending[s] # Resting
    /\ sending' = [sending EXCEPT ![s] = Resting]
    /\ UNCHANGED <<leads, routing, onLeave, morning, byHand>>

-----------------------------------------------------------------------------
(* By hand; handled marks the leads that nobody looks for numbers in.        *)

ByHand == byHand < MaxByHand /\ byHand' = byHand + 1 /\ sending' = Stirred(sending)

Edit(l, lead) == leads' = [leads EXCEPT ![l] = lead] /\ UNCHANGED <<routing, onLeave, morning>>

(* To somebody of the team, or to nobody.                                    *)
Given == {{}} \cup {{p} : p \in Seller \cup {FirstOwner}}

createLead(w, n) ==
    /\ ByHand /\ Len(leads) < MaxLeads
    /\ leads' = Append(leads, [status |-> "open", number |-> n, born |-> morning, who |-> w, handled |-> TRUE])
    /\ UNCHANGED <<routing, onLeave, morning>>

(* Stage, number or assignee.                                                *)
updateLead(l) ==
    /\ ByHand /\ leads[l].status # "gone"
    /\ \/ leads[l].status = "open" /\ Edit(l, [leads[l] EXCEPT !.status = "closed"])
       \/ leads[l].status = "closed" /\ Edit(l, [leads[l] EXCEPT !.status = "open", !.handled = TRUE])
       \/ \E n \in (Number \cup {NoNumber}) \ {leads[l].number} : Edit(l, [leads[l] EXCEPT !.number = n, !.handled = TRUE])
       \/ \E w \in Given \ {leads[l].who} : Edit(l, [leads[l] EXCEPT !.who = w])

deleteLead(l) ==
    /\ ByHand /\ leads[l].status # "gone"
    /\ Edit(l, [leads[l] EXCEPT !.status = "gone"])

(* The settings, or who may use the Leads screen.                            *)
setLeadRouting ==
    /\ ByHand
    /\ routing' \in SUBSET (Seller \cup {FirstOwner})
    /\ UNCHANGED <<leads, onLeave, morning>>

TimeOff(p) ==
    /\ ByHand
    /\ onLeave' = IF p \in onLeave THEN onLeave \ {p} ELSE onLeave \cup {p}
    /\ UNCHANGED <<leads, routing, morning>>

MorningComes ==
    /\ morning < LastMorning /\ morning' = morning + 1
    /\ UNCHANGED <<leads, sending, routing, onLeave, byHand>>

EnquiryNext ==
    \/ \E s \in Sender :
          \/ \E from \in Origin, n \in Number \cup {NoNumber} : LooksForLead(s, from, n)
          \/ pickAssignee(s) \/ WritesLead(s) \/ SendFails(s)
    \/ \E l \in DOMAIN leads : updateLead(l) \/ deleteLead(l)
    \/ \E w \in Given, n \in Number \cup {NoNumber} : createLead(w, n)
    \/ setLeadRouting
    \/ \E p \in Seller \cup {FirstOwner} : TimeOff(p)
    \/ MorningComes

EnquirySpec == EnquiryInit /\ [][EnquiryNext]_enquiryVars

-----------------------------------------------------------------------------
(* Properties                                                                *)

EnquiryTypeOK ==
    /\ leads \in Seq([status : {"open", "closed", "gone"}, number : Number \cup {NoNumber},
                     born : Nat, who : SUBSET (Seller \cup {FirstOwner}), handled : BOOLEAN])
    /\ sending \in [Sender -> [at : {"rest", "new", "writes"}, from : Origin,
                               number : Number \cup {NoNumber},
                               who : SUBSET (Seller \cup {FirstOwner}), stirred : BOOLEAN]]
    /\ routing \subseteq Seller \cup {FirstOwner} /\ onLeave \subseteq Seller \cup {FirstOwner}
    /\ morning \in Nat /\ byHand \in Nat

Writes(s) == sending[s].at = "writes" /\ WritesLead(s)

(* "The same person sending twice at once makes one lead", and so does every *)
(* enquiry in the window: none makes a lead while an open one of its         *)
(* number is there, unless the team made, reopened or renumbered that one.   *)
OneLeadPerNumber ==
    [][\A s \in Sender : Writes(s) =>
          \A l \in DOMAIN leads : Joins(sending[s].from, sending[s].number, l) => leads[l].handled]_enquiryVars

(* Two leads "arriving at the same moment wait for each other, so they don't *)
(* both go to the same person": when a routed lead is written, whoever gets  *)
(* it still has the fewest open leads of those who were there, unless        *)
(* something else was changed since the choice.                              *)
FewestFirst ==
    [][\A s \in Sender : Writes(s) /\ sending[s].from = "meta" /\ ~sending[s].stirred
          => sending[s].who \subseteq FewestOpen]_enquiryVars
=============================================================================
