------------------------------ MODULE Joining -------------------------------
(* One person and one business: links that invite their number, joining with *)
(* one, and being removed.  Accepting reads the link before its transaction; *)
(* inviting looks for a membership before it replaces the earlier link.      *)
CONSTANTS
    Link,       \* invitations
    Request,    \* requests going on
    Unraced     \* bound: nobody joins while they are being invited again

ASSUME JoinAssumption == Unraced \in BOOLEAN

VARIABLES
    links,      \* invitations: pending, accepted or revoked; expired ones too
    member,     \* memberships: the link each was joined with, and whether it stands
    asking      \* what each request read: a link to accept, or that they may be invited

joinVars == <<links, member, asking>>

JoinInit ==
    /\ links = [l \in Link |-> [state |-> "none", expired |-> FALSE]]
    /\ member = [l \in Link |-> "none"]
    /\ asking = [q \in Request |-> [what |-> "nothing", link |-> {}]]

InTeam == \E l \in Link : member[l] = "live"
Pending(l) == links[l].state = "pending"
Ask(q, what, link) == asking' = [asking EXCEPT ![q] = [what |-> what, link |-> link]]
Done(q) == Ask(q, "nothing", {})

-----------------------------------------------------------------------------
(* inviteMember *)

(* Mutant: whoever is in the team may be invited too. *)
Anybody == TRUE

MayInvite == ~InTeam

InviteLooks(q) ==
    /\ asking[q].what = "nothing" /\ MayInvite
    /\ Ask(q, "invite", {})
    /\ UNCHANGED <<links, member>>

(* A new link replaces the earlier one.                                      *)
InviteWrites(q) ==
    /\ asking[q].what = "invite"
    /\ \E new \in Link :
          /\ links[new].state = "none"
          /\ links' = [l \in Link |-> CASE l = new -> [state |-> "pending", expired |-> FALSE]
                                        [] l # new /\ Pending(l) -> [links[l] EXCEPT !.state = "revoked"]
                                        [] OTHER -> links[l]]
    /\ Done(q)
    /\ UNCHANGED member

RevokeInvitation(l) ==
    /\ Pending(l)
    /\ links' = [links EXCEPT ![l].state = "revoked"]
    /\ UNCHANGED <<member, asking>>

ExpireInvitation(l) ==
    /\ Pending(l) /\ ~links[l].expired
    /\ links' = [links EXCEPT ![l].expired = TRUE]
    /\ UNCHANGED <<member, asking>>

-----------------------------------------------------------------------------
(* acceptInvitation *)

AcceptReads(q, l) ==
    /\ asking[q].what = "nothing"
    /\ Pending(l) /\ ~links[l].expired
    /\ Ask(q, "accept", {l})
    /\ UNCHANGED <<links, member>>

(* Mutant: what was read is not looked at again. *)
AsRead(l) == TRUE

Unclaimed(l) == Pending(l)

Refused(q) ==
    /\ asking[q].what = "accept" /\ \A l \in asking[q].link : ~Unclaimed(l)
    /\ Done(q)
    /\ UNCHANGED <<links, member>>

(* Who is in the team already uses the link up and stays as they are.        *)
AcceptJoins(q, l) ==
    /\ asking[q] = [what |-> "accept", link |-> {l}] /\ Unclaimed(l)
    /\ Unraced => \A r \in Request : asking[r].what # "invite"
    /\ links' = [links EXCEPT ![l].state = "accepted"]
    /\ member' = IF InTeam THEN member ELSE [member EXCEPT ![l] = "live"]
    /\ Done(q)

RemoveMember ==
    /\ InTeam
    /\ member' = [l \in Link |-> IF member[l] = "live" THEN "removed" ELSE member[l]]
    /\ UNCHANGED <<links, asking>>

JoinNext ==
    \/ \E q \in Request : InviteLooks(q) \/ InviteWrites(q) \/ Refused(q)
                          \/ \E l \in Link : AcceptReads(q, l) \/ AcceptJoins(q, l)
    \/ \E l \in Link : RevokeInvitation(l) \/ ExpireInvitation(l)
    \/ RemoveMember

JoinSpec == JoinInit /\ [][JoinNext]_joinVars

-----------------------------------------------------------------------------
(* Properties                                                                *)

JoinTypeOK ==
    /\ links \in [Link -> [state : {"none", "pending", "accepted", "revoked"}, expired : BOOLEAN]]
    /\ member \in [Link -> {"none", "live", "removed"}]
    /\ asking \in [Request -> [what : {"nothing", "invite", "accept"}, link : SUBSET Link]]

(* A link lets its person in once, and never after it was revoked, however   *)
(* the requests that use, replace and revoke it overlap.                     *)
LetsInOnce ==
    [][\A l \in Link : member[l] # "live" /\ member'[l] = "live"
          => member[l] = "none" /\ links[l].state = "pending" /\ links'[l].state = "accepted"]_joinVars

(* While somebody is in the team no link is waiting for them: with one,      *)
(* whoever is removed could let themselves in again.                         *)
NoWayBack == InTeam => \A l \in Link : ~Pending(l)
=============================================================================
