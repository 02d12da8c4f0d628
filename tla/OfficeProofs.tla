--------------------------- MODULE OfficeProofs ----------------------------
(* Proofs about joining a team (Joining), for any number of links and        *)
(* requests, about enquiries (Enquiries), for any number of senders,         *)
(* numbers, leads and people, and about all the small parts of the office    *)
(* put together (MCOffice).                                                  *)
EXTENDS MCOffice, TaskProofs, AlertsProofs, MoneyProofs

(* A link somebody joined with is used up.                                   *)
UsedUp == \A l \in Link : member[l] # "none" => links[l].state = "accepted"

(* A new link replaces the earlier ones.                                     *)
OnePending == \A l, m \in Link : Pending(l) /\ Pending(m) => l = m

(* Nobody is being invited who is in the team.                               *)
NoneInvited == InTeam => \A q \in Request : asking[q].what # "invite"

LinkInv == JoinTypeOK /\ UsedUp

JoinInv == LinkInv /\ OnePending /\ NoneInvited /\ NoWayBack

-----------------------------------------------------------------------------
LEMMA JoinInvInit == JoinInit => JoinInv
BY DEF JoinInit, JoinInv, LinkInv, JoinTypeOK, UsedUp, OnePending, NoneInvited, NoWayBack, InTeam,
       Pending

(* What a new link does to the links there are.                              *)
LEMMA InviteEffect ==
    ASSUME LinkInv, NEW q \in Request, InviteWrites(q)
    PROVE  /\ LinkInv'
           /\ member' = member
           /\ OnePending'
           /\ \A r \in Request : asking'[r].what = "invite" => asking[r].what = "invite"
<1>1. PICK new \in Link :
         /\ links[new].state = "none"
         /\ links' = [l \in Link |-> CASE l = new -> [state |-> "pending", expired |-> FALSE]
                                       [] l # new /\ Pending(l) -> [links[l] EXCEPT !.state = "revoked"]
                                       [] OTHER -> links[l]]
  BY DEF InviteWrites
<1>2. asking' = [asking EXCEPT ![q] = [what |-> "nothing", link |-> {}]] /\ member' = member
  BY DEF InviteWrites, Done, Ask
<1>3. \A l \in Link :
        links[l] \in [state : {"none", "pending", "accepted", "revoked"}, expired : BOOLEAN]
  BY DEF LinkInv, JoinTypeOK
<1>4. links'[new].state = "pending" /\ links'[new] \in [state : {"pending"}, expired : BOOLEAN]
  BY <1>1
<1>5. \A l \in Link : l # new /\ Pending(l) => links'[l] = [links[l] EXCEPT !.state = "revoked"]
  BY <1>1
<1>6. \A l \in Link : l # new /\ ~Pending(l) => links'[l] = links[l]
  BY <1>1
<1>7. \A l \in Link : l # new => links'[l].state # "pending"
  BY <1>3, <1>5, <1>6 DEF Pending
<1>8. links' \in [Link -> [state : {"none", "pending", "accepted", "revoked"}, expired : BOOLEAN]]
  <2>1. ASSUME NEW l \in Link
        PROVE  links'[l] \in [state : {"none", "pending", "accepted", "revoked"}, expired : BOOLEAN]
    <3>1. [links[l] EXCEPT !.state = "revoked"]
            \in [state : {"none", "pending", "accepted", "revoked"}, expired : BOOLEAN]
      BY <1>3
    <3>2. links'[new] \in [state : {"none", "pending", "accepted", "revoked"}, expired : BOOLEAN]
      BY <1>4
    <3> QED BY <1>3, <1>5, <1>6, <3>1, <3>2
  <2>2. links' = [l \in Link |-> links'[l]]
    BY <1>1
  <2> QED BY <2>1, <2>2
<1>9. asking' \in [Request -> [what : {"nothing", "invite", "accept"}, link : SUBSET Link]]
      /\ \A r \in Request : asking'[r].what = "invite" => asking[r].what = "invite"
  BY <1>2 DEF LinkInv, JoinTypeOK
<1>10. UsedUp'
  <2>1. member[new] = "none"
    BY <1>1 DEF LinkInv, UsedUp
  <2>2. \A l \in Link : links[l].state = "accepted" => links'[l] = links[l] \/ l = new
    BY <1>6 DEF Pending
  <2> QED BY <1>2, <2>1, <2>2 DEF LinkInv, UsedUp
<1>11. OnePending'
  BY <1>7 DEF OnePending, Pending
<1> QED BY <1>2, <1>8, <1>9, <1>10, <1>11 DEF LinkInv, JoinTypeOK

(* What joining does: the link is used up, and nobody is in the team with    *)
(* another but who was.                                                      *)
LEMMA JoinEffect ==
    ASSUME LinkInv, NEW q \in Request, NEW l \in Link, AcceptJoins(q, l)
    PROVE  /\ LinkInv'
           /\ Pending(l) /\ links'[l].state = "accepted"
           /\ \A m \in Link \ {l} : links'[m] = links[m] /\ member'[m] = member[m]
           /\ \A r \in Request : asking'[r].what = "invite" => asking[r].what = "invite"
<1>1. /\ Pending(l)
      /\ links' = [links EXCEPT ![l].state = "accepted"]
      /\ \/ member' = member
         \/ member' = [member EXCEPT ![l] = "live"]
      /\ asking' = [asking EXCEPT ![q] = [what |-> "nothing", link |-> {}]]
  BY DEF AcceptJoins, Unclaimed, Done, Ask
<1>2. links'[l].state = "accepted" /\ \A m \in Link \ {l} : links'[m] = links[m]
  BY <1>1 DEF LinkInv, JoinTypeOK
<1>3. \A m \in Link \ {l} : member'[m] = member[m]
  BY <1>1 DEF LinkInv, JoinTypeOK
<1>4. JoinTypeOK'
  BY <1>1 DEF LinkInv, JoinTypeOK
<1>5. UsedUp'
  BY <1>2, <1>3 DEF LinkInv, UsedUp
<1>6. \A r \in Request : asking'[r].what = "invite" => asking[r].what = "invite"
  BY <1>1 DEF LinkInv, JoinTypeOK
<1> QED BY <1>1, <1>2, <1>3, <1>4, <1>5, <1>6 DEF LinkInv

LEMMA LinkInvStep == LinkInv /\ [JoinNext]_joinVars => LinkInv'
<1> SUFFICES ASSUME LinkInv, [JoinNext]_joinVars PROVE LinkInv'
  OBVIOUS
<1>1. ASSUME NEW q \in Request, InviteLooks(q) PROVE LinkInv'
  BY <1>1 DEF InviteLooks, Ask, LinkInv, JoinTypeOK, UsedUp
<1>2. ASSUME NEW q \in Request, InviteWrites(q) PROVE LinkInv'
  BY <1>2, InviteEffect
<1>3. ASSUME NEW q \in Request, Refused(q) PROVE LinkInv'
  BY <1>3 DEF Refused, Done, Ask, LinkInv, JoinTypeOK, UsedUp
<1>4. ASSUME NEW q \in Request, NEW l \in Link, AcceptReads(q, l) PROVE LinkInv'
  BY <1>4 DEF AcceptReads, Ask, LinkInv, JoinTypeOK, UsedUp
<1>5. ASSUME NEW q \in Request, NEW l \in Link, AcceptJoins(q, l) PROVE LinkInv'
  BY <1>5, JoinEffect
<1>6. ASSUME NEW l \in Link, RevokeInvitation(l) \/ ExpireInvitation(l) PROVE LinkInv'
  <2>1. JoinTypeOK'
    <3>1. CASE RevokeInvitation(l)
      BY <3>1 DEF RevokeInvitation, LinkInv, JoinTypeOK
    <3>2. CASE ExpireInvitation(l)
      BY <3>2 DEF ExpireInvitation, LinkInv, JoinTypeOK
    <3> QED BY <1>6, <3>1, <3>2
  <2>2. \A m \in Link : links[m].state = "accepted" => links'[m].state = "accepted"
    BY <1>6 DEF RevokeInvitation, ExpireInvitation, Pending, LinkInv, JoinTypeOK
  <2>3. UsedUp'
    BY <1>6, <2>2 DEF RevokeInvitation, ExpireInvitation, LinkInv, UsedUp
  <2> QED BY <2>1, <2>3 DEF LinkInv
<1>7. CASE RemoveMember
  BY <1>7 DEF RemoveMember, LinkInv, JoinTypeOK, UsedUp
<1>8. CASE UNCHANGED joinVars
  BY <1>8 DEF joinVars, LinkInv, JoinTypeOK, UsedUp
<1> QED BY <1>1, <1>2, <1>3, <1>4, <1>5, <1>6, <1>7, <1>8 DEF JoinNext

LEMMA JoinInvStep ==
    ASSUME Unraced = TRUE, JoinInv, [JoinNext]_joinVars PROVE JoinInv'
<1>0. LinkInv /\ LinkInv' /\ OnePending /\ NoneInvited /\ NoWayBack
  BY LinkInvStep DEF JoinInv
<1>1. ASSUME UNCHANGED member, \A l \in Link : Pending(l)' => Pending(l),
             \A r \in Request : asking'[r].what = "invite" => asking[r].what = "invite"
      PROVE  JoinInv'
  BY <1>0, <1>1 DEF JoinInv, OnePending, NoneInvited, NoWayBack, InTeam
<1>2. ASSUME NEW q \in Request, InviteLooks(q) PROVE JoinInv'
  <2>1. ~InTeam'
    BY <1>2 DEF InviteLooks, MayInvite, InTeam
  <2> QED BY <1>0, <1>2, <2>1 DEF InviteLooks, JoinInv, OnePending, NoneInvited, NoWayBack, Pending
<1>3. ASSUME NEW q \in Request, InviteWrites(q) PROVE JoinInv'
  <2>1. ~InTeam
    BY <1>0, <1>3 DEF InviteWrites, NoneInvited
  <2>2. OnePending' /\ ~InTeam'
    BY <1>0, <1>3, <2>1, InviteEffect DEF InTeam
  <2> QED BY <1>0, <2>2 DEF JoinInv, NoneInvited, NoWayBack
<1>4. ASSUME NEW q \in Request, Refused(q) PROVE JoinInv'
  BY <1>0, <1>1, <1>4 DEF Refused, Done, Ask, Pending, LinkInv, JoinTypeOK
<1>5. ASSUME NEW q \in Request, NEW l \in Link, AcceptReads(q, l) PROVE JoinInv'
  BY <1>0, <1>1, <1>5 DEF AcceptReads, Ask, Pending, LinkInv, JoinTypeOK
<1>6. ASSUME NEW q \in Request, NEW l \in Link, AcceptJoins(q, l) PROVE JoinInv'
  <2>1. \A r \in Request : asking'[r].what # "invite"
    <3>1. \A r \in Request : asking[r].what # "invite"
      BY <1>6 DEF AcceptJoins
    <3> QED BY <1>0, <1>6, <3>1, JoinEffect
  <2>2. \A m \in Link : ~(links'[m].state = "pending")
    BY <1>0, <1>6, JoinEffect DEF OnePending, Pending
  <2> QED BY <1>0, <2>1, <2>2 DEF JoinInv, OnePending, NoneInvited, NoWayBack, Pending
<1>7. ASSUME NEW l \in Link, RevokeInvitation(l) \/ ExpireInvitation(l) PROVE JoinInv'
  BY <1>0, <1>1, <1>7 DEF RevokeInvitation, ExpireInvitation, Pending, LinkInv, JoinTypeOK
<1>8. CASE RemoveMember
  <2>1. ~InTeam'
    BY <1>8 DEF RemoveMember, InTeam
  <2> QED BY <1>0, <1>8, <2>1 DEF RemoveMember, JoinInv, OnePending, NoneInvited, NoWayBack, Pending
<1>9. CASE UNCHANGED joinVars
  BY <1>1, <1>9 DEF joinVars, Pending
<1> QED BY <1>2, <1>3, <1>4, <1>5, <1>6, <1>7, <1>8, <1>9 DEF JoinNext

-----------------------------------------------------------------------------
(* A link lets its person in once, and not after it was revoked, for any     *)
(* number of requests, raced or not.                                         *)
THEOREM OneWayIn == JoinSpec => LetsInOnce
<1> DEFINE In == \A l \in Link : member[l] # "live" /\ member'[l] = "live"
                   => member[l] = "none" /\ links[l].state = "pending" /\ links'[l].state = "accepted"
<1>1. ASSUME LinkInv, [JoinNext]_joinVars PROVE In \/ UNCHANGED joinVars
  <2>1. ASSUME NEW q \in Request, NEW l \in Link, AcceptJoins(q, l) PROVE In
    BY <1>1, <2>1, JoinEffect DEF Pending, LinkInv, JoinTypeOK, UsedUp
  <2>2. ASSUME UNCHANGED member PROVE In
    BY <2>2
  <2>3. CASE RemoveMember
    BY <2>3 DEF RemoveMember
  <2> HIDE DEF In
  <2> QED BY <1>1, <2>1, <2>2, <2>3
          DEF JoinNext, InviteLooks, InviteWrites, Refused, AcceptReads, RevokeInvitation,
              ExpireInvitation
<1>2. LinkInv /\ [JoinNext]_joinVars => [In]_joinVars
  BY <1>1
<1>3. JoinInit => LinkInv
  BY JoinInvInit DEF JoinInv
<1> QED BY <1>2, <1>3, LinkInvStep, PTL DEF JoinSpec, LetsInOnce

(* Whoever is removed has no link left to come back with, as long as nobody  *)
(* joins while they are being invited again.                                 *)
THEOREM RemovedStaysOut ==
    ASSUME Unraced = TRUE
    PROVE  JoinSpec => []NoWayBack
<1>1. JoinInv /\ [JoinNext]_joinVars => JoinInv'
  BY JoinInvStep
<1>2. JoinInv => NoWayBack
  BY DEF JoinInv
<1> QED BY <1>1, <1>2, JoinInvInit, PTL DEF JoinSpec
-----------------------------------------------------------------------------
(* Enquiries: the locks, and what holds since they were taken                *)

LeadRow == [status : {"open", "closed", "gone"}, number : Number \cup {NoNumber},
            born : Nat, who : SUBSET (Seller \cup {FirstOwner}), handled : BOOLEAN]
SenderRow == [at : {"rest", "new", "writes"}, from : Origin, number : Number \cup {NoNumber},
              who : SUBSET (Seller \cup {FirstOwner}), stirred : BOOLEAN]

(* One sender at a time for a number, and for the business's routing.        *)
NumberHeld ==
    \A s, r \in Sender : s # r /\ sending[s].number = sending[r].number
                           => sending[s].number = NoNumber

Routed(s) == sending[s].at = "writes" /\ sending[s].from = "meta"
RoutingHeld == \A s, r \in Sender : Routed(s) /\ Routed(r) => s = r

(* Since a sender looked, only leads the team touched are there to join.     *)
NoneToJoin ==
    \A s \in Sender : sending[s].at # "rest" =>
        \A l \in DOMAIN leads : Joins(sending[s].from, sending[s].number, l) => leads[l].handled

(* Whoever was chosen has the fewest, as long as nothing was stirred.        *)
StillFewest ==
    \A s \in Sender : Routed(s) /\ ~sending[s].stirred => sending[s].who \subseteq FewestOpen

EnquiryInv == EnquiryTypeOK /\ NumberHeld /\ RoutingHeld /\ NoneToJoin /\ StillFewest

LEMMA EnquiryRows ==
    ASSUME EnquiryTypeOK
    PROVE  /\ leads \in Seq(LeadRow) /\ Len(leads) \in Nat /\ DOMAIN leads = 1 .. Len(leads)
           /\ \A l \in DOMAIN leads : leads[l] \in LeadRow /\ leads[l].born \in Nat
           /\ sending \in [Sender -> SenderRow]
           /\ \A s \in Sender : sending[s] \in SenderRow
           /\ Resting \in SenderRow
           /\ morning \in Nat /\ byHand \in Nat
<1>1. leads \in Seq(LeadRow) /\ sending \in [Sender -> SenderRow]
  BY DEF EnquiryTypeOK, LeadRow, SenderRow
<1>2. Resting \in SenderRow
  BY DEF Resting, SenderRow, Origin
<1>3. Len(leads) \in Nat /\ DOMAIN leads = 1 .. Len(leads) /\ \A l \in DOMAIN leads : leads[l] \in LeadRow
  BY <1>1
<1>4. \A l \in DOMAIN leads : leads[l].born \in Nat
  BY <1>3 DEF LeadRow
<1> QED BY <1>1, <1>2, <1>3, <1>4 DEF EnquiryTypeOK

(* Who has the fewest depends on the leads, the settings and the leave only. *)
LEMMA FewestSame ==
    ASSUME UNCHANGED <<leads, routing, onLeave>>
    PROVE  FewestOpen' = FewestOpen
BY DEF FewestOpen, Available, OpenLeads

LEMMA EnquiryInit_Inv == EnquiryInit => EnquiryInv
<1> SUFFICES ASSUME EnquiryInit PROVE EnquiryInv
  OBVIOUS
<1>1. \A s \in Sender : sending[s] = Resting /\ sending[s].at = "rest" /\ sending[s].number = NoNumber
  BY DEF EnquiryInit, Resting
<1>2. EnquiryTypeOK
  <2>1. leads = <<>> /\ \A S : <<>> \in Seq(S)
    BY DEF EnquiryInit
  <2>2. Resting \in SenderRow
    BY DEF Resting, SenderRow, Origin
  <2> QED BY <2>1, <2>2 DEF EnquiryInit, EnquiryTypeOK, SenderRow
<1> QED BY <1>1, <1>2 DEF EnquiryInv, NumberHeld, RoutingHeld, NoneToJoin, StillFewest, Routed

(* Stirring a choice changes nothing else of who is sending.                 *)
LEMMA StirredSends ==
    ASSUME NEW f \in [Sender -> SenderRow]
    PROVE  /\ Stirred(f) \in [Sender -> SenderRow]
           /\ \A s \in Sender : /\ Stirred(f)[s].at = f[s].at
                                /\ Stirred(f)[s].from = f[s].from
                                /\ Stirred(f)[s].number = f[s].number
                                /\ f[s].at = "writes" /\ f[s].from = "meta" => Stirred(f)[s].stirred
<1>1. ASSUME NEW s \in Sender
      PROVE  /\ Stirred(f)[s] \in SenderRow
             /\ Stirred(f)[s].at = f[s].at /\ Stirred(f)[s].from = f[s].from
             /\ Stirred(f)[s].number = f[s].number
             /\ f[s].at = "writes" /\ f[s].from = "meta" => Stirred(f)[s].stirred
  <2>1. f[s] \in SenderRow
    OBVIOUS
  <2>2. CASE f[s].at = "writes" /\ f[s].from = "meta"
    <3>1. Stirred(f)[s] = [f[s] EXCEPT !.stirred = TRUE]
      BY <2>2 DEF Stirred
    <3> QED BY <2>1, <3>1 DEF SenderRow
  <2>3. CASE ~(f[s].at = "writes" /\ f[s].from = "meta")
    <3>1. Stirred(f)[s] = f[s]
      BY <2>3 DEF Stirred
    <3> QED BY <2>1, <2>3, <3>1
  <2> QED BY <2>2, <2>3
<1>2. Stirred(f) = [s \in Sender |-> Stirred(f)[s]]
  BY DEF Stirred
<1> QED BY <1>1, <1>2

(* One sender moves on, keeping the number it holds or letting it go, and    *)
(* nothing it reads changes.                                                 *)
LEMMA SendKeeps ==
    ASSUME EnquiryInv, NEW s \in Sender, NEW row \in SenderRow,
           sending' = [sending EXCEPT ![s] = row],
           UNCHANGED <<leads, routing, onLeave, morning, byHand>>,
           row.number # NoNumber => \A r \in Sender \ {s} : sending[r].number # row.number,
           row.at = "writes" /\ row.from = "meta" =>
             RoutingFree(s) /\ (row.stirred \/ row.who \subseteq FewestOpen),
           row.at # "rest" =>
             \A l \in DOMAIN leads : Joins(row.from, row.number, l) => leads[l].handled
    PROVE  EnquiryInv'
<1>0. EnquiryTypeOK /\ NumberHeld /\ RoutingHeld /\ NoneToJoin /\ StillFewest
  BY DEF EnquiryInv
<1>1. /\ sending' \in [Sender -> SenderRow] /\ sending'[s] = row
      /\ \A r \in Sender : r # s => sending'[r] = sending[r]
  BY <1>0, EnquiryRows
<1>2. EnquiryTypeOK'
  BY <1>0, <1>1 DEF EnquiryTypeOK, SenderRow
<1>3. NumberHeld'
  BY <1>0, <1>1 DEF NumberHeld
<1>4. RoutingHeld'
  BY <1>0, <1>1 DEF RoutingHeld, Routed, RoutingFree
<1>5. NoneToJoin'
  BY <1>0, <1>1 DEF NoneToJoin, Joins
<1>6. StillFewest'
  BY <1>0, <1>1, FewestSame DEF StillFewest, Routed
<1> QED BY <1>2, <1>3, <1>4, <1>5, <1>6 DEF EnquiryInv

(* The leads, the settings or the leave change: every choice is stirred, and *)
(* nobody gets an untouched lead to join.                                    *)
LEMMA StirKeeps ==
    ASSUME EnquiryInv, NEW f \in [Sender -> SenderRow],
           EnquiryTypeOK',
           \A s \in Sender : /\ sending'[s].at = f[s].at /\ sending'[s].from = f[s].from
                             /\ sending'[s].number = f[s].number
                             /\ Routed(s)' => sending'[s].stirred,
           \A s \in Sender : f[s] = sending[s] \/ f[s] = Resting,
           \A s \in Sender : f[s].at # "rest" =>
             \A l \in DOMAIN leads' : Joins(f[s].from, f[s].number, l)' =>
                \/ l \in DOMAIN leads /\ Joins(f[s].from, f[s].number, l) /\ leads'[l].handled = leads[l].handled
                \/ leads'[l].handled
    PROVE  EnquiryInv'
<1>0. EnquiryTypeOK /\ NumberHeld /\ RoutingHeld /\ NoneToJoin /\ StillFewest
  BY DEF EnquiryInv
<1>1. Resting.at = "rest" /\ Resting.number = NoNumber
  BY DEF Resting
<1>2. NumberHeld'
  BY <1>0, <1>1 DEF NumberHeld
<1>3. RoutingHeld'
  BY <1>0, <1>1 DEF RoutingHeld, Routed
<1>4. NoneToJoin'
  <2>1. ASSUME NEW s \in Sender, sending'[s].at # "rest", NEW l \in DOMAIN leads',
               sending'[s].number # NoNumber, leads'[l].number = sending'[s].number,
               leads'[l].status = "open",
               leads'[l].born + repeatWindow(sending'[s].from) > morning'
        PROVE  leads'[l].handled
    <3>1. f[s].at # "rest" /\ f[s] = sending[s]
      BY <1>1, <2>1
    <3>2. Joins(f[s].from, f[s].number, l)'
      BY <2>1 DEF Joins
    <3> QED BY <1>0, <3>1, <3>2 DEF NoneToJoin
  <2> QED BY <2>1 DEF NoneToJoin, Joins
<1>5. StillFewest'
  BY DEF StillFewest, Routed
<1> QED BY <1>0, <1>2, <1>3, <1>4, <1>5 DEF EnquiryInv

(* A change by hand stirs every choice and writes at most one lead.          *)
LEMMA HandKeeps ==
    ASSUME EnquiryInv, ByHand, morning' = morning, EnquiryTypeOK',
           \A n \in Number : \A from \in Origin : \A l \in DOMAIN leads' :
              Joins(from, n, l)' =>
                \/ l \in DOMAIN leads /\ Joins(from, n, l) /\ leads'[l].handled = leads[l].handled
                \/ leads'[l].handled
    PROVE  EnquiryInv'
<1>0. EnquiryTypeOK
  BY DEF EnquiryInv
<1>1. PICK f \in [Sender -> SenderRow] : f = sending
  BY <1>0, EnquiryRows
<1>2. sending' = Stirred(f)
  BY <1>1 DEF ByHand
<1>3. \A s \in Sender : /\ sending'[s].at = f[s].at /\ sending'[s].from = f[s].from
                        /\ sending'[s].number = f[s].number
                        /\ Routed(s)' => sending'[s].stirred
  BY <1>2, StirredSends DEF Routed
<1>4. \A s \in Sender : f[s].from \in Origin /\ f[s].number \in Number \cup {NoNumber}
  BY DEF SenderRow
<1>5. ASSUME NEW s \in Sender, NEW l \in DOMAIN leads', Joins(f[s].from, f[s].number, l)'
      PROVE  \/ l \in DOMAIN leads /\ Joins(f[s].from, f[s].number, l)
                /\ leads'[l].handled = leads[l].handled
             \/ leads'[l].handled
  <2>1. f[s].number \in Number
    BY <1>4, <1>5 DEF Joins
  <2> QED BY <1>4, <1>5, <2>1
<1> QED BY <1>1, <1>3, <1>5, StirKeeps

(* A lead is added by hand, or one that is there is changed.                 *)
LEMMA TeamKeeps ==
    ASSUME EnquiryInv,
           \/ \E w \in Given, n \in Number \cup {NoNumber} : createLead(w, n)
           \/ \E l \in DOMAIN leads : updateLead(l) \/ deleteLead(l)
    PROVE  EnquiryInv'
<1>0. EnquiryTypeOK
  BY DEF EnquiryInv
<1>1. byHand' \in Nat /\ ByHand
  <2>1. ByHand
    BY DEF createLead, updateLead, deleteLead
  <2> QED BY <1>0, <2>1 DEF ByHand, EnquiryTypeOK
<1>2. sending' \in [Sender -> SenderRow]
  <2>1. PICK f \in [Sender -> SenderRow] : f = sending
    BY <1>0, EnquiryRows
  <2> QED BY <1>1, <2>1, StirredSends DEF ByHand
<1>3. \A w \in Given : w \subseteq Seller \cup {FirstOwner}
  BY DEF Given
<1>4. /\ leads \in Seq(LeadRow) /\ Len(leads) \in Nat /\ morning \in Nat
      /\ \A l \in DOMAIN leads : leads[l] \in LeadRow
  BY <1>0, EnquiryRows
<1>5. ASSUME NEW w \in Given, NEW n \in Number \cup {NoNumber}, createLead(w, n)
      PROVE  EnquiryInv'
  <2> DEFINE new == [status |-> "open", number |-> n, born |-> morning, who |-> w, handled |-> TRUE]
  <2>1. new \in LeadRow /\ new.handled
    BY <1>3, <1>4 DEF LeadRow
  <2>2. leads' = Append(leads, new) /\ UNCHANGED <<routing, onLeave, morning>>
    BY <1>5 DEF createLead
  <2> HIDE DEF new
  <2>3. /\ leads' \in Seq(LeadRow) /\ DOMAIN leads' = DOMAIN leads \cup {Len(leads) + 1}
        /\ leads'[Len(leads) + 1] = new /\ \A l \in DOMAIN leads : leads'[l] = leads[l]
    BY <1>4, <2>1, <2>2, AppendProperties
  <2>4. EnquiryTypeOK'
    BY <1>0, <1>1, <1>2, <2>2, <2>3 DEF EnquiryTypeOK, LeadRow, SenderRow
  <2>5. ASSUME NEW k \in Number, NEW from \in Origin, NEW l \in DOMAIN leads', Joins(from, k, l)'
        PROVE  \/ l \in DOMAIN leads /\ Joins(from, k, l) /\ leads'[l].handled = leads[l].handled
               \/ leads'[l].handled
    BY <2>1, <2>2, <2>3, <2>5 DEF Joins
  <2> QED BY <1>1, <2>2, <2>4, <2>5, HandKeeps
<1>6. ASSUME NEW l \in DOMAIN leads, NEW row \in LeadRow, ByHand, Edit(l, row),
             row.status = "open" /\ ~row.handled =>
               leads[l].status = "open" /\ row.number = leads[l].number /\ row.born = leads[l].born
               /\ row.handled = leads[l].handled
      PROVE  EnquiryInv'
  <2>1. leads' = [leads EXCEPT ![l] = row] /\ UNCHANGED <<routing, onLeave, morning>>
    BY <1>6 DEF Edit
  <2>2. /\ leads' \in Seq(LeadRow) /\ DOMAIN leads' = DOMAIN leads
        /\ leads'[l] = row /\ \A m \in DOMAIN leads : m # l => leads'[m] = leads[m]
    BY <1>4, <2>1, ExceptSeq
  <2>3. EnquiryTypeOK'
    BY <1>0, <1>1, <1>2, <2>1, <2>2 DEF EnquiryTypeOK, LeadRow, SenderRow
  <2>4. ASSUME NEW k \in Number, NEW from \in Origin, NEW m \in DOMAIN leads', Joins(from, k, m)'
        PROVE  \/ m \in DOMAIN leads /\ Joins(from, k, m) /\ leads'[m].handled = leads[m].handled
               \/ leads'[m].handled
    <3>1. CASE m = l
      <4>1. row.handled \in BOOLEAN /\ leads[l].handled \in BOOLEAN
        BY <1>4 DEF LeadRow
      <4>2. row.status = "open"
        BY <2>2, <2>4, <3>1 DEF Joins
      <4> QED BY <1>6, <2>1, <2>2, <2>4, <3>1, <4>1, <4>2 DEF Joins
    <3>2. CASE m # l
      BY <2>1, <2>2, <2>4, <3>2 DEF Joins
    <3> QED BY <3>1, <3>2
  <2> QED BY <1>1, <2>1, <2>3, <2>4, HandKeeps
<1>7. ASSUME NEW l \in DOMAIN leads, updateLead(l)
      PROVE  EnquiryInv'
  <2>0. leads[l] \in LeadRow /\ ByHand
    BY <1>4, <1>7 DEF updateLead
  <2>1. CASE leads[l].status = "open" /\ Edit(l, [leads[l] EXCEPT !.status = "closed"])
    <3> DEFINE row == [leads[l] EXCEPT !.status = "closed"]
    <3>1. row \in LeadRow /\ row.status = "closed"
      BY <2>0 DEF LeadRow
    <3> HIDE DEF row
    <3>2. Edit(l, row)
      BY <2>1 DEF row
    <3> QED BY <1>6, <2>0, <3>1, <3>2
  <2>2. CASE leads[l].status = "closed" /\ Edit(l, [leads[l] EXCEPT !.status = "open", !.handled = TRUE])
    <3> DEFINE row == [leads[l] EXCEPT !.status = "open", !.handled = TRUE]
    <3>1. row \in LeadRow /\ row.handled
      BY <2>0 DEF LeadRow
    <3> HIDE DEF row
    <3>2. Edit(l, row)
      BY <2>2 DEF row
    <3> QED BY <1>6, <2>0, <3>1, <3>2
  <2>3. ASSUME NEW n \in (Number \cup {NoNumber}) \ {leads[l].number},
               Edit(l, [leads[l] EXCEPT !.number = n, !.handled = TRUE])
        PROVE  EnquiryInv'
    <3> DEFINE row == [leads[l] EXCEPT !.number = n, !.handled = TRUE]
    <3>1. row \in LeadRow /\ row.handled
      BY <2>0 DEF LeadRow
    <3> HIDE DEF row
    <3>2. Edit(l, row)
      BY <2>3 DEF row
    <3> QED BY <1>6, <2>0, <3>1, <3>2
  <2>4. ASSUME NEW w \in Given \ {leads[l].who}, Edit(l, [leads[l] EXCEPT !.who = w])
        PROVE  EnquiryInv'
    <3> DEFINE row == [leads[l] EXCEPT !.who = w]
    <3>1. /\ row \in LeadRow /\ row.status = leads[l].status /\ row.number = leads[l].number
          /\ row.born = leads[l].born /\ row.handled = leads[l].handled
      BY <1>3, <2>0 DEF LeadRow
    <3> HIDE DEF row
    <3>2. Edit(l, row)
      BY <2>4 DEF row
    <3> QED BY <1>6, <2>0, <3>1, <3>2
  <2> QED BY <1>7, <2>1, <2>2, <2>3, <2>4 DEF updateLead
<1>8. ASSUME NEW l \in DOMAIN leads, deleteLead(l)
      PROVE  EnquiryInv'
  <2> DEFINE row == [leads[l] EXCEPT !.status = "gone"]
  <2>1. row \in LeadRow /\ row.status = "gone"
    BY <1>4 DEF LeadRow
  <2> HIDE DEF row
  <2>2. Edit(l, row) /\ ByHand
    BY <1>8 DEF row, deleteLead
  <2> QED BY <1>6, <2>1, <2>2
<1> QED BY <1>5, <1>7, <1>8

(* A sender writes its lead and lets its locks go.                           *)
LEMMA WritesKeeps ==
    ASSUME EnquiryInv, NEW s \in Sender, WritesLead(s)
    PROVE  EnquiryInv'
<1> DEFINE new == NewLead(sending[s])
<1>0. EnquiryTypeOK /\ NumberHeld /\ RoutingHeld
  BY DEF EnquiryInv
<1>1. /\ leads \in Seq(LeadRow) /\ Len(leads) \in Nat /\ morning \in Nat
      /\ sending \in [Sender -> SenderRow] /\ sending[s] \in SenderRow /\ Resting \in SenderRow
  BY <1>0, EnquiryRows
<1>2. new \in LeadRow /\ new.number = sending[s].number
  BY <1>1 DEF NewLead, LeadRow, SenderRow
<1>3. /\ leads' = Append(leads, new) /\ UNCHANGED <<routing, onLeave, morning, byHand>>
      /\ sending[s].at = "writes"
  BY DEF WritesLead
<1> HIDE DEF new
<1>4. /\ leads' \in Seq(LeadRow) /\ DOMAIN leads' = DOMAIN leads \cup {Len(leads) + 1}
      /\ leads'[Len(leads) + 1] = new /\ \A l \in DOMAIN leads : leads'[l] = leads[l]
  BY <1>1, <1>2, <1>3, AppendProperties
<1>5. PICK f \in [Sender -> SenderRow] : f = [sending EXCEPT ![s] = Resting]
  BY <1>1
<1>6. sending' = IF sending[s].from = "meta" THEN f ELSE Stirred(f)
  BY <1>5 DEF WritesLead
<1>7. f[s] = Resting /\ \A r \in Sender : r # s => f[r] = sending[r]
  BY <1>1, <1>5
<1>8. Resting.at = "rest"
  BY DEF Resting
<1>9. /\ sending' \in [Sender -> SenderRow]
      /\ \A r \in Sender : /\ sending'[r].at = f[r].at /\ sending'[r].from = f[r].from
                           /\ sending'[r].number = f[r].number
  BY <1>6, StirredSends
<1>10. \A r \in Sender : Routed(r)' => sending'[r].stirred
  <2>1. CASE sending[s].from = "meta"
    <3>1. \A r \in Sender \ {s} : ~Routed(r)
      BY <1>0, <1>3, <2>1 DEF RoutingHeld, Routed
    <3> QED BY <1>7, <1>8, <1>9, <3>1 DEF Routed
  <2>2. CASE sending[s].from # "meta"
    BY <1>6, <1>9, <2>2, StirredSends DEF Routed
  <2> QED BY <2>1, <2>2
<1>11. EnquiryTypeOK'
  BY <1>0, <1>3, <1>4, <1>9 DEF EnquiryTypeOK, LeadRow, SenderRow
<1>12. ASSUME NEW r \in Sender, f[r].at # "rest", NEW l \in DOMAIN leads',
              Joins(f[r].from, f[r].number, l)'
       PROVE  /\ l \in DOMAIN leads /\ Joins(f[r].from, f[r].number, l)
              /\ leads'[l].handled = leads[l].handled
  <2>1. r # s /\ f[r].number = sending[r].number
    BY <1>7, <1>8, <1>12
  <2>2. f[r].number # NoNumber /\ leads'[l].number = f[r].number
    BY <1>12 DEF Joins
  <2>3. l \in DOMAIN leads
    BY <1>0, <1>2, <1>4, <2>1, <2>2 DEF NumberHeld
  <2> QED BY <1>3, <1>4, <1>12, <2>3 DEF Joins
<1> QED BY <1>7, <1>9, <1>10, <1>11, <1>12, StirKeeps

LEMMA EnquiryStep == EnquiryInv /\ [EnquiryNext]_enquiryVars => EnquiryInv'
<1> SUFFICES ASSUME EnquiryInv, [EnquiryNext]_enquiryVars PROVE EnquiryInv'
  OBVIOUS
<1>0. /\ EnquiryTypeOK /\ NumberHeld /\ RoutingHeld /\ NoneToJoin /\ StillFewest
      /\ Resting \in SenderRow /\ Resting.at = "rest" /\ Resting.number = NoNumber
      /\ \A s \in Sender : sending[s] \in SenderRow
  BY EnquiryRows DEF EnquiryInv, Resting
<1>1. ASSUME NEW s \in Sender, NEW from \in Origin, NEW n \in Number \cup {NoNumber},
             LooksForLead(s, from, n)
      PROVE  EnquiryInv'
  <2> DEFINE row == IF from = "meta"
                      THEN [Resting EXCEPT !.at = "new", !.from = from, !.number = n]
                      ELSE [Resting EXCEPT !.at = "writes", !.from = from, !.number = n,
                                           !.who = {FirstOwner}]
  <2>1. /\ row \in SenderRow /\ row.number = n /\ row.from = from
        /\ ~(row.at = "writes" /\ row.from = "meta")
    BY DEF Resting, SenderRow, Origin
  <2>2. sending' = [sending EXCEPT ![s] = row]
    BY <1>1 DEF LooksForLead
  <2> HIDE DEF row
  <2>3. UNCHANGED <<leads, routing, onLeave, morning, byHand>>
    BY <1>1 DEF LooksForLead
  <2>4. n # NoNumber => \A r \in Sender \ {s} : sending[r].number # n
    BY <1>1 DEF LooksForLead, NumberFree
  <2>5. \A l \in DOMAIN leads : ~Joins(from, n, l)
    BY <1>1 DEF LooksForLead
  <2> QED BY <2>1, <2>2, <2>3, <2>4, <2>5, SendKeeps
<1>2. ASSUME NEW s \in Sender, pickAssignee(s)
      PROVE  EnquiryInv'
  <2>1. PICK p \in FewestOpen : sending' = [sending EXCEPT ![s].at = "writes", ![s].who = {p}]
    BY <1>2 DEF pickAssignee
  <2> DEFINE row == [sending[s] EXCEPT !.at = "writes", !.who = {p}]
  <2>2. p \in Seller \cup {FirstOwner}
    BY <1>0 DEF FewestOpen, Available, EnquiryTypeOK
  <2>3. /\ row \in SenderRow /\ row.number = sending[s].number /\ row.from = sending[s].from
        /\ row.who \subseteq FewestOpen
    BY <1>0, <2>1, <2>2 DEF SenderRow
  <2>4. sending' = [sending EXCEPT ![s] = row]
    BY <1>0, <2>1 DEF EnquiryTypeOK
  <2> HIDE DEF row
  <2>5. UNCHANGED <<leads, routing, onLeave, morning, byHand>> /\ RoutingFree(s) /\ sending[s].at = "new"
    BY <1>2 DEF pickAssignee
  <2>6. row.number # NoNumber => \A r \in Sender \ {s} : sending[r].number # row.number
    BY <1>0, <2>3 DEF NumberHeld
  <2>7. \A l \in DOMAIN leads : Joins(row.from, row.number, l) => leads[l].handled
    BY <1>0, <2>3, <2>5 DEF NoneToJoin
  <2> QED BY <2>3, <2>4, <2>5, <2>6, <2>7, SendKeeps
<1>3. ASSUME NEW s \in Sender, SendFails(s)
      PROVE  EnquiryInv'
  <2>1. sending' = [sending EXCEPT ![s] = Resting] /\ UNCHANGED <<leads, routing, onLeave, morning, byHand>>
    BY <1>3 DEF SendFails
  <2> QED BY <1>0, <2>1, SendKeeps
<1>4. ASSUME \/ setLeadRouting
             \/ \E p \in Seller \cup {FirstOwner} : TimeOff(p)
      PROVE  EnquiryInv'
  <2>1. ByHand /\ leads' = leads /\ morning' = morning
    BY <1>4 DEF setLeadRouting, TimeOff
  <2>2. routing' \subseteq Seller \cup {FirstOwner} /\ onLeave' \subseteq Seller \cup {FirstOwner}
    BY <1>0, <1>4 DEF setLeadRouting, TimeOff, EnquiryTypeOK
  <2>3. sending' \in [Sender -> SenderRow]
    <3>1. PICK f \in [Sender -> SenderRow] : f = sending
      BY <1>0, EnquiryRows
    <3> QED BY <2>1, <3>1, StirredSends DEF ByHand
  <2>4. EnquiryTypeOK'
    BY <1>0, <2>1, <2>2, <2>3 DEF EnquiryTypeOK, SenderRow, ByHand
  <2>5. \A n, from, l : Joins(from, n, l)' <=> Joins(from, n, l)
    BY <2>1 DEF Joins
  <2> QED BY <2>1, <2>4, <2>5, HandKeeps
<1>5. CASE MorningComes
  <2>1. morning' = morning + 1 /\ UNCHANGED <<leads, sending, routing, onLeave, byHand>>
    BY <1>5 DEF MorningComes
  <2>2. \A from \in Origin : repeatWindow(from) \in Nat
    BY EnquiryAssumption DEF repeatWindow
  <2>3. ASSUME NEW s \in Sender, NEW l \in DOMAIN leads,
               Joins(sending[s].from, sending[s].number, l)'
        PROVE  Joins(sending[s].from, sending[s].number, l)
    <3>1. sending[s].from \in Origin /\ leads[l].born \in Nat /\ morning \in Nat
      BY <1>0, EnquiryRows DEF SenderRow
    <3> QED BY <2>1, <2>2, <2>3, <3>1 DEF Joins
  <2>4. EnquiryTypeOK' /\ NumberHeld' /\ RoutingHeld'
    BY <1>0, <2>1 DEF EnquiryTypeOK, NumberHeld, RoutingHeld, Routed
  <2>5. NoneToJoin'
    BY <1>0, <2>1, <2>3 DEF NoneToJoin
  <2>6. StillFewest'
    BY <1>0, <2>1, FewestSame DEF StillFewest, Routed
  <2> QED BY <2>4, <2>5, <2>6 DEF EnquiryInv
<1>6. CASE UNCHANGED enquiryVars
  <2>1. UNCHANGED <<leads, sending, routing, onLeave, morning, byHand>>
    BY <1>6 DEF enquiryVars
  <2>2. EnquiryTypeOK' /\ NumberHeld' /\ RoutingHeld' /\ NoneToJoin'
    BY <1>0, <2>1 DEF EnquiryTypeOK, NumberHeld, RoutingHeld, Routed, NoneToJoin, Joins
  <2>3. StillFewest'
    BY <1>0, <2>1, FewestSame DEF StillFewest, Routed
  <2> QED BY <2>2, <2>3 DEF EnquiryInv
<1> QED BY <1>1, <1>2, <1>3, <1>4, <1>5, <1>6, WritesKeeps, TeamKeeps DEF EnquiryNext

(* However many enquiries of one number come at once, by either way, and     *)
(* whatever the team does meanwhile, none makes a lead while an open one of  *)
(* its number, in its window and untouched by the team, is there.            *)
THEOREM OneLeadEach == EnquirySpec => OneLeadPerNumber
<1> DEFINE One == \A s \in Sender : Writes(s) =>
                    \A l \in DOMAIN leads :
                       Joins(sending[s].from, sending[s].number, l) => leads[l].handled
<1>1. EnquiryInv => One
  BY DEF EnquiryInv, NoneToJoin, Writes
<1>2. EnquiryInv /\ [EnquiryNext]_enquiryVars => EnquiryInv'
  BY EnquiryStep
<1>3. EnquirySpec => []EnquiryInv
  BY <1>2, EnquiryInit_Inv, PTL DEF EnquirySpec
<1>4. EnquiryInv => [One]_enquiryVars
  BY <1>1
<1> QED BY <1>3, <1>4, PTL DEF OneLeadPerNumber

(* Routed leads that arrive at the same moment wait for each other: whoever  *)
(* gets one still has the fewest open leads of those who were there, unless  *)
(* somebody changed something since the choice, for any team.                *)
THEOREM TheFewestGetIt == EnquirySpec => FewestFirst
<1> DEFINE Fewest == \A s \in Sender :
                       Writes(s) /\ sending[s].from = "meta" /\ ~sending[s].stirred
                         => sending[s].who \subseteq FewestOpen
<1>1. EnquiryInv => Fewest
  BY DEF EnquiryInv, StillFewest, Routed, Writes
<1>2. EnquiryInv /\ [EnquiryNext]_enquiryVars => EnquiryInv'
  BY EnquiryStep
<1>3. EnquirySpec => []EnquiryInv
  BY <1>2, EnquiryInit_Inv, PTL DEF EnquirySpec
<1>4. EnquiryInv => [Fewest]_enquiryVars
  BY <1>1
<1> QED BY <1>3, <1>4, PTL DEF FewestFirst

-----------------------------------------------------------------------------
(* The parts of the office together                                          *)

(* The office runs every part as that part is specified by itself: what is   *)
(* proved of one holds of the office.                                        *)
LEMMA OfficeRunsItsParts ==
    OfficeSpec => /\ TaskSpec /\ RepeatSpec /\ AlertSpec /\ LinesSpec /\ PayoutSpec
                  /\ JoinSpec /\ BillingSpec /\ EnquirySpec
<1>1. OfficeInit => /\ TaskInit /\ RepeatInit /\ AlertInit /\ LinesInit /\ PayoutInit
                    /\ JoinInit /\ BillingInit /\ EnquiryInit
  BY DEF OfficeInit
<1>2. UNCHANGED officeVars => UNCHANGED <<taskVars, repeatVars, alertVars, linesVars, payoutVars,
                                          joinVars, billingVars, enquiryVars>>
  BY DEF officeVars
<1>3. [OfficeNext]_officeVars => [TaskNext]_taskVars
  BY <1>2 DEF OfficeNext
<1>4. [OfficeNext]_officeVars => [RepeatNext]_repeatVars
  BY <1>2 DEF OfficeNext
<1>5. [OfficeNext]_officeVars => [AlertNext]_alertVars
  BY <1>2 DEF OfficeNext
<1>6. [OfficeNext]_officeVars => [LinesNext]_linesVars
  BY <1>2 DEF OfficeNext
<1>7. [OfficeNext]_officeVars => [PayoutNext]_payoutVars
  BY <1>2 DEF OfficeNext
<1>8. [OfficeNext]_officeVars => [JoinNext]_joinVars
  BY <1>2 DEF OfficeNext
<1>9. [OfficeNext]_officeVars => [BillingNext]_billingVars
  BY <1>2 DEF OfficeNext
<1>10. [OfficeNext]_officeVars => [EnquiryNext]_enquiryVars
  BY <1>2 DEF OfficeNext
<1> QED BY <1>1, <1>3, <1>4, <1>5, <1>6, <1>7, <1>8, <1>9, <1>10, PTL
        DEF OfficeSpec, TaskSpec, RepeatSpec, AlertSpec, LinesSpec, PayoutSpec, JoinSpec,
            BillingSpec, EnquirySpec

(* Every part of the office keeps to the shape of its tables, whatever is    *)
(* done in it, and for any number of whatever it has.                        *)
THEOREM OfficeKeepsItsShape == OfficeSpec => []OfficeTypeOK
<1>1. TaskSpec => []TaskTypeOK
  <2>1. TaskInv => TaskTypeOK
    BY DEF TaskInv
  <2> QED BY <2>1, TaskInvHolds, PTL
<1>2. RepeatSpec => []RepeatTypeOK
  <2>1. RepeatInit => RepeatInv
    BY RepeatInvInit DEF OnceInv
  <2>2. RepeatInv => RepeatTypeOK
    BY DEF RepeatInv
  <2> QED BY <2>1, <2>2, RepeatInvStep, PTL DEF RepeatSpec
<1>3. JoinSpec => []JoinTypeOK
  <2>1. JoinInit => LinkInv
    BY JoinInvInit DEF JoinInv
  <2>2. LinkInv => JoinTypeOK
    BY DEF LinkInv
  <2> QED BY <2>1, <2>2, LinkInvStep, PTL DEF JoinSpec
<1>4. EnquirySpec => []EnquiryTypeOK
  <2>1. EnquiryInv => EnquiryTypeOK
    BY DEF EnquiryInv
  <2>2. EnquiryInv /\ [EnquiryNext]_enquiryVars => EnquiryInv'
    BY EnquiryStep
  <2> QED BY <2>1, <2>2, EnquiryInit_Inv, PTL DEF EnquirySpec
<1>5. TaskTypeOK /\ RepeatTypeOK /\ AlertTypeOK /\ LinesTypeOK /\ PayoutTypeOK /\ JoinTypeOK
         /\ BillingTypeOK /\ EnquiryTypeOK => OfficeTypeOK
  BY DEF OfficeTypeOK
<1> QED BY <1>1, <1>2, <1>3, <1>4, <1>5, AlertTypes, LinesShape, PayoutShape, BillingShape,
           OfficeRunsItsParts, PTL
=============================================================================
