---------------------------- MODULE AlertsProofs ----------------------------
(* Proofs about Alerts, for any number of servers, flushes and people.       *)
EXTENDS Alerts, TLAPS

(* A server tells people of a time there is.                                 *)
TellsATime == \A s \in Server : jobs[s].pc = "tell" => jobs[s].at \in Time

Shaped == AlertTypeOK /\ TellsATime

(* Somebody has been told of every time a server is about to mark, and who   *)
(* it is about to tell is still in the business, as the owner always is.     *)
JobsOnTrack ==
    /\ Owner \in team
    /\ \A s \in Server :
        /\ jobs[s].pc = "tell" => jobs[s].to \in team
        /\ jobs[s].pc = "mark" => \E p \in Everyone : Told(p, jobs[s].at)

KeyOf(a) == <<a.to, a.at>>

(* There is one alert for a person and a time.                               *)
OneAlert == \A a, b \in alerts : KeyOf(a) = KeyOf(b) => a = b

(* What a flush holds was claimed by it alone and has not buzzed yet.        *)
ClaimedOnce ==
    \A f \in Flusher : \A k \in flushes[f] :
        /\ buzzes[k] = 0
        /\ \A g \in Flusher : k \in flushes[g] => g = f
        /\ \A a \in alerts : KeyOf(a) = k => a.push = "sent"

(* Only an alert that was claimed has buzzed.                                *)
BuzzedWasClaimed ==
    \A k \in Key : buzzes[k] # 0 => \E a \in alerts : KeyOf(a) = k /\ a.push = "sent"

(* What is held or has buzzed has its alert.                                 *)
HeldHasAlert == \A f \in Flusher : \A k \in flushes[f] : \E a \in alerts : KeyOf(a) = k

AlertInv == Shaped /\ MarkedMeansTold /\ JobsOnTrack

BuzzInv == Shaped /\ OneAlert /\ ClaimedOnce /\ HeldHasAlert /\ BuzzedWasClaimed /\ BuzzesOnce

-----------------------------------------------------------------------------
(* Each row keeps to its shape: a time is a time, a state one of its states. *)
LEMMA ShapedInit == AlertInit => Shaped
BY AlertAssumption DEF AlertInit, AlertTypeOK, TellsATime, Shaped, NoJob, Everyone, Key, Time

(* Telling somebody writes at most one alert, and the server goes on to mark. *)
LEMMA TellEffect ==
    ASSUME Shaped, NEW s \in Server, Tell(s)
    PROVE  /\ jobs'[s].pc = "mark" /\ jobs'[s].at = jobs[s].at
           /\ \A t \in Server \ {s} : jobs'[t] = jobs[t]
           /\ jobs' \in [Server -> [pc : {"idle", "tell", "mark"}, at : 0 .. LastTime,
                                    to : Everyone \cup {NoOne}]]
           /\ alerts' \subseteq [to : Everyone, at : Time, push : PushState]
           /\ jobs[s].to \in team => \E a \in alerts' : a.to = jobs[s].to /\ a.at = jobs[s].at
           /\ jobs[s].to \in Everyone => jobs[s].at \in Time
           /\ TellsATime'
<1> DEFINE new == [to |-> jobs[s].to, at |-> jobs[s].at, push |-> "pending"]
<1>1. jobs[s] \in [pc : {"idle", "tell", "mark"}, at : 0 .. LastTime,
                   to : Everyone \cup {NoOne}]
  BY DEF Shaped, AlertTypeOK
<1>2. jobs[s].pc = "tell" /\ jobs[s].at \in Time
  BY DEF Tell, Shaped, TellsATime
<1>3. jobs \in [Server -> [pc : {"idle", "tell", "mark"}, at : 0 .. LastTime,
                          to : Everyone \cup {NoOne}]]
      /\ jobs' = [jobs EXCEPT ![s].pc = "mark", ![s].to = NoOne]
  BY DEF Tell, Shaped, AlertTypeOK
<1>4. /\ jobs'[s].pc = "mark" /\ jobs'[s].at = jobs[s].at
      /\ \A t \in Server \ {s} : jobs'[t] = jobs[t]
      /\ jobs' \in [Server -> [pc : {"idle", "tell", "mark"}, at : 0 .. LastTime,
                              to : Everyone \cup {NoOne}]]
  BY <1>1, <1>3
<1>5. TellsATime'
  BY <1>4 DEF TellsATime, Shaped
<1>6. alerts' = IF jobs[s].to \in team /\ ~Told(jobs[s].to, jobs[s].at)
                THEN alerts \cup {new} ELSE alerts
  BY DEF Tell
<1>7. team \subseteq Everyone /\ alerts \subseteq [to : Everyone, at : Time, push : PushState]
  BY DEF Shaped, AlertTypeOK
<1>8. alerts' \subseteq [to : Everyone, at : Time, push : PushState]
  <2>1. jobs[s].to \in team => new \in [to : Everyone, at : Time, push : PushState]
    BY <1>2, <1>7 DEF PushState
  <2> QED BY <1>6, <1>7, <2>1
<1>9. new.to = jobs[s].to /\ new.at = jobs[s].at
  OBVIOUS
<1> HIDE DEF new
<1>10. jobs[s].to \in team => \E a \in alerts' : a.to = jobs[s].to /\ a.at = jobs[s].at
  BY <1>6, <1>9 DEF Told
<1> QED BY <1>2, <1>4, <1>5, <1>8, <1>10

LEMMA ShapedStep == Shaped /\ [AlertNext]_alertVars => Shaped'
<1> SUFFICES ASSUME Shaped, [AlertNext]_alertVars PROVE Shaped'
  OBVIOUS
<1> USE AlertAssumption DEF AlertTypeOK, TellsATime, Shaped
<1>1. ASSUME NEW s \in Server, ReadDue(s) PROVE Shaped'
  BY <1>1 DEF ReadDue, Recipient, Everyone, Time
<1>2. ASSUME NEW s \in Server, Tell(s) PROVE Shaped'
  <2>1. alerts' \subseteq [to : Everyone, at : Time, push : PushState]
    BY <1>2, TellEffect
  <2>2. jobs' \in [Server -> [pc : {"idle", "tell", "mark"}, at : 0 .. LastTime,
                             to : Everyone \cup {NoOne}]]
    BY <1>2, TellEffect
  <2>3. TellsATime'
    BY <1>2, TellEffect
  <2> QED BY <1>2, <2>1, <2>2, <2>3 DEF Tell
<1>3. ASSUME NEW s \in Server, MarkAlerted(s) PROVE Shaped'
  BY <1>3 DEF MarkAlerted, MarkTime, NoJob
<1>4. ASSUME NEW s \in Server, JobCrash(s) PROVE Shaped'
  BY <1>4 DEF JobCrash, NoJob
<1>5. ASSUME NEW f \in Flusher, ClaimAlerts(f) PROVE Shaped'
  BY <1>5 DEF ClaimAlerts, Sent, PushState, Key
<1>6. ASSUME NEW f \in Flusher, NEW k \in Key, PushBuzzes(f, k) PROVE Shaped'
  BY <1>6 DEF PushBuzzes
<1>7. ASSUME NEW f \in Flusher, NEW k \in Key, PushHeldBack(f, k) PROVE Shaped'
  BY <1>7 DEF PushHeldBack
<1>8. ASSUME NEW f \in Flusher, FlushCrash(f) PROVE Shaped'
  BY <1>8 DEF FlushCrash
<1>9. ASSUME NEW at \in 0 .. LastTime, SetFollowUp(at) PROVE Shaped'
  BY <1>9 DEF SetFollowUp
<1>10. ASSUME NEW p \in Everyone, GiveLead(p) PROVE Shaped'
  BY <1>10 DEF GiveLead
<1>11. ASSUME NEW p \in Staff, Leave(p) \/ Rejoin(p) PROVE Shaped'
  BY <1>11 DEF Leave, Rejoin, Everyone
<1>12. CASE TimePasses
  BY <1>12 DEF TimePasses
<1>13. CASE UNCHANGED alertVars
  BY <1>13 DEF alertVars
<1> QED BY <1>1, <1>2, <1>3, <1>4, <1>5, <1>6, <1>7, <1>8, <1>9, <1>10, <1>11, <1>12, <1>13
        DEF AlertNext

(* The rows of the alerts keep to their shape in every reachable state.      *)
THEOREM AlertTypes == AlertSpec => []AlertTypeOK
<1>1. Shaped => AlertTypeOK
  BY DEF Shaped
<1> QED BY <1>1, ShapedInit, ShapedStep, PTL DEF AlertSpec

-----------------------------------------------------------------------------
(* Whoever was told of a time stays told of it.                              *)
LEMMA ToldStays ==
    ASSUME Shaped, [AlertNext]_alertVars, NEW p, NEW at, Told(p, at)
    PROVE  Told(p, at)'
<1>1. PICK a \in alerts : a.to = p /\ a.at = at
  BY DEF Told
<1>2. a \in alerts' => Told(p, at)'
  BY <1>1 DEF Told
<1>3. ASSUME NEW f \in Flusher, ClaimAlerts(f) PROVE Told(p, at)'
  <2>1. CASE a.push = "pending"
    <3>1. Sent(a) \in alerts'
      BY <1>3, <2>1 DEF ClaimAlerts
    <3>2. Sent(a).to = p /\ Sent(a).at = at
      BY <1>1 DEF Sent, Shaped, AlertTypeOK
    <3> QED BY <3>1, <3>2 DEF Told
  <2>2. CASE a.push # "pending"
    BY <1>2, <1>3, <2>2 DEF ClaimAlerts
  <2> QED BY <2>1, <2>2
<1>4. ASSUME NEW s \in Server, Tell(s) PROVE a \in alerts'
  BY <1>4 DEF Tell
<1>5. CASE UNCHANGED alerts
  BY <1>2, <1>5
<1> QED BY <1>2, <1>3, <1>4, <1>5
        DEF AlertNext, alertVars, ReadDue, MarkAlerted, JobCrash, PushBuzzes, PushHeldBack,
            FlushCrash, SetFollowUp, GiveLead, Leave, Rejoin, TimePasses

LEMMA AlertInvInit == AlertInit => AlertInv
BY ShapedInit DEF AlertInit, AlertInv, MarkedMeansTold, JobsOnTrack, NoJob, Everyone

(* What a step leaves alone stays right, since nobody is untold.             *)
LEMMA NothingUntold ==
    ASSUME AlertInv, [AlertNext]_alertVars, team \subseteq team',
           lead'.marked = lead.marked, UNCHANGED jobs
    PROVE  AlertInv'
<1>1. Shaped'
  BY ShapedStep DEF AlertInv
<1>2. \A p, at : Told(p, at) => Told(p, at)'
  BY ToldStays DEF AlertInv
<1>3. MarkedMeansTold'
  BY <1>2 DEF AlertInv, MarkedMeansTold
<1>4. JobsOnTrack'
  BY <1>2 DEF AlertInv, JobsOnTrack
<1> QED BY <1>1, <1>3, <1>4 DEF AlertInv

LEMMA AlertInvStep ==
    ASSUME Unhurried = TRUE, AlertInv, [AlertNext]_alertVars PROVE AlertInv'
<1>0. Shaped /\ Shaped'
  BY ShapedStep DEF AlertInv
<1>1. \A p, at : Told(p, at) => Told(p, at)'
  BY <1>0, ToldStays
<1>2. ASSUME NEW s \in Server, ReadDue(s) PROVE AlertInv'
  <2>1. MarkedMeansTold'
    BY <1>1, <1>2 DEF AlertInv, ReadDue, MarkedMeansTold
  <2>2. jobs'[s].to \in team' /\ jobs'[s].pc = "tell"
    BY <1>0, <1>2 DEF AlertInv, JobsOnTrack, ReadDue, Recipient, Shaped, AlertTypeOK
  <2>3. \A t \in Server \ {s} : jobs'[t] = jobs[t]
    BY <1>0, <1>2 DEF ReadDue, Shaped, AlertTypeOK
  <2>4. JobsOnTrack'
    BY <1>1, <1>2, <2>2, <2>3 DEF AlertInv, JobsOnTrack, ReadDue
  <2> QED BY <1>0, <2>1, <2>4 DEF AlertInv
<1>3. ASSUME NEW s \in Server, Tell(s) PROVE AlertInv'
  <2>1. MarkedMeansTold'
    BY <1>1, <1>3 DEF AlertInv, Tell, MarkedMeansTold
  <2>2. jobs[s].to \in team /\ jobs[s].to \in Everyone
    BY <1>0, <1>3 DEF AlertInv, JobsOnTrack, Tell, Shaped, AlertTypeOK
  <2>3. \E a \in alerts' : a.to = jobs[s].to /\ a.at = jobs[s].at
    BY <1>0, <1>3, <2>2, TellEffect
  <2>5. jobs'[s].pc = "mark" /\ jobs'[s].at = jobs[s].at
        /\ \A t \in Server \ {s} : jobs'[t] = jobs[t]
    BY <1>0, <1>3, TellEffect
  <2>6. (\E p \in Everyone : Told(p, jobs[s].at))'
    BY <2>2, <2>3, <2>5 DEF Told
  <2>7. team' = team
    BY <1>3 DEF Tell
  <2>8. ASSUME NEW t \in Server
        PROVE  /\ jobs'[t].pc = "tell" => jobs'[t].to \in team'
               /\ jobs'[t].pc = "mark" => (\E p \in Everyone : Told(p, jobs[t].at))'
    <3>1. CASE t = s
      BY <2>5, <2>6, <3>1
    <3>2. CASE t # s
      <4>1. jobs'[t] = jobs[t]
        BY <2>5, <3>2
      <4>2. jobs[t].pc = "mark" => \E p \in Everyone : Told(p, jobs[t].at)
        BY DEF AlertInv, JobsOnTrack
      <4>3. jobs[t].pc = "tell" => jobs[t].to \in team
        BY DEF AlertInv, JobsOnTrack
      <4> QED BY <1>1, <2>7, <4>1, <4>2, <4>3 DEF Told
    <3> QED BY <3>1, <3>2
  <2>9. JobsOnTrack'
    BY <2>7, <2>8 DEF AlertInv, JobsOnTrack
  <2> QED BY <1>0, <2>1, <2>9 DEF AlertInv
<1>4. ASSUME NEW s \in Server, MarkAlerted(s) PROVE AlertInv'
  <2>1. \E p \in Everyone : Told(p, jobs[s].at)
    BY <1>4 DEF AlertInv, JobsOnTrack, MarkAlerted
  <2>2. lead'.marked = jobs[s].at /\ alerts' = alerts
    BY <1>0, <1>4 DEF MarkAlerted, MarkTime, Shaped, AlertTypeOK
  <2>3. MarkedMeansTold'
    BY <2>1, <2>2 DEF MarkedMeansTold, Told
  <2>4. jobs'[s].pc = "idle" /\ \A t \in Server \ {s} : jobs'[t] = jobs[t]
    BY <1>0, <1>4 DEF MarkAlerted, NoJob, Shaped, AlertTypeOK
  <2>5. JobsOnTrack'
    BY <1>1, <1>4, <2>4 DEF AlertInv, JobsOnTrack, MarkAlerted
  <2> QED BY <1>0, <2>3, <2>5 DEF AlertInv
<1>5. ASSUME NEW s \in Server, JobCrash(s) PROVE AlertInv'
  <2>1. jobs'[s].pc = "idle" /\ \A t \in Server \ {s} : jobs'[t] = jobs[t]
    BY <1>0, <1>5 DEF JobCrash, NoJob, Shaped, AlertTypeOK
  <2>2. JobsOnTrack'
    BY <1>1, <1>5, <2>1 DEF AlertInv, JobsOnTrack, JobCrash
  <2>3. MarkedMeansTold'
    BY <1>1, <1>5 DEF AlertInv, JobCrash, MarkedMeansTold
  <2> QED BY <1>0, <2>2, <2>3 DEF AlertInv
<1>6. ASSUME NEW p \in Staff, Leave(p) PROVE AlertInv'
  <2>1. \A s \in Server : jobs[s].pc = "tell" => jobs[s].to # p
    BY <1>6 DEF Leave
  <2>2. p # Owner
    BY AlertAssumption
  <2>3. JobsOnTrack'
    BY <1>1, <1>6, <2>1, <2>2 DEF AlertInv, JobsOnTrack, Leave
  <2>4. MarkedMeansTold'
    BY <1>1, <1>6 DEF AlertInv, Leave, MarkedMeansTold
  <2> QED BY <1>0, <2>3, <2>4 DEF AlertInv
<1>7. ASSUME NEW at \in 0 .. LastTime, SetFollowUp(at) PROVE AlertInv'
  <2>1. lead'.marked = lead.marked
    BY <1>0, <1>7 DEF SetFollowUp, Shaped, AlertTypeOK
  <2> QED BY <1>7, <2>1, NothingUntold DEF SetFollowUp
<1>8. ASSUME NEW p \in Everyone, GiveLead(p) PROVE AlertInv'
  <2>1. lead'.marked = lead.marked
    BY <1>0, <1>8 DEF GiveLead, Shaped, AlertTypeOK
  <2> QED BY <1>8, <2>1, NothingUntold DEF GiveLead
<1>9. ASSUME UNCHANGED <<lead, jobs>>, team \subseteq team' PROVE AlertInv'
  BY <1>9, NothingUntold
<1>10. ASSUME NEW f \in Flusher, ClaimAlerts(f) \/ FlushCrash(f) PROVE AlertInv'
  BY <1>9, <1>10 DEF ClaimAlerts, FlushCrash
<1>11. ASSUME NEW f \in Flusher, NEW k \in Key, PushBuzzes(f, k) \/ PushHeldBack(f, k)
       PROVE AlertInv'
  BY <1>9, <1>11 DEF PushBuzzes, PushHeldBack
<1>12. ASSUME NEW p \in Staff, Rejoin(p) PROVE AlertInv'
  BY <1>9, <1>12 DEF Rejoin
<1>13. CASE TimePasses \/ UNCHANGED alertVars
  BY <1>9, <1>13 DEF TimePasses, alertVars
<1> QED BY <1>2, <1>3, <1>4, <1>5, <1>6, <1>7, <1>8, <1>10, <1>11, <1>12, <1>13 DEF AlertNext

(* A time a lead is marked with was told to somebody, for any number of      *)
(* servers, as long as nobody leaves while an alert to them is written.      *)
THEOREM NobodyUntold ==
    ASSUME Unhurried = TRUE
    PROVE  AlertSpec => []MarkedMeansTold
<1>1. AlertInv => MarkedMeansTold
  BY DEF AlertInv
<1>2. AlertInv /\ [AlertNext]_alertVars => AlertInv'
  BY AlertInvStep
<1> QED BY <1>1, <1>2, AlertInvInit, PTL DEF AlertSpec

-----------------------------------------------------------------------------
LEMMA BuzzInvInit == AlertInit => BuzzInv
BY ShapedInit
   DEF AlertInit, BuzzInv, OneAlert, ClaimedOnce, HeldHasAlert, BuzzedWasClaimed, BuzzesOnce

(* Claiming leaves one alert for each there was, and sent.                   *)
LEMMA ClaimEffect ==
    ASSUME Shaped, NEW f \in Flusher, ClaimAlerts(f)
    PROVE  /\ \A b \in alerts' : \E a \in alerts :
                 /\ KeyOf(b) = KeyOf(a) /\ b.push = "sent"
                 /\ b = IF a.push = "pending" THEN Sent(a) ELSE a
           /\ \A a \in alerts : \E b \in alerts' : KeyOf(b) = KeyOf(a) /\ b.push = "sent"
           /\ \A k \in flushes'[f] : \E a \in alerts : KeyOf(a) = k /\ a.push = "pending"
           /\ \A g \in Flusher \ {f} : flushes'[g] = flushes[g]
           /\ buzzes' = buzzes
<1> DEFINE pending == {a \in alerts : a.push = "pending"}
<1>1. /\ alerts' = (alerts \ pending) \cup {Sent(a) : a \in pending}
      /\ flushes' = [flushes EXCEPT ![f] = {<<a.to, a.at>> : a \in pending}]
      /\ buzzes' = buzzes
  BY DEF ClaimAlerts
<1>2. alerts \subseteq [to : Everyone, at : Time, push : PushState]
      /\ flushes \in [Flusher -> SUBSET Key]
  BY DEF Shaped, AlertTypeOK
<1>3. \A a \in alerts : Sent(a).to = a.to /\ Sent(a).at = a.at /\ Sent(a).push = "sent"
  BY <1>2 DEF Sent
<1>4. \A a \in alerts : KeyOf(Sent(a)) = KeyOf(a)
  BY <1>3 DEF KeyOf
<1>5. \A a \in alerts : a.push = "pending" \/ a.push = "sent"
  BY <1>2 DEF PushState
<1>6. ASSUME NEW b \in alerts'
      PROVE  \E a \in alerts : /\ KeyOf(b) = KeyOf(a) /\ b.push = "sent"
                               /\ b = IF a.push = "pending" THEN Sent(a) ELSE a
  <2>1. CASE b \in alerts \ pending
    BY <1>5, <2>1
  <2>2. CASE b \in {Sent(a) : a \in pending}
    <3>1. PICK a \in pending : b = Sent(a)
      BY <2>2
    <3> QED BY <1>3, <1>4, <3>1
  <2> QED BY <1>1, <2>1, <2>2
<1>7. ASSUME NEW a \in alerts PROVE \E b \in alerts' : KeyOf(b) = KeyOf(a) /\ b.push = "sent"
  <2>1. CASE a \in pending
    <3>1. Sent(a) \in {Sent(x) : x \in pending}
      BY <2>1
    <3>2. Sent(a) \in alerts'
      BY <1>1, <3>1
    <3> QED BY <1>3, <1>4, <3>2
  <2>2. CASE a \notin pending
    <3>1. a.push = "sent"
      BY <1>5, <2>2
    <3> QED BY <1>1, <2>2, <3>1
  <2> QED BY <2>1, <2>2
<1>8. flushes'[f] = {<<a.to, a.at>> : a \in pending}
      /\ \A g \in Flusher \ {f} : flushes'[g] = flushes[g]
  BY <1>1, <1>2
<1>9. \A k \in flushes'[f] : \E a \in alerts : KeyOf(a) = k /\ a.push = "pending"
  BY <1>8 DEF KeyOf
<1> QED BY <1>1, <1>6, <1>7, <1>8, <1>9

(* Claiming: what is claimed was pending, so nobody held it and it had not   *)
(* buzzed.                                                                   *)
LEMMA ClaimKeeps ==
    ASSUME BuzzInv, Shaped', NEW f \in Flusher, ClaimAlerts(f)
    PROVE  BuzzInv'
<1> DEFINE Fresh(k) == \E a \in alerts : KeyOf(a) = k /\ a.push = "pending"
<1>0. /\ Shaped /\ OneAlert /\ ClaimedOnce /\ HeldHasAlert /\ BuzzedWasClaimed /\ BuzzesOnce
      /\ flushes \in [Flusher -> SUBSET Key] /\ flushes' \in [Flusher -> SUBSET Key]
  BY DEF BuzzInv, Shaped, AlertTypeOK
<1>1. /\ \A b \in alerts' : \E a \in alerts :
             /\ KeyOf(b) = KeyOf(a) /\ b.push = "sent"
             /\ b = IF a.push = "pending" THEN Sent(a) ELSE a
      /\ \A a \in alerts : \E b \in alerts' : KeyOf(b) = KeyOf(a) /\ b.push = "sent"
      /\ \A k \in flushes'[f] : Fresh(k)
      /\ \A g \in Flusher \ {f} : flushes'[g] = flushes[g]
      /\ buzzes' = buzzes
  BY <1>0, ClaimEffect
<1>2. ASSUME NEW k, Fresh(k), NEW g \in Flusher PROVE k \notin flushes[g]
  BY <1>0, <1>2 DEF ClaimedOnce
<1>3. ASSUME NEW k \in Key, Fresh(k) PROVE buzzes[k] = 0
  <2>1. PICK a \in alerts : KeyOf(a) = k /\ a.push = "pending"
    BY <1>3
  <2>2. \A b \in alerts : KeyOf(b) = k => b.push # "sent"
    BY <1>0, <2>1 DEF OneAlert
  <2> QED BY <1>0, <2>2 DEF BuzzedWasClaimed
<1>4. OneAlert'
  <2>1. ASSUME NEW b \in alerts', NEW c \in alerts', KeyOf(b) = KeyOf(c) PROVE b = c
    BY <1>0, <1>1, <2>1 DEF OneAlert
  <2>2. \A b, c \in alerts' : KeyOf(b) = KeyOf(c) => b = c
    BY <2>1
  <2> QED BY <2>2 DEF OneAlert, KeyOf
<1>5. ClaimedOnce'
  <2>1. ASSUME NEW g \in Flusher, NEW k \in flushes'[g]
        PROVE  /\ buzzes'[k] = 0
               /\ \A h \in Flusher : k \in flushes'[h] => h = g
               /\ \A b \in alerts' : b.push = "sent"
    <3>1. \A b \in alerts' : b.push = "sent"
      BY <1>1
    <3>2. CASE g = f
      <4>1. Fresh(k) /\ k \in Key
        BY <1>0, <1>1, <3>2
      <4> HIDE DEF Fresh
      <4> QED BY <1>1, <1>2, <1>3, <3>1, <3>2, <4>1
    <3>3. CASE g # f
      <4>1. k \in flushes[g]
        BY <1>1, <3>3
      <4>2. ~Fresh(k)
        BY <1>2, <4>1
      <4> HIDE DEF Fresh
      <4>3. buzzes[k] = 0 /\ \A h \in Flusher : k \in flushes[h] => h = g
        BY <1>0, <4>1 DEF ClaimedOnce
      <4> QED BY <1>1, <3>1, <4>2, <4>3
    <3> QED BY <3>2, <3>3
  <2> QED BY <2>1 DEF ClaimedOnce, KeyOf
<1>6. HeldHasAlert'
  <2>1. ASSUME NEW g \in Flusher, NEW k \in flushes'[g] PROVE \E b \in alerts' : KeyOf(b) = k
    <3>1. \E a \in alerts : KeyOf(a) = k
      BY <1>0, <1>1 DEF HeldHasAlert
    <3> QED BY <1>1, <3>1
  <2> QED BY <2>1 DEF HeldHasAlert, KeyOf
<1>7. BuzzedWasClaimed'
  <2>1. ASSUME NEW k \in Key, buzzes[k] # 0
        PROVE  \E b \in alerts' : KeyOf(b) = k /\ b.push = "sent"
    BY <1>0, <1>1, <2>1 DEF BuzzedWasClaimed
  <2> QED BY <1>1, <2>1 DEF BuzzedWasClaimed, KeyOf
<1>8. BuzzesOnce'
  BY <1>0, <1>1 DEF BuzzesOnce
<1> QED BY <1>4, <1>5, <1>6, <1>7, <1>8 DEF BuzzInv

(* Telling somebody adds an alert nobody has, so no flush holds it.          *)
LEMMA TellKeeps ==
    ASSUME BuzzInv, Shaped', NEW s \in Server, Tell(s)
    PROVE  BuzzInv'
<1> DEFINE new == [to |-> jobs[s].to, at |-> jobs[s].at, push |-> "pending"]
<1>0. Shaped /\ OneAlert /\ ClaimedOnce /\ HeldHasAlert /\ BuzzedWasClaimed /\ BuzzesOnce
  BY DEF BuzzInv
<1>1. /\ UNCHANGED <<flushes, buzzes>>
      /\ \/ alerts' = alerts
         \/ alerts' = alerts \cup {new} /\ ~Told(jobs[s].to, jobs[s].at)
  BY DEF Tell
<1>2. CASE alerts' = alerts
  BY <1>0, <1>1, <1>2
     DEF BuzzInv, OneAlert, ClaimedOnce, HeldHasAlert, BuzzedWasClaimed, BuzzesOnce, KeyOf
<1>3. CASE alerts' = alerts \cup {new} /\ ~Told(jobs[s].to, jobs[s].at)
  <2>1. KeyOf(new) = <<jobs[s].to, jobs[s].at>>
    BY DEF KeyOf
  <2> HIDE DEF new
  <2>2. \A a \in alerts : KeyOf(a) # KeyOf(new)
    BY <1>3, <2>1 DEF Told, KeyOf
  <2>3. \A g \in Flusher : KeyOf(new) \notin flushes[g]
    BY <1>0, <2>2 DEF HeldHasAlert
  <2>4. OneAlert'
    <3>1. \A a, b \in alerts' : KeyOf(a) = KeyOf(b) => a = b
      BY <1>0, <1>3, <2>2 DEF OneAlert
    <3> QED BY <3>1 DEF OneAlert, KeyOf
  <2>5. ClaimedOnce'
    <3>1. \A g \in Flusher : \A k \in flushes[g] : \A a \in alerts' :
            KeyOf(a) = k => a.push = "sent"
      BY <1>0, <1>3, <2>3 DEF ClaimedOnce
    <3> QED BY <1>0, <1>1, <3>1 DEF ClaimedOnce, KeyOf
  <2>6. HeldHasAlert' /\ BuzzedWasClaimed' /\ BuzzesOnce'
    BY <1>0, <1>1, <1>3 DEF HeldHasAlert, BuzzedWasClaimed, BuzzesOnce, KeyOf
  <2> QED BY <2>4, <2>5, <2>6 DEF BuzzInv
<1> QED BY <1>1, <1>2, <1>3

(* Buzzing: only the flush that claimed the alert holds it, and lets it go.  *)
LEMMA BuzzKeeps ==
    ASSUME BuzzInv, Shaped', NEW f \in Flusher, NEW k \in Key, PushBuzzes(f, k)
    PROVE  BuzzInv'
<1>0. /\ Shaped /\ OneAlert /\ ClaimedOnce /\ HeldHasAlert /\ BuzzedWasClaimed /\ BuzzesOnce
      /\ flushes \in [Flusher -> SUBSET Key] /\ buzzes \in [Key -> Nat]
  BY DEF BuzzInv, Shaped, AlertTypeOK
<1>1. /\ k \in flushes[f] /\ alerts' = alerts
      /\ flushes'[f] = flushes[f] \ {k} /\ \A g \in Flusher \ {f} : flushes'[g] = flushes[g]
      /\ buzzes'[k] = buzzes[k] + 1 /\ \A j \in Key \ {k} : buzzes'[j] = buzzes[j]
  BY <1>0 DEF PushBuzzes
<1>2. buzzes[k] = 0 /\ \E a \in alerts : KeyOf(a) = k /\ a.push = "sent"
  BY <1>0, <1>1 DEF ClaimedOnce, HeldHasAlert
<1>3. \A g \in Flusher : k \notin flushes'[g] /\ flushes'[g] \subseteq flushes[g]
  BY <1>0, <1>1 DEF ClaimedOnce
<1>4. ClaimedOnce'
  <2>1. ASSUME NEW g \in Flusher, NEW j \in flushes'[g]
        PROVE  /\ buzzes'[j] = 0
               /\ \A h \in Flusher : j \in flushes'[h] => h = g
               /\ \A a \in alerts : KeyOf(a) = j => a.push = "sent"
    <3>1. j # k /\ j \in flushes[g] /\ j \in Key
      BY <1>0, <1>3
    <3> QED BY <1>0, <1>1, <1>3, <3>1 DEF ClaimedOnce
  <2> QED BY <1>1, <2>1 DEF ClaimedOnce, KeyOf
<1>5. OneAlert' /\ HeldHasAlert'
  BY <1>0, <1>1, <1>3 DEF OneAlert, HeldHasAlert, KeyOf
<1>6. BuzzedWasClaimed'
  BY <1>0, <1>1, <1>2 DEF BuzzedWasClaimed, KeyOf
<1>7. BuzzesOnce'
  BY <1>0, <1>1, <1>2 DEF BuzzesOnce
<1> QED BY <1>4, <1>5, <1>6, <1>7 DEF BuzzInv

(* What only lets go of alerts, or touches none, keeps it.                   *)
LEMMA LettingGo ==
    ASSUME BuzzInv, Shaped', UNCHANGED <<alerts, buzzes>>,
           \A g \in Flusher : flushes'[g] \subseteq flushes[g]
    PROVE  BuzzInv'
BY DEF BuzzInv, OneAlert, ClaimedOnce, HeldHasAlert, BuzzedWasClaimed, BuzzesOnce, KeyOf

LEMMA BuzzInvStep == BuzzInv /\ [AlertNext]_alertVars => BuzzInv'
<1> SUFFICES ASSUME BuzzInv, [AlertNext]_alertVars PROVE BuzzInv'
  OBVIOUS
<1>0. Shaped' /\ flushes \in [Flusher -> SUBSET Key]
  BY ShapedStep DEF BuzzInv, Shaped, AlertTypeOK
<1>1. ASSUME NEW f \in Flusher, ClaimAlerts(f) PROVE BuzzInv'
  BY <1>0, <1>1, ClaimKeeps
<1>2. ASSUME NEW s \in Server, Tell(s) PROVE BuzzInv'
  BY <1>0, <1>2, TellKeeps
<1>3. ASSUME NEW f \in Flusher, NEW k \in Key, PushBuzzes(f, k) PROVE BuzzInv'
  BY <1>0, <1>3, BuzzKeeps
<1>4. ASSUME NEW f \in Flusher, NEW k \in Key, PushHeldBack(f, k) PROVE BuzzInv'
  <2>1. \A g \in Flusher : flushes'[g] \subseteq flushes[g]
    BY <1>0, <1>4 DEF PushHeldBack
  <2> QED BY <1>0, <1>4, <2>1, LettingGo DEF PushHeldBack
<1>5. ASSUME NEW f \in Flusher, FlushCrash(f) PROVE BuzzInv'
  <2>1. \A g \in Flusher : flushes'[g] \subseteq flushes[g]
    BY <1>0, <1>5 DEF FlushCrash
  <2> QED BY <1>0, <1>5, <2>1, LettingGo DEF FlushCrash
<1>6. ASSUME UNCHANGED <<alerts, flushes, buzzes>> PROVE BuzzInv'
  BY <1>0, <1>6, LettingGo
<1> QED BY <1>1, <1>2, <1>3, <1>4, <1>5, <1>6
        DEF AlertNext, alertVars, ReadDue, MarkAlerted, JobCrash, SetFollowUp, GiveLead, Leave,
            Rejoin, TimePasses

(* Nobody's phone buzzes twice for one time, however many servers look and   *)
(* however many flushes push at once, stop and start again.                  *)
THEOREM NobodyBuzzedTwice == AlertSpec => []BuzzesOnce
<1>1. BuzzInv => BuzzesOnce
  BY DEF BuzzInv
<1> QED BY <1>1, BuzzInvInit, BuzzInvStep, PTL DEF AlertSpec
=============================================================================
