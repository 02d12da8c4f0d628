------------------------------- MODULE Alerts -------------------------------
(* "Follow-up due": every server looks each minute for a lead whose time has *)
(* come, tells whoever has it, and only then marks the lead; phones are      *)
(* buzzed afterwards by whichever flush claims the alert.  Times are numbers *)
(* within a day (no alert waits a day and expires); 0 is none.               *)
EXTENDS Naturals

CONSTANTS
    Server,     \* each runs one schedule at a time
    Flusher,    \* pushes going on, several in one server too
    Staff,      \* who may leave the business and come back
    Owner,      \* who stays
    NoOne,      \* nobody
    LastTime,   \* bound: the latest time
    Unhurried   \* bound: nobody leaves while an alert to them is being written

ASSUME AlertAssumption ==
    /\ Owner \notin Staff /\ NoOne \notin Staff \cup {Owner}
    /\ LastTime \in Nat /\ Unhurried \in BOOLEAN

VARIABLES
    lead,       \* the lead: its follow-up time, and the one it was alerted for
    team,       \* who is in the business
    now,
    alerts,     \* notifications: to whom, for which time, and push_state
    jobs,       \* what each server's schedule read, and how far it is
    flushes,    \* the alerts each flush claimed and has still to push
    buzzes      \* how often a person's phone buzzed for a time

alertVars == <<lead, team, now, alerts, jobs, flushes, buzzes>>

Everyone == Staff \cup {Owner}
Time == 1 .. LastTime
Key == Everyone \X Time
PushState == {"pending", "sent"}
NoJob == [pc |-> "idle", at |-> 0, to |-> NoOne]

AlertInit ==
    /\ lead = [owner |-> Owner, at |-> 0, marked |-> 0]
    /\ team = Everyone /\ now = 1 /\ alerts = {}
    /\ jobs = [s \in Server |-> NoJob]
    /\ flushes = [f \in Flusher |-> {}]
    /\ buzzes = [k \in Key |-> 0]

-----------------------------------------------------------------------------
(* followUps                                                                 *)

(* salesRecipients: whoever has it, or the owner when they left.  A lead     *)
(* nobody has alerts the owner too, so it is the owner's here.               *)
Recipient == IF lead.owner \in team THEN lead.owner ELSE Owner

(* Who is in the business is read after the lead is; one step, since leaving *)
(* in between comes to the same as leaving just before.                      *)
ReadDue(s) ==
    /\ jobs[s].pc = "idle"
    /\ lead.at \in 1 .. now /\ lead.marked # lead.at
    /\ jobs' = [jobs EXCEPT ![s] = [pc |-> "tell", at |-> lead.at, to |-> Recipient]]
    /\ UNCHANGED <<lead, team, now, alerts, flushes, buzzes>>

(* Mutant: the key is not looked at. *)
NeverTold(p, at) == FALSE

(* notifications_dedupe_uniq *)
Told(p, at) == \E a \in alerts : a.to = p /\ a.at = at

(* notify skips who is no longer in the business.                            *)
Tell(s) ==
    LET to == jobs[s].to
        at == jobs[s].at
    IN
    /\ jobs[s].pc = "tell"
    /\ alerts' = IF to \in team /\ ~Told(to, at)
                 THEN alerts \cup {[to |-> to, at |-> at, push |-> "pending"]} ELSE alerts
    /\ jobs' = [jobs EXCEPT ![s].pc = "mark", ![s].to = NoOne]
    /\ UNCHANGED <<lead, team, now, flushes, buzzes>>

(* Mutant: whatever the lead's time is by now. *)
MarkNow(s) == lead.at

MarkTime(s) == jobs[s].at

MarkAlerted(s) ==
    /\ jobs[s].pc = "mark"
    /\ lead' = [lead EXCEPT !.marked = MarkTime(s)]
    /\ jobs' = [jobs EXCEPT ![s] = NoJob]
    /\ UNCHANGED <<team, now, alerts, flushes, buzzes>>

(* The server stops, or a statement throws.                                  *)
JobCrash(s) ==
    /\ jobs[s].pc # "idle"
    /\ jobs' = [jobs EXCEPT ![s] = NoJob]
    /\ UNCHANGED <<lead, team, now, alerts, flushes, buzzes>>

-----------------------------------------------------------------------------
(* flushPush                                                                 *)

(* Mutant: claimed alerts go on waiting until they are pushed. *)
Waiting(a) == a

Sent(a) == [a EXCEPT !.push = "sent"]

ClaimAlerts(f) ==
    LET pending == {a \in alerts : a.push = "pending"} IN
    /\ flushes[f] = {} /\ pending # {}
    /\ alerts' = (alerts \ pending) \cup {Sent(a) : a \in pending}
    /\ flushes' = [flushes EXCEPT ![f] = {<<a.to, a.at>> : a \in pending}]
    /\ UNCHANGED <<lead, team, now, jobs, buzzes>>

PushBuzzes(f, k) ==
    /\ k \in flushes[f]
    /\ buzzes' = [buzzes EXCEPT ![k] = @ + 1]
    /\ flushes' = [flushes EXCEPT ![f] = @ \ {k}]
    /\ UNCHANGED <<lead, team, now, alerts, jobs>>

(* Quiet hours, no phone, or no phone that takes it.  The row says so, which  *)
(* nothing reads again: it stays sent here.                                  *)
PushHeldBack(f, k) ==
    /\ k \in flushes[f]
    /\ flushes' = [flushes EXCEPT ![f] = @ \ {k}]
    /\ UNCHANGED <<lead, team, now, alerts, jobs, buzzes>>

FlushCrash(f) ==
    /\ flushes[f] # {}
    /\ flushes' = [flushes EXCEPT ![f] = {}]
    /\ UNCHANGED <<lead, team, now, alerts, jobs, buzzes>>

-----------------------------------------------------------------------------
(* updateLead, removeMember and the clock                                    *)

(* 0 also when the lead is won or lost, until it is reopened and given one.  *)
SetFollowUp(at) ==
    /\ at # lead.at
    /\ lead' = [lead EXCEPT !.at = at]
    /\ UNCHANGED <<team, now, alerts, jobs, flushes, buzzes>>

GiveLead(p) ==
    /\ p # lead.owner /\ p \in team
    /\ lead' = [lead EXCEPT !.owner = p]
    /\ UNCHANGED <<team, now, alerts, jobs, flushes, buzzes>>

Leave(p) ==
    /\ p \in team
    /\ Unhurried => \A s \in Server : ~(jobs[s].pc = "tell" /\ jobs[s].to = p)
    /\ team' = team \ {p}
    /\ UNCHANGED <<lead, now, alerts, jobs, flushes, buzzes>>

Rejoin(p) ==
    /\ p \notin team
    /\ team' = team \cup {p}
    /\ UNCHANGED <<lead, now, alerts, jobs, flushes, buzzes>>

TimePasses ==
    /\ now < LastTime /\ now' = now + 1
    /\ UNCHANGED <<lead, team, alerts, jobs, flushes, buzzes>>

AlertNext ==
    \/ \E s \in Server : ReadDue(s) \/ Tell(s) \/ MarkAlerted(s) \/ JobCrash(s)
    \/ \E f \in Flusher : \/ ClaimAlerts(f) \/ FlushCrash(f)
                          \/ \E k \in Key : PushBuzzes(f, k) \/ PushHeldBack(f, k)
    \/ \E at \in 0 .. LastTime : SetFollowUp(at)
    \/ \E p \in Everyone : GiveLead(p)
    \/ \E p \in Staff : Leave(p) \/ Rejoin(p)
    \/ TimePasses

AlertSpec == AlertInit /\ [][AlertNext]_alertVars

(* The timer fires every minute, and a server that keeps being started again *)
(* does not stop at the same statement every time.                           *)
AlertFairness ==
    \A s \in Server : /\ WF_alertVars(ReadDue(s)) /\ WF_alertVars(MarkAlerted(s))
                      /\ SF_alertVars(Tell(s))

-----------------------------------------------------------------------------
(* Properties                                                                *)

AlertTypeOK ==
    /\ lead \in [owner : Everyone,
                 at : 0 .. LastTime, marked : 0 .. LastTime]
    /\ team \subseteq Everyone
    /\ now \in Nat
    /\ alerts \subseteq [to : Everyone, at : Time, push : PushState]
    /\ jobs \in [Server -> [pc : {"idle", "tell", "mark"}, at : 0 .. LastTime,
                            to : Everyone \cup {NoOne}]]
    /\ flushes \in [Flusher -> SUBSET Key]
    /\ buzzes \in [Key -> Nat]

(* A time a lead is marked with was told to somebody: a follow-up moved, a   *)
(* lead given on or a person gone while a server was at it is not left       *)
(* marked with nobody told.                                                  *)
MarkedMeansTold == lead.marked # 0 => \E p \in Everyone : Told(p, lead.marked)

(* A follow-up that has come due and stays is told to somebody in the end,   *)
(* whatever crashes, marks of earlier times and changes of hands come first. *)
DueIsTold ==
    \A t \in Time : lead.at = t /\ t <= now ~> lead.at # t \/ \E p \in Everyone : Told(p, t)

(* Servers that overlap, or start again after a crash between telling and    *)
(* marking, never buzz one person twice for one time.                        *)
BuzzesOnce == \A k \in Key : buzzes[k] <= 1
=============================================================================
