----------------------------- MODULE TaskProofs -----------------------------
(* Proofs about tasks: the copies of repeating ones (Repeats), for any number *)
(* of makers, rules and days, and the life of one (TaskLife), for any team,   *)
(* days and number of hand-ins.                                               *)
EXTENDS Repeats, TaskLife, TLAPS, WellFoundedInduction

(* The days a rule that starts on day f falls on up to day t, and the last.  *)
DaysFrom(r, f, t) == {d \in Falls[r] : f <= d /\ d <= t}

LastFrom(r, f, t) ==
    IF DaysFrom(r, f, t) = {} THEN 0
    ELSE CHOOSE d \in DaysFrom(r, f, t) : \A e \in DaysFrom(r, f, t) : e <= d

(* One of the copies cs of the rule has stood on that last day.              *)
HadCopy(cs, r, f, t) ==
    LastFrom(r, f, t) # 0 => \E c \in cs : c.rule = r /\ LastFrom(r, f, t) \in c.stood

FreshRules == \A r \in Rule : rules[r].state = "none" => rules[r].checked = 0

CheckedHad == \A r \in Rule : HadCopy(copies, r, rules[r].from, rules[r].checked)

(* What a maker has still to do was right when it was read, and what it made *)
(* is right to be marked.                                                    *)
MakersKnow ==
    \A m \in Maker :
        /\ \A r \in makers[m].todo :
              /\ rules[r].state # "none" /\ makers[m].read[r] <= makers[m].today
              /\ HadCopy(copies, r, rules[r].from, makers[m].read[r])
        /\ \A r \in makers[m].made :
              r \in makers[m].todo /\ HadCopy(copies, r, rules[r].from, makers[m].today)

DueStood == \A c \in copies : c.due \in c.stood

RepeatInv == RepeatTypeOK /\ FreshRules /\ CheckedHad /\ MakersKnow /\ DueStood

(* Once a copy was moved its rule is checked for its day, and no maker works *)
(* from before that.                                                         *)
MovedSettled ==
    \A c \in copies : c.due # c.made =>
        /\ c.made <= rules[c.rule].checked
        /\ \A m \in Maker : c.rule \in makers[m].todo =>
              c.made <= makers[m].read[c.rule] /\ c.made <= makers[m].today

OnceInv == RepeatInv /\ MovedSettled /\ OnceADay

MakerRow == [called : BOOLEAN, todo : SUBSET Rule, made : SUBSET Rule, read : [Rule -> Nat], today : Nat]

RuleRow == [state : {"none", "on", "stopped"}, from : Nat, checked : Nat]

-----------------------------------------------------------------------------
(* Days                                                                      *)

(* Days have a last one, for there is a least number of days left.           *)
LEMMA LeastLeft ==
    ASSUME NEW T, T \subseteq Nat, T # {}
    PROVE  \E x \in T : \A y \in T : x <= y
<1> DEFINE R == OpToRel(<, Nat)
<1>1. \A x, y \in Nat : <<y, x>> \in R <=> y < x
  BY DEF OpToRel
<1>2. IsWellFoundedOn(R, Nat)
  BY NatLessThanWellFounded
<1> HIDE DEF R
<1>3. PICK x \in T : \A y \in T : ~(<<y, x>> \in R)
  BY <1>2, WFMin
<1>4. \A y \in T : ~(y < x)
  BY <1>1, <1>3
<1> QED BY <1>4

LEMMA LastThereIs ==
    ASSUME NEW T, T \subseteq Nat, T # {}, NEW t \in Nat, \A d \in T : d <= t
    PROVE  \E d \in T : \A e \in T : e <= d
<1> DEFINE left == {t - d : d \in T}
<1>1. left \subseteq Nat /\ left # {}
  <2>1. PICK d \in T : TRUE
    OBVIOUS
  <2>2. t - d \in left
    BY <2>1
  <2> QED BY <2>2
<1> HIDE DEF left
<1>2. PICK x \in left : \A y \in left : x <= y
  BY <1>1, LeastLeft
<1>3. PICK d \in T : x = t - d
  BY DEF left
<1>4. ASSUME NEW e \in T PROVE e <= d
  <2>1. t - e \in left
    BY DEF left
  <2>2. t - d <= t - e
    BY <1>2, <1>3, <2>1
  <2> QED BY <2>2
<1> QED BY <1>4

LEMMA LastFromIs ==
    ASSUME NEW r \in Rule, NEW f \in Nat, NEW t \in Nat
    PROVE  /\ LastFrom(r, f, t) \in Nat
           /\ \/ LastFrom(r, f, t) = 0 /\ DaysFrom(r, f, t) = {}
              \/ /\ LastFrom(r, f, t) \in DaysFrom(r, f, t)
                 /\ \A e \in DaysFrom(r, f, t) : e <= LastFrom(r, f, t)
<1> DEFINE T == DaysFrom(r, f, t)
<1>1. T \subseteq Nat /\ \A d \in T : d <= t
  BY RepeatAssumption DEF DaysFrom
<1>2. CASE T = {}
  BY <1>2 DEF LastFrom
<1>3. CASE T # {}
  <2>1. \E d \in T : \A e \in T : e <= d
    BY <1>1, <1>3, LastThereIs
  <2>2. LastFrom(r, f, t) = CHOOSE d \in T : \A e \in T : e <= d
    BY <1>3 DEF LastFrom
  <2> HIDE DEF T
  <2>3. LastFrom(r, f, t) \in T /\ \A e \in T : e <= LastFrom(r, f, t)
    BY <2>1, <2>2
  <2> QED BY <1>1, <2>3 DEF T
<1> QED BY <1>2, <1>3

(* Before the first day there is none.                                       *)
LEMMA LastOfNone ==
    ASSUME NEW r \in Rule, NEW f \in Nat
    PROVE  LastFrom(r, f, 0) = 0
<1>1. DaysFrom(r, f, 0) = {}
  BY RepeatAssumption DEF DaysFrom
<1> QED BY <1>1 DEF LastFrom

(* A last day that an earlier look had reached was the last one then.        *)
LEMMA LastReached ==
    ASSUME NEW r \in Rule, NEW f \in Nat, NEW t \in Nat, NEW u \in Nat,
           t <= u, LastFrom(r, f, u) <= t, LastFrom(r, f, u) # 0
    PROVE  LastFrom(r, f, t) = LastFrom(r, f, u)
<1> DEFINE d == LastFrom(r, f, u)
<1>1. d \in DaysFrom(r, f, u) /\ \A e \in DaysFrom(r, f, u) : e <= d
  BY LastFromIs
<1>2. d \in DaysFrom(r, f, t) /\ DaysFrom(r, f, t) \subseteq DaysFrom(r, f, u)
  BY <1>1, RepeatAssumption DEF DaysFrom
<1>3. /\ LastFrom(r, f, t) \in DaysFrom(r, f, t)
      /\ \A e \in DaysFrom(r, f, t) : e <= LastFrom(r, f, t)
  BY <1>2, LastFromIs
<1>4. d <= LastFrom(r, f, t) /\ LastFrom(r, f, t) <= d /\ d \in Nat /\ LastFrom(r, f, t) \in Nat
  BY <1>1, <1>2, <1>3, LastFromIs
<1> HIDE DEF d
<1> QED BY <1>4 DEF d

LEMMA LatestIs == \A r \in Rule : \A t : Latest(r, t) = LastFrom(r, rules[r].from, t)
BY DEF Latest, LastFrom, DaysFrom

-----------------------------------------------------------------------------
(* Rows                                                                      *)

LEMMA RepeatRows ==
    ASSUME RepeatTypeOK
    PROVE  /\ rules \in [Rule -> RuleRow] /\ \A r \in Rule : rules[r] \in RuleRow
           /\ makers \in [Maker -> MakerRow] /\ \A m \in Maker : makers[m] \in MakerRow
           /\ \A m \in Maker : /\ makers[m].todo \subseteq Rule /\ makers[m].made \subseteq Rule
                               /\ makers[m].today \in Nat
                               /\ \A r \in Rule : makers[m].read[r] \in Nat
BY DEF RepeatTypeOK, RuleRow, MakerRow

(* Resting only drops what there was to do.                                  *)
LEMMA RestedIs ==
    ASSUME NEW w \in MakerRow
    PROVE  /\ Rested(w) \in MakerRow
           /\ \/ Rested(w) = w
              \/ w.todo = {} /\ Rested(w).todo = {} /\ Rested(w).made = {}
<1>1. NotMaking \in MakerRow /\ NotMaking.todo = {} /\ NotMaking.made = {}
  BY DEF NotMaking, MakerRow
<1> QED BY <1>1 DEF Rested

LEMMA RepeatInvInit == RepeatInit => OnceInv
<1> SUFFICES ASSUME RepeatInit PROVE OnceInv
  OBVIOUS
<1>1. RepeatTypeOK /\ FreshRules /\ MakersKnow /\ DueStood /\ MovedSettled /\ OnceADay
  BY DEF RepeatInit, NoRule, NotMaking, RepeatTypeOK, FreshRules, MakersKnow, DueStood,
         MovedSettled, OnceADay
<1>2. CheckedHad
  BY LastOfNone DEF RepeatInit, NoRule, CheckedHad, HadCopy
<1> QED BY <1>1, <1>2 DEF OnceInv, RepeatInv

-----------------------------------------------------------------------------
(* What each step does                                                       *)

LEMMA MakeEffect ==
    ASSUME RepeatInv, NEW m \in Maker, NEW r \in Rule, MakeCopy(m, r)
    PROVE  LET day == Latest(r, makers[m].today) IN
           /\ day \in Nat /\ r \in makers[m].todo
           /\ UNCHANGED <<rules, repeatDay>>
           /\ \/ copies' = copies /\ (ToMake(r, m) => CopyDue(r, day))
              \/ copies' = copies \cup {NewCopy(r, day)} /\ ToMake(r, m) /\ ~CopyDue(r, day)
           /\ ToMake(r, m) => day \in Nat \ {0} /\ NewCopy(r, day) \in Copy
           /\ makers'[m].made = {r} /\ makers'[m].todo = makers[m].todo
           /\ makers'[m].read = makers[m].read /\ makers'[m].today = makers[m].today
           /\ \A n \in Maker \ {m} : makers'[n] = makers[n]
           /\ RepeatTypeOK'
<1> DEFINE day == Latest(r, makers[m].today)
<1>0. /\ rules[r] \in RuleRow /\ makers \in [Maker -> MakerRow] /\ makers[m] \in MakerRow
      /\ makers[m].today \in Nat /\ makers[m].read[r] \in Nat
  BY RepeatRows DEF RepeatInv
<1>1. day \in Nat
  <2>1. rules[r].from \in Nat
    BY <1>0 DEF RuleRow
  <2>2. LastFrom(r, rules[r].from, makers[m].today) \in Nat
    BY <1>0, <2>1, LastFromIs
  <2> QED BY <2>2, LatestIs
<1>2. /\ copies' = IF ToMake(r, m) /\ ~CopyDue(r, day) THEN copies \cup {NewCopy(r, day)} ELSE copies
      /\ makers' = [makers EXCEPT ![m].made = {r}]
      /\ UNCHANGED <<rules, repeatDay>> /\ r \in makers[m].todo
  BY DEF MakeCopy
<1>3. ToMake(r, m) => day \in Nat \ {0}
  BY <1>0, <1>1 DEF ToMake
<1> HIDE DEF day
<1>4. ToMake(r, m) => NewCopy(r, day) \in Copy
  BY <1>3 DEF NewCopy, Copy
<1>5. /\ makers'[m].made = {r} /\ makers'[m].todo = makers[m].todo
      /\ makers'[m].read = makers[m].read /\ makers'[m].today = makers[m].today
      /\ \A n \in Maker \ {m} : makers'[n] = makers[n]
      /\ makers' \in [Maker -> MakerRow]
  BY <1>0, <1>2 DEF MakerRow
<1>6. RepeatTypeOK'
  BY <1>2, <1>4, <1>5 DEF RepeatInv, RepeatTypeOK, MakerRow
<1> QED BY <1>1, <1>2, <1>3, <1>4, <1>5, <1>6 DEF day

LEMMA MoveEffect ==
    ASSUME RepeatInv, NEW c \in copies, NEW to \in 0 .. LastRepeat, MoveCopy(c, to)
    PROVE  \E d \in Copy : /\ copies' = (copies \ {c}) \cup {d}
                           /\ d.rule = c.rule /\ d.made = c.made /\ d.due = to
                           /\ d.stood = c.stood \cup {to}
<1> DEFINE d == [c EXCEPT !.due = to, !.stood = @ \cup {to}]
<1>1. c \in Copy /\ to \in Nat
  BY RepeatAssumption DEF RepeatInv, RepeatTypeOK
<1>2. /\ d.rule = c.rule /\ d.made = c.made /\ d.due = to /\ d.stood = c.stood \cup {to}
      /\ d \in Copy
  BY <1>1 DEF Copy
<1>3. copies' = (copies \ {c}) \cup {d}
  BY DEF MoveCopy
<1> QED BY <1>2, <1>3

LEMMA DeleteEffect ==
    ASSUME RepeatInv, NEW c \in copies, DeleteCopy(c)
    PROVE  \E d \in Copy : /\ copies' = (copies \ {c}) \cup {d}
                           /\ d.rule = c.rule /\ d.made = c.made /\ d.due = c.due
                           /\ d.stood = c.stood
<1> DEFINE d == [c EXCEPT !.deleted = TRUE]
<1>1. c \in Copy
  BY DEF RepeatInv, RepeatTypeOK
<1>2. /\ d.rule = c.rule /\ d.made = c.made /\ d.due = c.due /\ d.stood = c.stood
      /\ d \in Copy
  BY <1>1 DEF Copy
<1>3. copies' = (copies \ {c}) \cup {d}
  BY DEF DeleteCopy
<1> QED BY <1>2, <1>3

(* Copies that come to be, or stand on further days, take none away.         *)
LEMMA HadStays ==
    ASSUME NEW cs, NEW ds, \A c \in cs : \E d \in ds : d.rule = c.rule /\ c.stood \subseteq d.stood
    PROVE  \A r, f, t : HadCopy(cs, r, f, t) => HadCopy(ds, r, f, t)
<1> SUFFICES ASSUME NEW r, NEW f, NEW t, HadCopy(cs, r, f, t), LastFrom(r, f, t) # 0
             PROVE  \E d \in ds : d.rule = r /\ LastFrom(r, f, t) \in d.stood
  BY DEF HadCopy
<1>1. PICK c \in cs : c.rule = r /\ LastFrom(r, f, t) \in c.stood
  BY DEF HadCopy
<1>2. PICK d \in ds : d.rule = c.rule /\ c.stood \subseteq d.stood
  OBVIOUS
<1> QED BY <1>1, <1>2

(* A step that leaves rules and makers alone and takes no copy away.         *)
LEMMA CopiesGrow ==
    ASSUME RepeatInv, RepeatTypeOK', UNCHANGED <<rules, makers>>, DueStood',
           \A c \in copies : \E d \in copies' : d.rule = c.rule /\ c.stood \subseteq d.stood
    PROVE  RepeatInv'
<1>1. \A r, f, t : HadCopy(copies, r, f, t) => HadCopy(copies', r, f, t)
  BY HadStays
<1>2. CheckedHad' /\ FreshRules'
  BY <1>1 DEF RepeatInv, CheckedHad, FreshRules
<1>3. MakersKnow'
  BY <1>1 DEF RepeatInv, MakersKnow
<1> QED BY <1>2, <1>3 DEF RepeatInv

(* After a maker looked, and made what was missing, the rule has had its     *)
(* copy for the last day up to the maker's today.                            *)
LEMMA MakeKeeps ==
    ASSUME RepeatInv, NEW m \in Maker, NEW r \in Rule, MakeCopy(m, r)
    PROVE  RepeatInv'
<1> DEFINE day == Latest(r, makers[m].today)
<1> DEFINE f == rules[r].from
<1>0. /\ f \in Nat /\ makers[m].today \in Nat /\ makers[m].read[r] \in Nat
      /\ \A n \in Maker : makers[n].todo \subseteq Rule /\ makers[n].made \subseteq Rule
  BY RepeatRows DEF RepeatInv, RuleRow
<1>1. /\ day \in Nat /\ r \in makers[m].todo
      /\ rules' = rules
      /\ \/ copies' = copies /\ (ToMake(r, m) => CopyDue(r, day))
         \/ copies' = copies \cup {NewCopy(r, day)} /\ ToMake(r, m) /\ ~CopyDue(r, day)
      /\ makers'[m].made = {r} /\ makers'[m].todo = makers[m].todo
      /\ makers'[m].read = makers[m].read /\ makers'[m].today = makers[m].today
      /\ \A n \in Maker \ {m} : makers'[n] = makers[n]
      /\ RepeatTypeOK'
  BY MakeEffect
<1>2. day = LastFrom(r, f, makers[m].today)
  BY LatestIs
<1> HIDE DEF day, f
<1>3. \A c \in copies : \E d \in copies' : d.rule = c.rule /\ c.stood \subseteq d.stood
  BY <1>1
<1>4. \A q, g, t : HadCopy(copies, q, g, t) => HadCopy(copies', q, g, t)
  BY <1>3, HadStays
<1>5. DueStood'
  <2>1. NewCopy(r, day).due \in NewCopy(r, day).stood
    BY DEF NewCopy
  <2> QED BY <1>1, <2>1 DEF RepeatInv, DueStood
<1>6. HadCopy(copies', r, f, makers[m].today)
  <2>1. CASE CopyDue(r, day)
    <3>1. PICK c \in copies : c.rule = r /\ c.due = day
      BY <2>1 DEF CopyDue
    <3>2. HadCopy(copies, r, f, makers[m].today)
      BY <1>2, <3>1 DEF HadCopy, RepeatInv, DueStood
    <3> QED BY <1>4, <3>2
  <2>2. CASE copies' = copies \cup {NewCopy(r, day)}
    <3>1. NewCopy(r, day).rule = r /\ day \in NewCopy(r, day).stood
      BY DEF NewCopy
    <3> QED BY <1>2, <2>2, <3>1 DEF HadCopy
  <2>3. CASE ~ToMake(r, m)
    <3>1. day <= makers[m].read[r]
      BY <1>0, <1>1, <2>3 DEF ToMake, day
    <3>2. makers[m].read[r] <= makers[m].today /\ HadCopy(copies, r, f, makers[m].read[r])
      BY <1>1 DEF RepeatInv, MakersKnow, f
    <3>3. day # 0 => LastFrom(r, f, makers[m].read[r]) = day
      BY <1>0, <1>2, <3>1, <3>2, LastReached
    <3>4. HadCopy(copies, r, f, makers[m].today)
      BY <1>2, <3>2, <3>3 DEF HadCopy
    <3> QED BY <1>4, <3>4
  <2> QED BY <1>1, <2>1, <2>2, <2>3
<1>7. CheckedHad' /\ FreshRules'
  BY <1>1, <1>4 DEF RepeatInv, CheckedHad, FreshRules
<1>8. MakersKnow'
  <2>1. ASSUME NEW n \in Maker, NEW q \in makers'[n].todo
        PROVE  /\ rules[q].state # "none" /\ makers'[n].read[q] <= makers'[n].today
               /\ HadCopy(copies', q, rules[q].from, makers'[n].read[q])
    <3>1. /\ makers'[n].todo = makers[n].todo /\ makers'[n].read = makers[n].read
          /\ makers'[n].today = makers[n].today
      BY <1>1
    <3> QED BY <1>4, <2>1, <3>1 DEF RepeatInv, MakersKnow
  <2>2. ASSUME NEW n \in Maker, NEW q \in makers'[n].made
        PROVE  q \in makers'[n].todo /\ HadCopy(copies', q, rules[q].from, makers'[n].today)
    <3>1. CASE n = m
      BY <1>1, <1>6, <2>2, <3>1 DEF f
    <3>2. CASE n # m
      BY <1>1, <1>4, <2>2, <3>2 DEF RepeatInv, MakersKnow
    <3> QED BY <3>1, <3>2
  <2> QED BY <1>1, <2>1, <2>2 DEF MakersKnow
<1> QED BY <1>1, <1>5, <1>7, <1>8 DEF RepeatInv

(* A maker that begins, or lets go of what it has to do.                     *)
LEMMA MakerKeeps ==
    ASSUME RepeatInv, RepeatTypeOK', UNCHANGED <<rules, copies>>, NEW m \in Maker,
           \A n \in Maker \ {m} : makers'[n] = makers[n], makers'[m].made = {},
           \A r \in makers'[m].todo :
              /\ r \in Rule /\ rules[r].state # "none"
              /\ makers'[m].read[r] = rules[r].checked /\ rules[r].checked <= makers'[m].today
    PROVE  RepeatInv'
<1>1. MakersKnow'
  <2>1. ASSUME NEW n \in Maker
        PROVE  /\ \A r \in makers'[n].todo :
                     /\ rules[r].state # "none" /\ makers'[n].read[r] <= makers'[n].today
                     /\ HadCopy(copies, r, rules[r].from, makers'[n].read[r])
               /\ \A r \in makers'[n].made :
                     r \in makers'[n].todo /\ HadCopy(copies, r, rules[r].from, makers'[n].today)
    <3>1. CASE n = m
      BY <3>1 DEF RepeatInv, CheckedHad
    <3>2. CASE n # m
      BY <3>2 DEF RepeatInv, MakersKnow
    <3> QED BY <3>1, <3>2
  <2> QED BY <2>1 DEF MakersKnow
<1> QED BY <1>1 DEF RepeatInv, FreshRules, CheckedHad, DueStood

LEMMA BeginKeeps ==
    ASSUME RepeatInv, NEW m \in Maker, BeginMaking(m)
    PROVE  /\ RepeatInv'
           /\ \A n \in Maker \ {m} : makers'[n] = makers[n]
           /\ \A r \in makers'[m].todo : /\ r \in Rule /\ makers'[m].read[r] = rules[r].checked
                                         /\ rules[r].checked <= makers'[m].today
<1> DEFINE begun == [called |-> FALSE, made |-> {}, today |-> repeatDay,
                     todo |-> {r \in Rule : rules[r].state = "on" /\ rules[r].checked < repeatDay},
                     read |-> [r \in Rule |-> rules[r].checked]]
<1>0. /\ \A r \in Rule : rules[r] \in RuleRow
      /\ makers \in [Maker -> MakerRow] /\ repeatDay \in Nat
  BY RepeatRows DEF RepeatInv, RepeatTypeOK
<1>1. begun \in MakerRow
  BY <1>0 DEF MakerRow, RuleRow
<1>2. \A r \in begun.todo : /\ r \in Rule /\ rules[r].state # "none"
                            /\ begun.read[r] = rules[r].checked /\ rules[r].checked <= begun.today
  BY <1>0 DEF RuleRow
<1>3. begun.today = repeatDay /\ begun.made = {}
  OBVIOUS
<1>4. makers' = [makers EXCEPT ![m] = Rested(begun)] /\ UNCHANGED <<rules, copies, repeatDay>>
  BY DEF BeginMaking
<1> HIDE DEF begun
<1>5. makers'[m] = Rested(begun) /\ \A n \in Maker \ {m} : makers'[n] = makers[n]
  BY <1>0, <1>4
<1>6. /\ Rested(begun) \in MakerRow
      /\ Rested(begun) = begun \/ (Rested(begun).todo = {} /\ Rested(begun).made = {})
  BY <1>1, RestedIs
<1>7. RepeatTypeOK'
  BY <1>0, <1>4, <1>6 DEF RepeatInv, RepeatTypeOK, MakerRow
<1>8. makers'[m].made = {}
      /\ \A r \in makers'[m].todo : /\ r \in Rule /\ rules[r].state # "none"
                                    /\ makers'[m].read[r] = rules[r].checked
                                    /\ rules[r].checked <= makers'[m].today
  BY <1>2, <1>3, <1>5, <1>6
<1>9. RepeatInv'
  BY <1>4, <1>5, <1>7, <1>8, MakerKeeps
<1> QED BY <1>5, <1>8, <1>9

LEMMA CrashKeeps ==
    ASSUME RepeatInv, NEW m \in Maker, MakerCrash(m)
    PROVE  RepeatInv' /\ makers'[m].todo = {} /\ \A n \in Maker \ {m} : makers'[n] = makers[n]
<1>1. makers \in [Maker -> MakerRow] /\ makers' = [makers EXCEPT ![m] = NotMaking]
      /\ UNCHANGED <<rules, copies, repeatDay>>
  BY RepeatRows DEF RepeatInv, MakerCrash
<1>2. NotMaking \in MakerRow /\ NotMaking.todo = {} /\ NotMaking.made = {}
  BY DEF NotMaking, MakerRow
<1>3. makers'[m] = NotMaking /\ \A n \in Maker \ {m} : makers'[n] = makers[n]
  BY <1>1
<1>4. RepeatTypeOK'
  BY <1>1, <1>2 DEF RepeatInv, RepeatTypeOK, MakerRow
<1>5. RepeatInv'
  BY <1>1, <1>2, <1>3, <1>4, MakerKeeps
<1> QED BY <1>2, <1>3, <1>5

(* A rule's own changes: nobody makes copies of one that is not there yet.   *)
LEMMA CreateKeeps ==
    ASSUME RepeatInv, NEW m \in Maker, NEW r \in Rule, CreateRepeat(m, r)
    PROVE  /\ RepeatInv' /\ copies' = copies /\ rules[r].state = "none"
           /\ \A q \in Rule \ {r} : rules'[q] = rules[q]
           /\ \A n \in Maker : makers'[n].todo = makers[n].todo /\ makers'[n].read = makers[n].read
                               /\ makers'[n].today = makers[n].today
<1>1. PICK from \in 1 .. LastRepeat :
        rules' = [rules EXCEPT ![r] = [state |-> "on", from |-> from, checked |-> 0]]
  BY DEF CreateRepeat
<1>2. /\ rules \in [Rule -> RuleRow] /\ makers \in [Maker -> MakerRow]
      /\ \A n \in Maker : makers[n] \in MakerRow /\ from \in Nat
  BY RepeatRows, RepeatAssumption DEF RepeatInv
<1>3. makers' = [makers EXCEPT ![m].called = TRUE] /\ UNCHANGED <<copies, repeatDay>>
      /\ rules[r].state = "none"
  BY DEF CreateRepeat
<1>4. /\ makers' \in [Maker -> MakerRow]
      /\ \A n \in Maker : /\ makers'[n].todo = makers[n].todo /\ makers'[n].read = makers[n].read
                          /\ makers'[n].made = makers[n].made /\ makers'[n].today = makers[n].today
  BY <1>2, <1>3 DEF MakerRow
<1>5. /\ rules' \in [Rule -> RuleRow] /\ rules'[r].state = "on" /\ rules'[r].checked = 0
      /\ rules'[r].from = from
      /\ \A q \in Rule \ {r} : rules'[q] = rules[q]
  BY <1>1, <1>2 DEF RuleRow
<1>6. RepeatTypeOK'
  BY <1>3, <1>4, <1>5 DEF RepeatInv, RepeatTypeOK, RuleRow, MakerRow
<1>7. FreshRules' /\ DueStood'
  BY <1>3, <1>5 DEF RepeatInv, FreshRules, DueStood
<1>8. HadCopy(copies, r, from, 0)
  BY <1>2, LastOfNone DEF HadCopy
<1>9. CheckedHad'
  BY <1>3, <1>5, <1>8 DEF RepeatInv, CheckedHad
<1>10. \A n \in Maker : makers[n].todo \subseteq Rule \ {r} /\ makers[n].made \subseteq makers[n].todo
  BY <1>2, <1>3 DEF RepeatInv, MakersKnow, MakerRow
<1>11. MakersKnow'
  BY <1>3, <1>4, <1>5, <1>10 DEF RepeatInv, MakersKnow
<1> QED BY <1>3, <1>4, <1>5, <1>6, <1>7, <1>9, <1>11 DEF RepeatInv

LEMMA MarkKeeps ==
    ASSUME RepeatInv, NEW m \in Maker, NEW r \in Rule, MarkChecked(m, r)
    PROVE  /\ RepeatInv' /\ copies' = copies
           /\ rules'[r].checked = makers[m].today /\ \A q \in Rule \ {r} : rules'[q] = rules[q]
           /\ r \in makers[m].todo
           /\ \A n \in Maker : /\ makers'[n].todo \subseteq makers[n].todo
                               /\ makers'[n].todo # {} => /\ makers'[n].read = makers[n].read
                                                         /\ makers'[n].today = makers[n].today
<1> DEFINE left == [makers[m] EXCEPT !.todo = @ \ {r}, !.made = {}]
<1>1. /\ rules \in [Rule -> RuleRow] /\ rules[r] \in RuleRow /\ makers \in [Maker -> MakerRow]
      /\ makers[m] \in MakerRow /\ makers[m].today \in Nat
      /\ \A n \in Maker : makers[n].todo \subseteq Rule
  BY RepeatRows DEF RepeatInv
<1>2. /\ rules' = [rules EXCEPT ![r].checked = makers[m].today]
      /\ makers' = [makers EXCEPT ![m] = Rested(left)]
      /\ UNCHANGED <<copies, repeatDay>> /\ r \in makers[m].made
  BY DEF MarkChecked
<1>3. /\ rules'[r].checked = makers[m].today /\ rules'[r].from = rules[r].from
      /\ rules'[r].state = rules[r].state /\ rules' \in [Rule -> RuleRow]
      /\ \A q \in Rule \ {r} : rules'[q] = rules[q]
  BY <1>1, <1>2 DEF RuleRow
<1>a. /\ left \in MakerRow /\ left.todo = makers[m].todo \ {r} /\ left.made = {}
      /\ left.read = makers[m].read /\ left.today = makers[m].today
  BY <1>1 DEF MakerRow
<1> HIDE DEF left
<1>b. /\ Rested(left) \in MakerRow
      /\ Rested(left) = left \/ (Rested(left).todo = {} /\ Rested(left).made = {})
  BY <1>a, RestedIs
<1>4. /\ makers'[m].todo \subseteq makers[m].todo /\ makers'[m].made = {}
      /\ makers'[m].todo # {} => /\ makers'[m].read = makers[m].read
                                /\ makers'[m].today = makers[m].today
      /\ \A n \in Maker \ {m} : makers'[n] = makers[n]
      /\ makers' \in [Maker -> MakerRow]
  BY <1>1, <1>2, <1>a, <1>b
<1>5. RepeatTypeOK'
  BY <1>2, <1>3, <1>4 DEF RepeatInv, RepeatTypeOK, RuleRow, MakerRow
<1>6. /\ r \in makers[m].todo /\ rules[r].state # "none"
      /\ HadCopy(copies, r, rules[r].from, makers[m].today)
  BY <1>2 DEF RepeatInv, MakersKnow
<1>7. CheckedHad' /\ FreshRules' /\ DueStood'
  BY <1>2, <1>3, <1>6 DEF RepeatInv, CheckedHad, FreshRules, DueStood
<1>8. \A q \in Rule : rules'[q].state = rules[q].state /\ rules'[q].from = rules[q].from
  BY <1>3
<1>9. \A n \in Maker : /\ makers'[n].todo \subseteq makers[n].todo
                       /\ makers'[n].todo # {} => /\ makers'[n].read = makers[n].read
                                                 /\ makers'[n].today = makers[n].today
  BY <1>4
<1>10. MakersKnow'
  <2>1. ASSUME NEW n \in Maker, NEW q \in makers'[n].todo
        PROVE  /\ rules'[q].state # "none" /\ makers'[n].read[q] <= makers'[n].today
               /\ HadCopy(copies, q, rules'[q].from, makers'[n].read[q])
    <3>1. q \in makers[n].todo /\ q \in Rule
      BY <1>1, <1>9
    <3> QED BY <1>8, <1>9, <3>1 DEF RepeatInv, MakersKnow
  <2>2. ASSUME NEW n \in Maker, NEW q \in makers'[n].made
        PROVE  q \in makers'[n].todo /\ HadCopy(copies, q, rules'[q].from, makers'[n].today)
    <3>1. n # m /\ makers'[n] = makers[n]
      BY <1>4, <2>2
    <3>2. q \in makers[n].todo /\ q \in Rule /\ HadCopy(copies, q, rules[q].from, makers[n].today)
      BY <1>1, <2>2, <3>1 DEF RepeatInv, MakersKnow
    <3> QED BY <1>8, <3>1, <3>2
  <2> QED BY <1>2, <2>1, <2>2 DEF MakersKnow
<1> QED BY <1>2, <1>3, <1>5, <1>6, <1>7, <1>9, <1>10 DEF RepeatInv

LEMMA StopKeeps ==
    ASSUME RepeatInv, NEW r \in Rule, StopRepeat(r)
    PROVE  RepeatInv' /\ \A q \in Rule : rules'[q].checked = rules[q].checked
<1>1. rules \in [Rule -> RuleRow] /\ rules[r] \in RuleRow
  BY RepeatRows DEF RepeatInv
<1>2. rules' = [rules EXCEPT ![r].state = "stopped"] /\ UNCHANGED <<copies, makers, repeatDay>>
      /\ rules[r].state = "on"
  BY DEF StopRepeat
<1>3. /\ rules' \in [Rule -> RuleRow]
      /\ \A q \in Rule : /\ rules'[q].from = rules[q].from /\ rules'[q].checked = rules[q].checked
                         /\ rules'[q].state = "none" <=> rules[q].state = "none"
  BY <1>1, <1>2 DEF RuleRow
<1>4. RepeatTypeOK'
  BY <1>2, <1>3 DEF RepeatInv, RepeatTypeOK, RuleRow
<1>5. CheckedHad' /\ FreshRules' /\ DueStood'
  BY <1>2, <1>3 DEF RepeatInv, CheckedHad, FreshRules, DueStood
<1>6. \A m \in Maker : makers[m].todo \subseteq Rule /\ makers[m].made \subseteq Rule
  BY RepeatRows DEF RepeatInv
<1>7. MakersKnow'
  BY <1>2, <1>3, <1>6 DEF RepeatInv, MakersKnow
<1> QED BY <1>3, <1>4, <1>5, <1>7 DEF RepeatInv

(* A copy changed is a copy of the same rule, made for the same day.         *)
LEMMA CopyKeeps ==
    ASSUME RepeatInv, NEW c \in copies, NEW d \in Copy, UNCHANGED <<rules, makers, repeatDay>>,
           copies' = (copies \ {c}) \cup {d}, d.rule = c.rule, d.made = c.made,
           c.stood \subseteq d.stood, d.due \in d.stood
    PROVE  RepeatInv'
<1>1. RepeatTypeOK' /\ DueStood'
  BY DEF RepeatInv, RepeatTypeOK, DueStood
<1>2. \A e \in copies : \E g \in copies' : g.rule = e.rule /\ e.stood \subseteq g.stood
  OBVIOUS
<1> QED BY <1>1, <1>2, CopiesGrow

LEMMA RepeatInvStep == RepeatInv /\ [RepeatNext]_repeatVars => RepeatInv'
<1> SUFFICES ASSUME RepeatInv, [RepeatNext]_repeatVars PROVE RepeatInv'
  OBVIOUS
<1>1. ASSUME NEW m \in Maker, NEW r \in Rule, CreateRepeat(m, r) PROVE RepeatInv'
  BY <1>1, CreateKeeps
<1>2. ASSUME NEW m \in Maker, BeginMaking(m) PROVE RepeatInv'
  BY <1>2, BeginKeeps
<1>3. ASSUME NEW m \in Maker, MakerCrash(m) PROVE RepeatInv'
  BY <1>3, CrashKeeps
<1>4. ASSUME NEW m \in Maker, NEW r \in Rule, MakeCopy(m, r) PROVE RepeatInv'
  BY <1>4, MakeKeeps
<1>5. ASSUME NEW m \in Maker, NEW r \in Rule, MarkChecked(m, r) PROVE RepeatInv'
  BY <1>5, MarkKeeps
<1>6. ASSUME NEW r \in Rule, StopRepeat(r) PROVE RepeatInv'
  BY <1>6, StopKeeps
<1>7. ASSUME NEW c \in copies, DeleteCopy(c) PROVE RepeatInv'
  <2>1. PICK d \in Copy : /\ copies' = (copies \ {c}) \cup {d}
                          /\ d.rule = c.rule /\ d.made = c.made /\ d.due = c.due
                          /\ d.stood = c.stood
    BY <1>7, DeleteEffect
  <2>2. c.due \in c.stood
    BY DEF RepeatInv, DueStood
  <2> QED BY <1>7, <2>1, <2>2, CopyKeeps DEF DeleteCopy
<1>8. ASSUME NEW c \in copies, NEW to \in 0 .. LastRepeat, MoveCopy(c, to) PROVE RepeatInv'
  <2>1. PICK d \in Copy : /\ copies' = (copies \ {c}) \cup {d}
                          /\ d.rule = c.rule /\ d.made = c.made /\ d.due = to
                          /\ d.stood = c.stood \cup {to}
    BY <1>8, MoveEffect
  <2> QED BY <1>8, <2>1, CopyKeeps DEF MoveCopy
<1>9. CASE RepeatDayPasses \/ UNCHANGED repeatVars
  BY <1>9 DEF RepeatDayPasses, repeatVars, RepeatInv, RepeatTypeOK, FreshRules, CheckedHad, MakersKnow,
              DueStood
<1> QED BY <1>1, <1>2, <1>3, <1>4, <1>5, <1>6, <1>7, <1>8, <1>9 DEF RepeatNext

(* Once a rule is checked for a day, the last day it fell on has had its     *)
(* copy, for any makers that overlap, sleep over midnight or crash.          *)
THEOREM NoDayMissed == RepeatSpec => []CheckedMeansMade
<1>1. RepeatInv => CheckedMeansMade
  BY LatestIs DEF RepeatInv, CheckedHad, HadCopy, CheckedMeansMade, StoodOn
<1>2. RepeatInit => RepeatInv
  BY RepeatInvInit DEF OnceInv
<1> QED BY <1>1, <1>2, RepeatInvStep, PTL DEF RepeatSpec

-----------------------------------------------------------------------------
(* Once a day                                                                *)

(* Rules and makers may go on, and the copies of the moved stay settled.     *)
LEMMA SettledStays ==
    ASSUME RepeatInv, MovedSettled, OnceADay, UNCHANGED copies,
           \A r \in Rule, n \in Nat : n <= rules[r].checked /\ n # 0
              /\ (\A m \in Maker : r \in makers[m].todo => n <= makers[m].read[r] /\ n <= makers[m].today)
              => /\ n <= rules'[r].checked
                 /\ \A m \in Maker : r \in makers'[m].todo =>
                       n <= makers'[m].read[r] /\ n <= makers'[m].today
    PROVE  MovedSettled' /\ OnceADay'
<1>1. \A c \in copies : c.rule \in Rule /\ c.made \in Nat /\ c.made # 0
  BY DEF RepeatInv, RepeatTypeOK, Copy
<1> QED BY <1>1 DEF MovedSettled, OnceADay

(* A day a maker makes a copy for has none: one made before and moved since  *)
(* was settled, and the maker works from that day on.                        *)
LEMMA MadeOnce ==
    ASSUME RepeatInv, MovedSettled, OnceADay, NEW m \in Maker, NEW r \in Rule, MakeCopy(m, r)
    PROVE  MovedSettled' /\ OnceADay'
<1> DEFINE day == Latest(r, makers[m].today)
<1>1. /\ day \in Nat /\ r \in makers[m].todo /\ rules' = rules
      /\ \/ copies' = copies
         \/ copies' = copies \cup {NewCopy(r, day)} /\ ToMake(r, m) /\ ~CopyDue(r, day)
      /\ \A n \in Maker : /\ makers'[n].todo = makers[n].todo /\ makers'[n].read = makers[n].read
                          /\ makers'[n].today = makers[n].today
  BY MakeEffect
<1>2. ToMake(r, m) => day > makers[m].read[r]
  BY DEF ToMake
<1> HIDE DEF day
<1>3. NewCopy(r, day).rule = r /\ NewCopy(r, day).made = day /\ NewCopy(r, day).due = day
  BY DEF NewCopy
<1>4. MovedSettled'
  BY <1>1, <1>3 DEF MovedSettled
<1>5. ASSUME ToMake(r, m), ~CopyDue(r, day), NEW c \in copies, c.rule = r PROVE c.made # day
  <2>1. c.due # day
    BY <1>5 DEF CopyDue
  <2>2. c.due # c.made => c.made <= makers[m].read[r]
    BY <1>1, <1>5 DEF MovedSettled
  <2>3. c.made \in Nat /\ makers[m].read[r] \in Nat
    BY RepeatRows DEF RepeatInv, RepeatTypeOK, Copy
  <2> QED BY <1>1, <1>2, <1>5, <2>1, <2>2, <2>3
<1>6. OnceADay'
  BY <1>1, <1>3, <1>5 DEF OnceADay
<1> QED BY <1>4, <1>6

(* A copy that keeps its rule and day, and is settled if it was moved.       *)
LEMMA ChangedOnce ==
    ASSUME MovedSettled, OnceADay, NEW c \in copies, NEW d, UNCHANGED <<rules, makers>>,
           copies' = (copies \ {c}) \cup {d}, d.rule = c.rule, d.made = c.made,
           \/ d.due = c.due
           \/ /\ d.made <= rules[d.rule].checked
              /\ \A m \in Maker : d.rule \notin makers[m].todo
    PROVE  MovedSettled' /\ OnceADay'
<1>1. \A e \in copies' : e = d \/ e \in copies \ {c}
  OBVIOUS
<1>2. MovedSettled'
  BY <1>1 DEF MovedSettled
<1>3. OnceADay'
  BY <1>1 DEF OnceADay
<1> QED BY <1>2, <1>3

LEMMA OnceInvStep ==
    ASSUME Settled = TRUE, OnceInv, [RepeatNext]_repeatVars PROVE OnceInv'
<1>0. RepeatInv /\ RepeatInv' /\ MovedSettled /\ OnceADay
  BY RepeatInvStep DEF OnceInv
<1> SUFFICES MovedSettled' /\ OnceADay'
  BY <1>0 DEF OnceInv
<1>a. /\ \A r \in Rule : rules[r].checked \in Nat
      /\ \A m \in Maker : makers[m].today \in Nat /\ \A r \in Rule : makers[m].read[r] \in Nat
  BY <1>0, RepeatRows DEF RepeatInv, RuleRow
<1> DEFINE Once == MovedSettled' /\ OnceADay'
<1>1. ASSUME NEW m \in Maker, NEW r \in Rule, CreateRepeat(m, r) PROVE Once
  <2>1. /\ rules[r].state = "none" /\ \A q \in Rule \ {r} : rules'[q] = rules[q]
        /\ \A n \in Maker : /\ makers'[n].todo = makers[n].todo /\ makers'[n].read = makers[n].read
                            /\ makers'[n].today = makers[n].today
        /\ copies' = copies
    BY <1>0, <1>1, CreateKeeps
  <2>2. rules[r].checked = 0
    BY <1>0, <2>1 DEF RepeatInv, FreshRules
  <2> QED BY <1>0, <2>1, <2>2, SettledStays
<1>2. ASSUME NEW m \in Maker, BeginMaking(m) PROVE Once
  <2>1. /\ copies' = copies /\ rules' = rules /\ \A n \in Maker \ {m} : makers'[n] = makers[n]
        /\ \A r \in makers'[m].todo : /\ r \in Rule /\ makers'[m].read[r] = rules[r].checked
                                      /\ rules[r].checked <= makers'[m].today
    BY <1>0, <1>2, BeginKeeps DEF BeginMaking
  <2>2. makers'[m].today \in Nat
    BY <1>0, RepeatRows DEF RepeatInv, RepeatTypeOK, MakerRow
  <2> QED BY <1>0, <1>a, <2>1, <2>2, SettledStays
<1>3. ASSUME NEW m \in Maker, MakerCrash(m) PROVE Once
  <2>1. /\ copies' = copies /\ rules' = rules
        /\ makers'[m].todo = {} /\ \A n \in Maker \ {m} : makers'[n] = makers[n]
    BY <1>0, <1>3, CrashKeeps DEF MakerCrash
  <2> QED BY <1>0, <2>1, SettledStays
<1>4. ASSUME NEW m \in Maker, NEW r \in Rule, MakeCopy(m, r) PROVE Once
  BY <1>0, <1>4, MadeOnce
<1>5. ASSUME NEW m \in Maker, NEW r \in Rule, MarkChecked(m, r) PROVE Once
  <2>1. /\ copies' = copies
        /\ rules'[r].checked = makers[m].today /\ \A q \in Rule \ {r} : rules'[q] = rules[q]
        /\ r \in makers[m].todo
        /\ \A n \in Maker : /\ makers'[n].todo \subseteq makers[n].todo
                            /\ makers'[n].todo # {} => /\ makers'[n].read = makers[n].read
                                                      /\ makers'[n].today = makers[n].today
    BY <1>0, <1>5, MarkKeeps
  <2> QED BY <1>0, <2>1, SettledStays
<1>6. ASSUME NEW r \in Rule, StopRepeat(r) PROVE Once
  <2>1. /\ copies' = copies /\ makers' = makers
        /\ \A q \in Rule : rules'[q].checked = rules[q].checked
    BY <1>0, <1>6, StopKeeps DEF StopRepeat
  <2> QED BY <1>0, <2>1, SettledStays
<1>7. ASSUME NEW c \in copies, DeleteCopy(c) PROVE Once
  <2>1. PICK d \in Copy : /\ copies' = (copies \ {c}) \cup {d}
                          /\ d.rule = c.rule /\ d.made = c.made /\ d.due = c.due
    BY <1>0, <1>7, DeleteEffect
  <2> QED BY <1>0, <1>7, <2>1, ChangedOnce DEF DeleteCopy
<1>8. ASSUME NEW c \in copies, NEW to \in 0 .. LastRepeat, MoveCopy(c, to) PROVE Once
  <2>1. PICK d \in Copy : /\ copies' = (copies \ {c}) \cup {d}
                          /\ d.rule = c.rule /\ d.made = c.made
    BY <1>0, <1>8, MoveEffect
  <2>2. /\ rules[c.rule].checked >= c.made /\ \A m \in Maker : c.rule \notin makers[m].todo
        /\ UNCHANGED <<rules, makers>>
    BY <1>8 DEF MoveCopy
  <2>3. c.rule \in Rule /\ c.made \in Nat
    BY <1>0 DEF RepeatInv, RepeatTypeOK, Copy
  <2>4. d.made <= rules[d.rule].checked
    BY <1>a, <2>1, <2>2, <2>3
  <2> QED BY <1>0, <2>1, <2>2, <2>4, ChangedOnce
<1>9. CASE RepeatDayPasses \/ UNCHANGED repeatVars
  BY <1>0, <1>9 DEF RepeatDayPasses, repeatVars, MovedSettled, OnceADay
<1> HIDE DEF Once
<1>10. Once
  BY <1>1, <1>2, <1>3, <1>4, <1>5, <1>6, <1>7, <1>8, <1>9 DEF RepeatNext, Once
<1> QED BY <1>10 DEF Once

(* No two copies are made for one day, for any number of makers and days, as *)
(* long as a copy's date is moved only once its rule is settled.             *)
THEOREM CopiedOnceADay ==
    ASSUME Settled = TRUE
    PROVE  RepeatSpec => []OnceADay
<1>1. OnceInv /\ [RepeatNext]_repeatVars => OnceInv'
  BY OnceInvStep
<1>2. OnceInv => OnceADay
  BY DEF OnceInv
<1> QED BY <1>1, <1>2, RepeatInvInit, PTL DEF RepeatSpec

-----------------------------------------------------------------------------
(* The life of one task                                                      *)

TaskRow == [status : TaskStatus \cup {"none", "deleted"}, giver : Person \cup {Nobody},
            assignee : Person \cup {Nobody}, priority : Priority \cup {"none"},
            needsCheck : BOOLEAN, due : Nat, completed : Nat, accepted : Person \cup {Nobody},
            revisions : Nat, moved : Nat]

(* Before it is given there is nothing; from then on it has a priority.      *)
Begun ==
    /\ task.status = "none" => task = NoTask /\ handins = <<>>
    /\ task.status # "none" => task.priority \in Priority

(* Work that was never sent back has no hand-in that was.                    *)
SentBackCounted == task.revisions = 0 => \A i \in DOMAIN handins : handins[i] # "sent_back"

TaskInv == TaskTypeOK /\ taskDay > 0 /\ Begun /\ SentBackCounted /\ ClockStops

(* What one step pays for work approved first time.                          *)
BonusEarned ==
    (\E e \in points' \ points : e.rule = "first_time")
        => /\ task'.accepted \in Boss \cup {task.giver}
           /\ \A i \in DOMAIN handins' : handins'[i] # "sent_back"

DecisionsKept == \A i \in DOMAIN handins : handins[i] # "none" => handins'[i] = handins[i]

LEMMA TaskInitInv == TaskInit => TaskInv
<1> SUFFICES ASSUME TaskInit PROVE TaskInv
  OBVIOUS
<1>1. NoTask \in TaskRow /\ NoTask.status = "none" /\ NoTask.revisions = 0
  BY DEF NoTask, TaskRow
<1>2. <<>> \in Seq(Decision)
  OBVIOUS
<1> QED BY <1>1, <1>2 DEF TaskInit, TaskInv, TaskTypeOK, TaskRow, Begun, SentBackCounted,
                         ClockStops, TaskStatus, Active

(* What deciding the hand-ins does to them.                                  *)
LEMMA DecidedFacts ==
    ASSUME handins \in Seq(Decision), NEW d \in Decision
    PROVE  /\ Decided(d) \in Seq(Decision)
           /\ DOMAIN Decided(d) = DOMAIN handins
           /\ \A i \in DOMAIN handins : /\ handins[i] # "none" => Decided(d)[i] = handins[i]
                                        /\ Decided(d)[i] \in {handins[i], d}
<1>1. handins \in [1 .. Len(handins) -> Decision] /\ Len(handins) \in Nat
      /\ DOMAIN handins = 1 .. Len(handins)
  OBVIOUS
<1>2. Decided(d) \in [1 .. Len(handins) -> Decision]
  BY <1>1 DEF Decided
<1>3. DOMAIN Decided(d) = DOMAIN handins
  BY DEF Decided
<1>4. \A i \in DOMAIN handins : /\ handins[i] # "none" => Decided(d)[i] = handins[i]
                                /\ Decided(d)[i] \in {handins[i], d}
  BY DEF Decided, Closed, Undecided
<1>5. Decided(d) \in Seq(Decision)
  BY <1>1, <1>2
<1> QED BY <1>3, <1>4, <1>5

LEMMA PayRules ==
    ASSUME NEW t, NEW kind, NEW source, NEW ruleSet, NEW e \in Pay(t, kind, source, ruleSet)
    PROVE  e.rule \in ruleSet
BY DEF Pay

(* Finished work pays its bonus only unreturned and checked.                 *)
LEMMA FinishedRules ==
    ASSUME NEW t, t.priority \in Priority, NEW late, NEW e \in Finished(t, late),
           e.rule = "first_time"
    PROVE  FirstTime(t)
<1>1. e.rule \in {DoneRule[t.priority], IF late THEN "late" ELSE "on_time"}
                  \cup (IF FirstTime(t) THEN {"first_time"} ELSE {})
  BY PayRules DEF Finished
<1>2. DoneRule[t.priority] # "first_time"
  <2>1. t.priority \in {"low", "normal", "high", "urgent"}
    BY TaskAssumption
  <2>2. /\ DoneRule["low"] # "first_time" /\ DoneRule["normal"] # "first_time"
        /\ DoneRule["high"] # "first_time" /\ DoneRule["urgent"] # "first_time"
    BY DEF DoneRule
  <2> QED BY <2>1, <2>2
<1> QED BY <1>1, <1>2

(* Steps that decide nothing and pay no bonus, and leave status and clock.   *)
LEMMA PlainStep ==
    ASSUME TaskInv, NEW t \in TaskRow, task' = t, UNCHANGED <<handins, taskDay>>,
           t.status \in {task.status, "deleted"}, task.status # "none",
           t.completed = task.completed, t.accepted = task.accepted,
           t.revisions = task.revisions, t.priority \in Priority,
           \A e \in points' \ points : e.rule # "first_time"
    PROVE  TaskInv' /\ BonusEarned /\ DecisionsKept
<1>1. TaskTypeOK'
  BY DEF TaskInv, TaskTypeOK, TaskRow
<1> QED BY <1>1 DEF TaskInv, Begun, SentBackCounted, ClockStops, BonusEarned, DecisionsKept,
                    TaskStatus, Active

LEMMA RedatedFacts ==
    ASSUME task \in TaskRow, NEW due \in Nat
    PROVE  LET t == Redated(due) IN
           /\ t \in TaskRow /\ t.status = task.status /\ t.completed = task.completed
           /\ t.accepted = task.accepted /\ t.revisions = task.revisions
           /\ t.priority = task.priority
<1> DEFINE moved == IF Later(due) /\ task.status \notin {"done", "cancelled"}
                    THEN task.moved + 1 ELSE task.moved
<1>1. moved \in Nat
  BY DEF TaskRow
<1>2. Redated(due) = [task EXCEPT !.due = due, !.moved = moved]
  BY DEF Redated
<1> HIDE DEF moved
<1> QED BY <1>1, <1>2 DEF TaskRow

(* A task done, by a tick, a drag or an approval.                            *)
LEMMA DoneStep ==
    ASSUME TaskInv, task.status \in TaskStatus, NEW u \in Person, NEW t \in TaskRow, task' = t,
           t.status = "done", t.accepted = u, t.completed = Stopped(task),
           t.revisions = task.revisions, t.priority = task.priority,
           handins' \in {handins, Decided("approved")}, UNCHANGED taskDay,
           points' = points \cup Finished(task, IsLate(task)), task.needsCheck => Runs(u)
    PROVE  TaskInv' /\ BonusEarned /\ DecisionsKept
<1>1. /\ handins \in Seq(Decision) /\ "approved" \in Decision /\ task.status # "none"
      /\ task.priority \in Priority /\ taskDay \in Nat /\ taskDay > 0 /\ task.completed \in Nat
  BY TaskAssumption DEF TaskInv, TaskTypeOK, Begun, Decision, TaskStatus, Active
<1>2. /\ handins' \in Seq(Decision)
      /\ DOMAIN handins' = DOMAIN handins
      /\ \A i \in DOMAIN handins : /\ handins[i] # "none" => handins'[i] = handins[i]
                                   /\ handins'[i] \in {handins[i], "approved"}
  <2>1. CASE handins' = handins
    BY <1>1, <2>1
  <2>2. CASE handins' = Decided("approved")
    BY <1>1, <2>2, DecidedFacts
  <2> QED BY <2>1, <2>2
<1>3. TaskTypeOK' /\ taskDay' > 0
  BY <1>1, <1>2 DEF TaskInv, TaskTypeOK, TaskRow
<1>4. t.completed # 0
  BY <1>1 DEF Stopped
<1>5. ClockStops'
  BY <1>4, TaskAssumption DEF ClockStops, Active
<1>6. SentBackCounted'
  BY <1>2 DEF TaskInv, SentBackCounted
<1>7. Begun'
  BY <1>1 DEF Begun
<1>8. BonusEarned
  <2>1. ASSUME NEW e \in points' \ points, e.rule = "first_time"
        PROVE  u \in Boss \cup {task.giver} /\ \A i \in DOMAIN handins' : handins'[i] # "sent_back"
    <3>1. FirstTime(task)
      BY <1>1, <2>1, FinishedRules
    <3>2. Runs(u) /\ task.revisions = 0
      BY <3>1 DEF FirstTime
    <3> QED BY <1>2, <3>2 DEF TaskInv, SentBackCounted, Runs
  <2> QED BY <2>1 DEF BonusEarned
<1> QED BY <1>2, <1>3, <1>5, <1>6, <1>7, <1>8 DEF TaskInv, DecisionsKept

LEMMA CreateTaskStep ==
    ASSUME TaskInv, NEW u \in Person, CreateTask(u)
    PROVE  TaskInv' /\ BonusEarned /\ DecisionsKept
<1>1. PICK a \in Person \cup {Nobody}, p \in Priority, check \in BOOLEAN, due \in 0 .. LastDay :
         task' = [NoTask EXCEPT !.status = "open", !.giver = u, !.assignee = a, !.priority = p,
                                !.needsCheck = check /\ a # u, !.due = due]
  BY TaskAssumption DEF CreateTask
<1>2. /\ task' \in TaskRow /\ task'.status = "open" /\ task'.completed = 0
      /\ task'.priority = p /\ task'.revisions = 0
  <2> DEFINE checked == check /\ a # u
  <2>1. checked \in BOOLEAN
    OBVIOUS
  <2> HIDE DEF checked
  <2>2. task' = [NoTask EXCEPT !.status = "open", !.giver = u, !.assignee = a, !.priority = p,
                               !.needsCheck = checked, !.due = due]
    BY <1>1 DEF checked
  <2>3. NoTask \in TaskRow /\ NoTask.completed = 0 /\ NoTask.revisions = 0
    BY DEF NoTask, TaskRow
  <2>4. due \in Nat /\ "open" \in TaskStatus
    BY TaskAssumption DEF TaskStatus, Active
  <2> HIDE DEF NoTask
  <2> QED BY <2>1, <2>2, <2>3, <2>4 DEF TaskRow
<1>3. handins = <<>> /\ UNCHANGED <<handins, points, taskDay>>
  BY DEF CreateTask, TaskInv, Begun
<1>4. TaskTypeOK'
  BY <1>2, <1>3 DEF TaskInv, TaskTypeOK, TaskRow
<1> QED BY <1>2, <1>3, <1>4 DEF TaskInv, Begun, SentBackCounted, ClockStops, Active, BonusEarned,
                               DecisionsKept

LEMMA UpdateTaskStep ==
    ASSUME TaskInv, NEW u \in Person, UpdateTask(u)
    PROVE  TaskInv' /\ BonusEarned /\ DecisionsKept
<1>1. /\ task \in TaskRow /\ task.status # "none" /\ task.priority \in Priority
      /\ UNCHANGED <<handins, points, taskDay>>
  BY DEF UpdateTask, Exists, TaskInv, TaskTypeOK, TaskRow, Begun, TaskStatus, Active
<1>2. CASE \E due \in 0 .. LastDay : task' = Redated(due)
  <2>1. PICK due \in 0 .. LastDay : task' = Redated(due)
    BY <1>2
  <2>2. due \in Nat
    BY TaskAssumption
  <2> QED BY <1>1, <2>1, <2>2, RedatedFacts, PlainStep
<1>3. CASE \E p \in Priority : task' = [task EXCEPT !.priority = p]
  <2>1. PICK p \in Priority : task' = [task EXCEPT !.priority = p]
    BY <1>3
  <2>2. /\ task' \in TaskRow /\ task'.status = task.status /\ task'.completed = task.completed
        /\ task'.accepted = task.accepted /\ task'.revisions = task.revisions
        /\ task'.priority = p
    BY <1>1, <2>1 DEF TaskRow
  <2> QED BY <1>1, <2>2, PlainStep
<1>4. CASE \E check \in BOOLEAN : task' = [task EXCEPT !.needsCheck = check]
  <2>1. PICK check \in BOOLEAN : task' = [task EXCEPT !.needsCheck = check]
    BY <1>4
  <2>2. /\ task' \in TaskRow /\ task'.status = task.status /\ task'.completed = task.completed
        /\ task'.accepted = task.accepted /\ task'.revisions = task.revisions
        /\ task'.priority = task.priority
    BY <1>1, <2>1 DEF TaskRow
  <2> QED BY <1>1, <2>2, PlainStep
<1>5. CASE \E a \in Person \cup {Nobody} : task' = [task EXCEPT !.assignee = a]
  <2>1. PICK a \in Person \cup {Nobody} : task' = [task EXCEPT !.assignee = a]
    BY <1>5
  <2>2. /\ task' \in TaskRow /\ task'.status = task.status /\ task'.completed = task.completed
        /\ task'.accepted = task.accepted /\ task'.revisions = task.revisions
        /\ task'.priority = task.priority
    BY <1>1, <2>1 DEF TaskRow
  <2> QED BY <1>1, <2>2, PlainStep
<1> QED BY <1>2, <1>3, <1>4, <1>5 DEF UpdateTask

LEMMA MoveTaskStep ==
    ASSUME TaskInv, NEW u \in Person, NEW to \in TaskStatus, MoveTask(u, to)
    PROVE  TaskInv' /\ BonusEarned /\ DecisionsKept
<1> DEFINE accepted == CASE to = "done" -> u [] to = "review" -> task.accepted [] OTHER -> Nobody
           completed == CASE to \in {"done", "review"} -> Stopped(task)
                          [] to = "cancelled" -> task.completed
                          [] OTHER -> 0
           t == Moved(u, to)
<1>1. /\ task \in TaskRow /\ task.status \in TaskStatus /\ task.status # "none"
      /\ task.priority \in Priority /\ taskDay \in Nat /\ taskDay > 0
      /\ task.completed \in Nat /\ task.accepted \in Person \cup {Nobody}
  BY DEF MoveTask, Exists, TaskInv, TaskTypeOK, TaskRow, Begun, TaskStatus, Active
<1>2. accepted \in Person \cup {Nobody}
  BY <1>1
<1>3. completed \in Nat
  BY <1>1 DEF Stopped
<1>4. t = [task EXCEPT !.status = to, !.accepted = accepted, !.completed = completed]
  BY DEF Moved
<1>5. /\ to = "done" => accepted = u /\ completed = Stopped(task)
      /\ to = "review" => completed = Stopped(task)
      /\ to \in Active => completed = 0
  BY DEF Active
<1> HIDE DEF accepted, completed
<1>6. /\ t \in TaskRow /\ t.status = to /\ t.accepted = accepted /\ t.completed = completed
      /\ t.revisions = task.revisions /\ t.priority = task.priority
  BY <1>1, <1>2, <1>3, <1>4 DEF TaskRow
<1>7. task' = t /\ UNCHANGED taskDay
  BY DEF MoveTask
<1>8. CASE to = "done"
  <2>1. handins' \in {handins, Decided("approved")}
    BY DEF MoveTask
  <2>2. points' = points \cup Finished(task, IsLate(task))
    BY <1>8 DEF MoveTask
  <2>3. task.needsCheck => Runs(u)
    BY <1>8 DEF MoveTask, CanMove
  <2> QED BY <1>1, <1>5, <1>6, <1>7, <1>8, <2>1, <2>2, <2>3, DoneStep
<1>9. CASE to # "done"
  <2>1. UNCHANGED <<handins, points>>
    BY <1>9 DEF MoveTask
  <2>2. TaskTypeOK'
    BY <1>6, <1>7, <2>1 DEF TaskInv, TaskTypeOK, TaskRow
  <2>3. Stopped(task) # 0
    BY <1>1 DEF Stopped
  <2>4. ClockStops'
    BY <1>5, <1>6, <1>7, <1>9, <2>3 DEF ClockStops, Active
  <2>5. Begun' /\ SentBackCounted'
    BY <1>1, <1>6, <1>7, <2>1 DEF TaskInv, Begun, SentBackCounted, TaskStatus, Active
  <2> QED BY <1>1, <1>7, <2>1, <2>2, <2>4, <2>5 DEF TaskInv, BonusEarned, DecisionsKept
<1> QED BY <1>8, <1>9

LEMMA SubmitTaskStep ==
    ASSUME TaskInv, NEW u \in Person, SubmitTask(u)
    PROVE  TaskInv' /\ BonusEarned /\ DecisionsKept
<1>1. /\ task \in TaskRow /\ task.status \in Active /\ task.priority \in Priority
      /\ taskDay \in Nat /\ taskDay > 0 /\ task.completed \in Nat /\ handins \in Seq(Decision)
      /\ UNCHANGED <<points, taskDay>>
  BY DEF SubmitTask, TaskInv, TaskTypeOK, TaskRow, Begun, Active
<1>2. Stopped(task) \in Nat /\ Stopped(task) # 0
  BY <1>1 DEF Stopped
<1>3. task' = [task EXCEPT !.status = "review", !.completed = Stopped(task)]
  BY DEF SubmitTask
<1>4. /\ task' \in TaskRow /\ task'.status = "review" /\ task'.completed = Stopped(task)
      /\ task'.revisions = task.revisions /\ task'.priority = task.priority
  BY <1>1, <1>2, <1>3 DEF TaskRow, TaskStatus
<1>5. handins' = Append(handins, "none") /\ "none" \in Decision
  BY DEF SubmitTask, Decision
<1>6. /\ handins' \in Seq(Decision)
      /\ \A i \in DOMAIN handins : handins'[i] = handins[i]
      /\ \A i \in DOMAIN handins' : i \in DOMAIN handins \/ handins'[i] = "none"
  BY <1>1, <1>5
<1>7. TaskTypeOK'
  BY <1>1, <1>4, <1>6 DEF TaskInv, TaskTypeOK, TaskRow
<1>8. ClockStops'
  BY <1>2, <1>4 DEF ClockStops, Active
<1>9. Begun' /\ SentBackCounted'
  BY <1>1, <1>4, <1>6 DEF TaskInv, Begun, SentBackCounted
<1> QED BY <1>1, <1>6, <1>7, <1>8, <1>9 DEF TaskInv, BonusEarned, DecisionsKept

LEMMA SendBackStep ==
    ASSUME TaskInv, NEW u \in Person, SendBack(u)
    PROVE  TaskInv' /\ BonusEarned /\ DecisionsKept
<1>1. /\ task \in TaskRow /\ task.status = "review" /\ task.priority \in Priority
      /\ task.revisions \in Nat /\ handins \in Seq(Decision) /\ UNCHANGED taskDay
  BY DEF SendBack, TaskInv, TaskTypeOK, TaskRow, Begun
<1>2. task' = [task EXCEPT !.status = "doing", !.completed = 0, !.revisions = @ + 1]
  BY DEF SendBack, BackToWork
<1>3. /\ task' \in TaskRow /\ task'.status = "doing" /\ task'.completed = 0
      /\ task'.revisions # 0 /\ task'.priority = task.priority
  <2> DEFINE again == task.revisions + 1
  <2>1. again \in Nat /\ again # 0
    BY <1>1
  <2>2. task' = [task EXCEPT !.status = "doing", !.completed = 0, !.revisions = again]
    BY <1>1, <1>2
  <2>3. "doing" \in TaskStatus
    BY DEF TaskStatus, Active
  <2> HIDE DEF again
  <2> QED BY <1>1, <2>1, <2>2, <2>3 DEF TaskRow
<1>4. handins' = Decided("sent_back") /\ "sent_back" \in Decision
  BY DEF SendBack, Decision
<1>5. handins' \in Seq(Decision) /\ DecisionsKept
  BY <1>1, <1>4, DecidedFacts DEF DecisionsKept
<1>6. TaskTypeOK'
  BY <1>1, <1>3, <1>5 DEF TaskInv, TaskTypeOK, TaskRow
<1>7. ClockStops' /\ Begun' /\ SentBackCounted'
  BY <1>1, <1>3 DEF ClockStops, Active, Begun, SentBackCounted
<1>8. BonusEarned
  <2>1. ASSUME NEW e \in points' \ points
        PROVE  e.rule # "first_time"
    <3>1. PICK i \in Closed : e \in Pay(task, "submission", i, {"sent_back"})
      BY <2>1 DEF SendBack
    <3>2. e.rule \in {"sent_back"}
      BY <3>1, PayRules
    <3> QED BY <3>2
  <2> QED BY <2>1 DEF BonusEarned
<1> QED BY <1>1, <1>5, <1>6, <1>7, <1>8 DEF TaskInv

LEMMA ApproveStep ==
    ASSUME TaskInv, NEW u \in Person, Approve(u)
    PROVE  TaskInv' /\ BonusEarned /\ DecisionsKept
<1>1. /\ task \in TaskRow /\ task.status = "review" /\ task.completed # 0 /\ Runs(u)
      /\ UNCHANGED taskDay
  BY DEF Approve, TaskInv, TaskTypeOK, TaskRow, ClockStops
<1>2. task' = [task EXCEPT !.status = "done", !.accepted = u]
  BY DEF Approve
<1>3. /\ task' \in TaskRow /\ task'.status = "done" /\ task'.accepted = u
      /\ task'.completed = task.completed /\ task'.revisions = task.revisions
      /\ task'.priority = task.priority
  BY <1>1, <1>2 DEF TaskRow, TaskStatus
<1>4. task'.completed = Stopped(task)
  BY <1>1, <1>3 DEF Stopped
<1>5. /\ handins' \in {handins, Decided("approved")}
      /\ points' = points \cup Finished(task, IsLate(task))
  BY DEF Approve
<1>6. task.status \in TaskStatus
  BY <1>1 DEF TaskStatus
<1> QED BY <1>1, <1>3, <1>4, <1>5, <1>6, DoneStep

LEMMA SnoozeTaskStep ==
    ASSUME TaskInv, NEW u \in Person, SnoozeTask(u)
    PROVE  TaskInv' /\ BonusEarned /\ DecisionsKept
<1>1. /\ task \in TaskRow /\ task.status # "none" /\ task.priority \in Priority
      /\ UNCHANGED <<handins, taskDay>> /\ taskDay \in Nat
  BY DEF SnoozeTask, TaskInv, TaskTypeOK, TaskRow, Begun, Active
<1>2. PICK due \in taskDay .. LastDay : task' = Redated(due)
  BY DEF SnoozeTask
<1>3. due \in Nat
  BY <1>1, TaskAssumption
<1>4. \A e \in points' \ points : e.rule # "first_time"
  <2>1. ASSUME NEW e \in points' \ points
        PROVE  e.rule \in {"deadline_moved"}
    <3>1. e \in Pay(task, "move", task'.moved, {"deadline_moved"})
      BY <2>1 DEF SnoozeTask
    <3> QED BY <3>1, PayRules
  <2> QED BY <2>1
<1> QED BY <1>1, <1>2, <1>3, <1>4, RedatedFacts, PlainStep

LEMMA DeleteTaskStep ==
    ASSUME TaskInv, NEW u \in Person, DeleteTask(u)
    PROVE  TaskInv' /\ BonusEarned /\ DecisionsKept
<1>1. /\ task \in TaskRow /\ task.status # "none" /\ task.priority \in Priority
      /\ UNCHANGED <<handins, points, taskDay>>
  BY DEF DeleteTask, Exists, TaskInv, TaskTypeOK, TaskRow, Begun, TaskStatus, Active
<1>2. task' = [task EXCEPT !.status = "deleted"]
  BY DEF DeleteTask
<1>3. /\ task' \in TaskRow /\ task'.status = "deleted" /\ task'.completed = task.completed
      /\ task'.accepted = task.accepted /\ task'.revisions = task.revisions
      /\ task'.priority = task.priority
  BY <1>1, <1>2 DEF TaskRow
<1> QED BY <1>1, <1>3, PlainStep

LEMMA TaskStep == TaskInv /\ [TaskNext]_taskVars => TaskInv' /\ BonusEarned /\ DecisionsKept
<1> SUFFICES ASSUME TaskInv, [TaskNext]_taskVars PROVE TaskInv' /\ BonusEarned /\ DecisionsKept
  OBVIOUS
<1>1. ASSUME NEW u \in Person,
             \/ CreateTask(u) \/ UpdateTask(u) \/ SubmitTask(u) \/ Approve(u) \/ SendBack(u)
             \/ SnoozeTask(u) \/ DeleteTask(u)
             \/ \E to \in TaskStatus : MoveTask(u, to)
      PROVE  TaskInv' /\ BonusEarned /\ DecisionsKept
  BY <1>1, CreateTaskStep, UpdateTaskStep, SubmitTaskStep, ApproveStep, SendBackStep,
     SnoozeTaskStep, DeleteTaskStep, MoveTaskStep
<1>2. CASE UNCHANGED <<task, handins, points>> /\ taskDay' \in {taskDay, taskDay + 1}
  <2>1. taskDay' \in Nat /\ taskDay' > 0
    BY <1>2 DEF TaskInv, TaskTypeOK
  <2> QED BY <1>2, <2>1 DEF TaskInv, TaskTypeOK, Begun, SentBackCounted, ClockStops, BonusEarned,
                            DecisionsKept
<1> QED BY <1>1, <1>2 DEF TaskNext, TaskDayPasses, taskVars

LEMMA TaskInvHolds == TaskSpec => []TaskInv
<1> QED BY TaskInitInv, TaskStep, PTL DEF TaskSpec

(* However a task is moved, handed in, sent back, approved, put off and      *)
(* reopened, by whomever and on whatever days, its clock stands exactly      *)
(* while it is handed in or done, and what is done was accepted.             *)
THEOREM ClockStandsWhenDone == TaskSpec => []ClockStops
<1>1. TaskInv => ClockStops
  BY DEF TaskInv
<1> QED BY <1>1, TaskInvHolds, PTL

(* Every payment of "approved first time" is by the word of who gave the     *)
(* task or runs it, for work that was never sent back, whatever was changed  *)
(* of the task and however often it was reopened and finished again.         *)
THEOREM BonusIsEarned == TaskSpec => BonusOnlyUnreturned
<1>1. TaskInv /\ [TaskNext]_taskVars =>
        [(\E e \in points' \ points : e.rule = "first_time")
            => /\ task'.accepted \in Boss \cup {task.giver}
               /\ \A i \in DOMAIN handins' : handins'[i] # "sent_back"]_taskVars
  BY TaskStep DEF BonusEarned
<1> QED BY <1>1, TaskInvHolds, PTL DEF TaskSpec, BonusOnlyUnreturned

(* A decision about a hand-in is for good, however many hand-ins there are.  *)
THEOREM DecidedForGood == TaskSpec => DecisionsStand
<1>1. TaskInv /\ [TaskNext]_taskVars =>
        [\A i \in DOMAIN handins : handins[i] # "none" => handins'[i] = handins[i]]_taskVars
  BY TaskStep DEF DecisionsKept
<1> QED BY <1>1, TaskInvHolds, PTL DEF TaskSpec, DecisionsStand
=============================================================================
