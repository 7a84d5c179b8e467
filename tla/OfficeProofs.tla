------------------------------ MODULE OfficeProofs ------------------------------
(***************************************************************************)
(* The vacation plan, the knowledge base, the journal of works and the     *)
(* search of monitoring.                                                   *)
(*                                                                         *)
(* For any employees, posts, forms and bounds: from the first day of an    *)
(* employee on, every day belongs to one assignment row, in whatever order *)
(* of dates the changes are entered (IInv, whose part Covered has every    *)
(* day after a row's first in one row); the status of a request tells what *)
(* was decided on its conflicts; two vacations that clash are never both   *)
(* clear (ClashInv); and a request that takes the last one from a duty     *)
(* shift is written with a conflict.                                       *)
(*                                                                         *)
(* For any articles, names and bounds: the attachments on record and their *)
(* files agree through failures, crashes, restores and replaced databases  *)
(* (KnowledgeInv, which follows the one upload under way).                 *)
(*                                                                         *)
(* For any dictionary, entries and files of works: no entry is lost from   *)
(* the handover but by a person's hand, a PNR is done exactly when none of *)
(* its steps is left, and a preview is written as it was shown (JournalInv *)
(* keeps of a shown row what it would become on the day it was shown).     *)
(*                                                                         *)
(* For any hosts, cards and files of rules: a letter offered as ready is   *)
(* the one the best rule asks for, by the files as they stood during that  *)
(* search (SearchInv, in which the cache is never ahead of a file and      *)
(* right about the version on disk).                                       *)
(***************************************************************************)
EXTENDS Vacations, WorkJournal, KnowledgeBase, MonitoringSearch, TLAPS, FiniteSetTheorems, WellFoundedInduction

\* The one row of s's employee that covers the day is r.
Only(rows, s, day, r) ==
  /\ r \in rows /\ r.who = s.who /\ Covers(r, day)
  /\ \A q \in rows : q.who = s.who /\ Covers(q, day) => q = r

\* From the first day of a row on, each day belongs to one row of its employee; no
\* row is empty.
Covered(rows) ==
  /\ \A s \in rows : s.from <= s.to
  /\ \A s \in rows : \A day \in s.from .. LastDay : \E r \in rows : Only(rows, s, day, r)

IInv == TypeOK /\ Covered(shifts) /\ VerdictTellsDecisions

-----------------------------------------------------------------------------
(* Shapes. *)

LEMMA Dates ==
  /\ LastDay \in Nat /\ Forever \in Nat /\ Forever = LastDay + 1
  /\ Days = 0 .. LastDay
BY VacationBounds DEF Days, Forever

LEMMA ShiftFacts ==
  ASSUME NEW s \in Shift
  PROVE  /\ s.from \in Days /\ s.from \in Nat /\ s.to \in Nat /\ s.to <= Forever
         /\ s.from <= LastDay
<1>1. s.from \in Days /\ s.to \in 0 .. Forever
  BY DEF Shift
<1> QED
  BY <1>1, Dates

\* Among some rows one begins first.
LEMMA EarliestFacts ==
  ASSUME NEW rows \in SUBSET Shift, rows # {}
  PROVE  Earliest(rows) \in rows /\ \A s \in rows : Earliest(rows).from <= s.from
<1> DEFINE starts == {s.from : s \in rows}
<1>1. starts \subseteq Nat /\ starts # {}
  BY ShiftFacts
<1>2. \E x \in starts : \A y \in starts : ~ (<<y, x>> \in OpToRel(<, Nat))
  BY <1>1, NatLessThanWellFounded, WFMin
<1>3. PICK x \in starts : \A y \in starts : ~ (y < x)
  BY <1>1, <1>2 DEF OpToRel
<1>4. PICK r \in rows : r.from = x
  OBVIOUS
<1>5. \A s \in rows : r.from <= s.from
  BY <1>1, <1>3, <1>4
<1> QED
  BY <1>4, <1>5 DEF Earliest

-----------------------------------------------------------------------------
(* A change of assignment. *)

LEMMA ReassignedKeeps ==
  ASSUME shifts \subseteq Shift, Covered(shifts),
         NEW e \in People, NEW post \in Post, NEW day \in Days
  PROVE  /\ Reassigned(e, post, day) \subseteq Shift
         /\ Covered(Reassigned(e, post, day))
         /\ \A s \in Reassigned(e, post, day) : s \in shifts \/ s.who = e
<1> DEFINE mine == {s \in shifts : s.who = e}
           before == {s \in mine : s.from < day /\ s.to >= day}
           after == {s \in mine : s.from > day}
           cut == IF before = {} THEN {} ELSE {Latest(before)}
           until == IF after = {} THEN Forever ELSE Earliest(after).from - 1
           new == [who |-> e, from |-> day, to |-> until, post |-> post]
           short(s) == [s EXCEPT !.to = day - 1]
           rows == Reassigned(e, post, day)
<1>1. day \in Nat /\ day <= LastDay
  BY Dates
\* At most one row reaches over the day, and it is the one that is cut.
<1>2. cut = before
  <2>1. \A p, q \in before : p = q
    <3>1. SUFFICES ASSUME NEW p \in before, NEW q \in before PROVE p = q
      OBVIOUS
    <3>2. day \in p.from .. LastDay /\ Covers(p, day) /\ Covers(q, day)
      BY <1>1, <3>1, ShiftFacts, Dates DEF Covers
    <3> QED
      BY <3>1, <3>2 DEF Covered, Only
  <2>2. ASSUME NEW b \in before PROVE Latest(before) = b
    <3>1. b.from <= b.from
      BY <2>2, ShiftFacts
    <3>2. \A p \in before : p.from <= b.from
      BY <2>1, <3>1
    <3> HIDE DEF before
    <3> QED
      BY <2>1, <2>2, <3>2 DEF Latest
  <2> HIDE DEF before
  <2> QED
    BY <2>1, <2>2
\* The next row begins after the new one ends.
<1>3. /\ until \in Nat /\ until >= day /\ until <= Forever
      /\ \A s \in after : until < s.from
      /\ after = {} => until = Forever
      /\ after # {} => /\ Earliest(after) \in after
                       /\ until = Earliest(after).from - 1
  <2>1. CASE after = {}
    BY <1>1, <2>1, Dates
  <2>2. CASE after # {}
    <3>1. Earliest(after) \in after /\ \A s \in after : Earliest(after).from <= s.from
      BY <2>2, EarliestFacts
    <3>2. \A s \in after : s.from \in Nat /\ s.from > day /\ s.from <= LastDay
      BY ShiftFacts
    <3>3. until = Earliest(after).from - 1
      BY <2>2
    <3> HIDE DEF until, after
    <3> QED
      BY <1>1, <2>2, <3>1, <3>2, <3>3, Dates
  <2> QED
    BY <2>1, <2>2
<1> HIDE DEF until
\* What the new table is made of.
<1>4. /\ new \in Shift /\ new.who = e /\ new.from = day /\ new.to = until
  <2>1. until \in 0 .. Forever
    BY <1>3, Dates
  <2> QED
    BY <2>1 DEF Shift
<1>5. \A s \in before : /\ short(s) \in Shift /\ short(s).who = e
                        /\ short(s).from = s.from /\ short(s).to = day - 1
  <2>1. SUFFICES ASSUME NEW s \in before
                 PROVE  /\ short(s) \in Shift /\ short(s).who = e
                        /\ short(s).from = s.from /\ short(s).to = day - 1
    OBVIOUS
  <2>2. day - 1 \in 0 .. Forever
    BY <1>1, <2>1, ShiftFacts, Dates
  <2> QED
    BY <2>1, <2>2 DEF Shift
<1>6. rows = {s \in shifts \ before : s.who # e \/ s.from # day}
               \cup {short(s) : s \in before} \cup {new}
  BY <1>2 DEF Reassigned, until
<1> HIDE DEF new, short, rows
<1>7. rows \subseteq Shift
  BY <1>4, <1>5, <1>6
<1>8. \A s \in rows : s.from <= s.to
  <2>1. SUFFICES ASSUME NEW s \in rows PROVE s.from <= s.to
    OBVIOUS
  <2>2. CASE s \in shifts
    BY <2>2 DEF Covered
  <2>3. CASE s = new
    BY <1>3, <1>4, <2>3
  <2>4. CASE \E b \in before : s = short(b)
    <3>1. PICK b \in before : s = short(b)
      BY <2>4
    <3>2. b.from \in Nat /\ b.from < day
      BY <3>1, ShiftFacts
    <3> QED
      BY <1>1, <1>5, <3>1, <3>2
  <2> QED
    BY <1>6, <2>1, <2>2, <2>3, <2>4
<1>9. ASSUME NEW s \in rows, NEW d \in s.from .. LastDay
      PROVE  \E r \in rows : Only(rows, s, d, r)
  <2>1. d \in Nat /\ d <= LastDay /\ s.from <= d /\ s \in Shift
    BY <1>7, <1>9, ShiftFacts, Dates
  \* The other employees' rows are as they were.
  <2>2. CASE s.who # e
    <3>1. \A q : q \in rows /\ q.who # e <=> q \in shifts /\ q.who # e
      BY <1>4, <1>5, <1>6
    <3>2. PICK r \in shifts : Only(shifts, s, d, r)
      BY <1>9, <2>2, <3>1 DEF Covered
    <3> QED
      BY <2>2, <3>1, <3>2 DEF Only
  \* Before the day the row that covered d still does, cut or not.
  <2>3. CASE s.who = e /\ d < day
    <3>1. PICK o \in shifts : o.who = e /\ o.from = s.from
      BY <1>1, <1>4, <1>5, <1>6, <2>1, <2>3
    <3>2. PICK r \in shifts : Only(shifts, o, d, r)
      BY <1>9, <3>1 DEF Covered
    <3>3. /\ r.who = e /\ r.from \in Nat /\ r.to \in Nat /\ r.from <= d /\ d <= r.to
          /\ \A q \in shifts : q.who = e /\ Covers(q, d) => q = r
      BY <3>1, <3>2, ShiftFacts DEF Only, Covers
    <3>4. \A b \in before : Covers(b, d) <=> b.from <= d
      BY <1>1, <2>1, <2>3, ShiftFacts DEF Covers
    <3>5. \A b \in before : Covers(short(b), d) <=> b.from <= d
      BY <1>1, <1>5, <2>1, <2>3, ShiftFacts DEF Covers
    <3>6. ~Covers(new, d)
      BY <1>1, <1>4, <2>1, <2>3 DEF Covers
    <3>7. CASE r \in before
      <4>1. short(r) \in rows /\ short(r).who = e /\ Covers(short(r), d)
        BY <1>5, <1>6, <3>3, <3>5, <3>7
      <4>2. \A q \in rows : q.who = e /\ Covers(q, d) => q = short(r)
        BY <1>6, <3>3, <3>4, <3>5, <3>6, <3>7
      <4> QED
        BY <2>3, <4>1, <4>2 DEF Only
    <3>8. CASE r \notin before
      <4>1. r \in rows /\ Covers(r, d)
        BY <1>1, <1>6, <2>1, <2>3, <3>2, <3>3, <3>8 DEF Covers
      <4>2. \A q \in rows : q.who = e /\ Covers(q, d) => q = r
        BY <1>6, <3>3, <3>4, <3>5, <3>6, <3>8
      <4> QED
        BY <2>3, <3>3, <4>1, <4>2 DEF Only
    <3> QED
      BY <3>7, <3>8
  \* The new row has its days for itself.
  <2>4. CASE s.who = e /\ day <= d /\ d <= until
    <3>1. new \in rows /\ Covers(new, d)
      BY <1>4, <1>6, <2>4 DEF Covers
    <3>2. \A b \in before : ~Covers(short(b), d)
      BY <1>1, <1>5, <2>1, <2>4 DEF Covers
    <3>3. ASSUME NEW q \in shifts, q.who = e, q.from # day, q \notin before PROVE ~Covers(q, d)
      <4>1. q.from \in Nat /\ q.to \in Nat
        BY <3>3, ShiftFacts
      <4>2. CASE q.from > day
        BY <1>3, <2>1, <2>4, <3>3, <4>1, <4>2 DEF Covers
      <4>3. CASE q.from < day
        BY <1>1, <2>1, <2>4, <3>3, <4>1, <4>3 DEF Covers
      <4> QED
        BY <1>1, <3>3, <4>1, <4>2, <4>3
    <3> QED
      BY <1>4, <1>6, <2>4, <3>1, <3>2, <3>3 DEF Only
  \* After it the rows are the later ones, as they were.
  <2>5. CASE s.who = e /\ until < d
    <3>1. after # {}
      BY <1>3, <2>1, <2>5, Dates
    <3>2. PICK a \in after : until = a.from - 1
      BY <1>3, <3>1
    <3>3. a \in shifts /\ a.who = e /\ a.from \in Nat /\ a.to \in Nat /\ a.from > day
          /\ a.from <= a.to /\ a.from <= LastDay /\ a.from <= d
      BY <1>3, <2>1, <2>5, <3>2, ShiftFacts DEF Covered
    <3>4. PICK r \in shifts : Only(shifts, a, d, r)
      BY <2>1, <3>3, Dates DEF Covered
    <3>5. /\ r.who = e /\ r.from \in Nat /\ r.to \in Nat /\ r.from <= d /\ d <= r.to
          /\ \A q \in shifts : q.who = e /\ Covers(q, d) => q = r
      BY <3>3, <3>4, ShiftFacts DEF Only, Covers
    <3>6. r.from > day
      <4>1. SUFFICES ASSUME r.from <= day PROVE FALSE
        BY <1>1, <3>5
      <4>2. PICK f \in shifts : Only(shifts, a, a.from, f)
        BY <3>3, Dates DEF Covered
      <4>3. Covers(a, a.from) /\ Covers(r, a.from)
        BY <1>1, <2>1, <3>3, <3>5, <4>1 DEF Covers
      <4>4. a = r
        BY <3>3, <3>5, <4>2, <4>3 DEF Only
      <4> QED
        BY <1>1, <3>3, <4>1, <4>4
    <3>7. r \in rows /\ Covers(r, d)
      BY <1>1, <1>6, <3>4, <3>5, <3>6 DEF Covers
    <3>8. \A b \in before : ~Covers(short(b), d)
      BY <1>1, <1>3, <1>5, <2>1, <2>5 DEF Covers
    <3>9. ~Covers(new, d)
      BY <1>3, <1>4, <2>1, <2>5 DEF Covers
    <3> QED
      BY <1>6, <2>5, <3>5, <3>7, <3>8, <3>9 DEF Only
  <2> QED
    BY <1>1, <1>3, <2>1, <2>2, <2>3, <2>4, <2>5
<1>10. \A s \in rows : s \in shifts \/ s.who = e
  BY <1>4, <1>5, <1>6
<1> QED
  BY <1>7, <1>8, <1>9, <1>10 DEF Covered, rows

-----------------------------------------------------------------------------
(* Requests and their conflicts. *)

\* The status of one request tells its decisions.
Told(r) ==
  LET decisions == {c.decision : c \in r.conflicts}
  IN  /\ r.verdict = Clear <=> decisions = {}
      /\ r.verdict = Undecided <=> decisions = {Undecided}
      /\ r.verdict = Exception <=> decisions = {"APPROVED"}
      /\ r.verdict = TurnedDown <=> decisions = {TurnedDown}
      /\ r.verdict = TurnedDown => r.form.status = Refused

LEMMA VerdictsByRequest ==
  VerdictTellsDecisions <=> \A i \in DOMAIN requests : Told(requests[i])
BY DEF VerdictTellsDecisions, Told

LEMMA NewFacts ==
  ASSUME NEW code \in {"EMPLOYEE_OVERLAP", "LEADERSHIP_OVERLAP", "SUBSTITUTE_OVERLAP",
                       "DUTY_COVERAGE"},
         NEW day \in Days, NEW related \in People \cup {Nobody}
  PROVE  New(code, day, related) \in Conflict /\ New(code, day, related).decision = Undecided
BY DEF New, Conflict

LEMMA ConflictFacts ==
  ASSUME requests \in Seq(Request), NEW f \in Form, NEW except
  PROVE  \A c \in Conflicts(f, except) : c \in Conflict /\ c.decision = Undecided
<1>1. \A g \in Overlapping(f, except) : g \in Form
  <2>1. SUFFICES ASSUME NEW g \in Overlapping(f, except) PROVE g \in Form
    OBVIOUS
  <2>2. PICK i \in DOMAIN requests : g = requests[i].form
    BY <2>1 DEF Overlapping
  <2>3. requests[i] \in Request
    BY <2>2
  <2> QED
    BY <2>2, <2>3 DEF Request
<1>2. ASSUME NEW g \in Form, NEW c \in PairConflicts(f, g)
      PROVE  c \in Conflict /\ c.decision = Undecided
  <2> DEFINE day == IF f.from >= g.from THEN f.from ELSE g.from
  <2>1. PICK code \in {"EMPLOYEE_OVERLAP", "LEADERSHIP_OVERLAP", "SUBSTITUTE_OVERLAP"} :
          c = New(code, day, g.who)
    BY <1>2 DEF PairConflicts
  <2>2. day \in Days /\ g.who \in People
    BY DEF Form
  <2> QED
    BY <2>1, <2>2, NewFacts
<1>3. ASSUME NEW day \in Uncovered(f, Overlapping(f, except))
      PROVE  /\ New("DUTY_COVERAGE", day, f.substitute) \in Conflict
             /\ New("DUTY_COVERAGE", day, f.substitute).decision = Undecided
  <2>1. f.from \in Days /\ f.to \in Days /\ f.substitute \in People \cup {Nobody}
    BY DEF Form
  <2>2. day \in Days
    BY <1>3, <2>1, Dates DEF Uncovered
  <2> QED
    BY <2>1, <2>2, NewFacts
<1>4. ASSUME NEW c \in Conflicts(f, except)
      PROVE  \/ \E g \in Overlapping(f, except) : c \in PairConflicts(f, g)
             \/ \E day \in Uncovered(f, Overlapping(f, except)) :
                   c = New("DUTY_COVERAGE", day, f.substitute)
  BY <1>4 DEF Conflicts
<1> QED
  BY <1>1, <1>2, <1>3, <1>4

LEMMA EntryFacts ==
  ASSUME requests \in Seq(Request), NEW f \in Form, NEW except
  PROVE  Entry(f, except) \in Request /\ Told(Entry(f, except))
<1> DEFINE found == IF f.status \in {Refused, Cancelled} THEN {} ELSE Conflicts(f, except)
           r == Entry(f, except)
<1>1. \A c \in found : c \in Conflict /\ c.decision = Undecided
  BY ConflictFacts
<1>2. /\ r = [form |-> f, verdict |-> IF found = {} THEN Clear ELSE Undecided,
              conflicts |-> found]
  BY DEF Entry
<1> HIDE DEF found, r
<1>3. r \in Request
  BY <1>1, <1>2 DEF Request, Clear, Undecided
<1>4. Told(r)
  BY <1>1, <1>2 DEF Told, Clear, Undecided, Exception, TurnedDown
<1> QED
  BY <1>3, <1>4 DEF r

LEMMA OneMore == \A n \in Nat : \A i \in 1 .. (n + 1) : i = n + 1 \/ i \in 1 .. n
OBVIOUS

LEMMA IsASeq == ASSUME NEW S, NEW n \in Nat, NEW q \in [1 .. n -> S] PROVE q \in Seq(S)
OBVIOUS

\* A step that writes one request, new or old.
LEMMA WritingKeeps ==
  ASSUME IInv, NEW r \in Request, Told(r), UNCHANGED <<staff, shifts>>,
         \/ requests' = Append(requests, r)
         \/ \E i \in DOMAIN requests : requests' = [requests EXCEPT ![i] = r]
  PROVE  IInv'
<1>1. /\ requests \in Seq(Request) /\ Len(requests) \in Nat
      /\ DOMAIN requests = 1 .. Len(requests)
      /\ \A i \in DOMAIN requests : requests[i] \in Request /\ Told(requests[i])
  BY VerdictsByRequest DEF IInv, TypeOK
<1>2. requests' \in Seq(Request) /\ \A i \in DOMAIN requests' : Told(requests'[i])
  <2>1. CASE requests' = Append(requests, r)
    <3>1. /\ requests' \in Seq(Request) /\ DOMAIN requests' = 1 .. (Len(requests) + 1)
          /\ requests'[Len(requests) + 1] = r
          /\ \A i \in 1 .. Len(requests) : requests'[i] = requests[i]
      BY <1>1, <2>1
    <3>2. ASSUME NEW i \in DOMAIN requests' PROVE Told(requests'[i])
      <4>1. CASE i = Len(requests) + 1
        BY <3>1, <4>1
      <4>2. CASE i \in 1 .. Len(requests)
        BY <1>1, <3>1, <4>2
      <4>3. i = Len(requests) + 1 \/ i \in 1 .. Len(requests)
        BY <3>1, <3>2, <1>1, OneMore
      <4> QED
        BY <4>1, <4>2, <4>3
    <3> QED
      BY <3>1, <3>2
  <2>2. CASE \E i \in DOMAIN requests : requests' = [requests EXCEPT ![i] = r]
    <3>1. PICK i \in DOMAIN requests : requests' = [requests EXCEPT ![i] = r]
      BY <2>2
    <3>2. /\ DOMAIN requests' = 1 .. Len(requests) /\ requests'[i] = r
          /\ \A j \in 1 .. Len(requests) : j # i => requests'[j] = requests[j]
          /\ requests' = [j \in 1 .. Len(requests) |-> requests'[j]]
      BY <1>1, <3>1
    <3>3. requests' \in [1 .. Len(requests) -> Request]
      BY <1>1, <3>2
    <3>4. ASSUME NEW j \in DOMAIN requests' PROVE Told(requests'[j])
      BY <1>1, <3>2, <3>4
    <3>5. requests' \in Seq(Request)
      BY ONLY <1>1, <3>3, IsASeq
    <3> QED
      BY <3>4, <3>5
  <2> QED
    BY <2>1, <2>2
<1>3. VerdictTellsDecisions'
  BY <1>2 DEF VerdictTellsDecisions, Told
<1>4. TypeOK' /\ Covered(shifts)'
  BY <1>2 DEF IInv, TypeOK, Registered, Covered, Only, Covers
<1> QED
  BY <1>3, <1>4 DEF IInv

LEMMA ResolveStep ==
  ASSUME IInv, NEW i \in DOMAIN requests, NEW decision \in {"APPROVED", TurnedDown},
         Resolve(i, decision)
  PROVE  IInv'
<1> DEFINE r == requests[i]
           decided(c) == IF c.decision = Undecided THEN [c EXCEPT !.decision = decision] ELSE c
           written == [form |-> IF decision = TurnedDown THEN [r.form EXCEPT !.status = Refused]
                                                         ELSE r.form,
                       verdict |-> IF decision = TurnedDown THEN TurnedDown ELSE Exception,
                       conflicts |-> {decided(c) : c \in r.conflicts}]
<1>1. r \in Request /\ Told(r)
  BY VerdictsByRequest DEF IInv, TypeOK
<1>2. r.conflicts # {} /\ \A c \in r.conflicts : c.decision = Undecided
  <2>1. PICK c \in r.conflicts : c.decision = Undecided
    BY DEF Resolve
  <2>2. r.verdict \in {Clear, Undecided, Exception, TurnedDown}
    BY <1>1 DEF Request
  <2>3. {d.decision : d \in r.conflicts} = {Undecided}
    BY <1>1, <2>1, <2>2 DEF Told, Clear, Undecided, Exception, TurnedDown
  <2> QED
    BY <2>1, <2>3
<1>3. r.form \in Form /\ r.conflicts \subseteq Conflict
  BY <1>1 DEF Request
<1>4. \A c \in r.conflicts : decided(c) \in Conflict /\ decided(c).decision = decision
  BY <1>2, <1>3 DEF Conflict, TurnedDown
<1>5. [r.form EXCEPT !.status = Refused] \in Form
      /\ [r.form EXCEPT !.status = Refused].status = Refused
  BY <1>3 DEF Form, Refused
<1> HIDE DEF decided
<1>6. written \in Request
  BY <1>3, <1>4, <1>5 DEF Request, TurnedDown, Exception
<1>7. Told(written)
  <2>1. {c.decision : c \in written.conflicts} = {decision}
    BY <1>2, <1>4
  <2> QED
    BY <1>5, <2>1 DEF Told, Clear, Undecided, Exception, TurnedDown
<1>8. requests' = [requests EXCEPT ![i] = written] /\ UNCHANGED <<staff, shifts>>
  BY DEF Resolve, decided
<1> HIDE DEF written
<1> QED
  BY <1>6, <1>7, <1>8, WritingKeeps

LEMMA RequestSteps ==
  ASSUME IInv, NEW f \in Forms,
         CreateRequest(f) \/ \E i \in DOMAIN requests : UpdateRequest(i, f)
  PROVE  IInv'
<1>1. f \in Form /\ requests \in Seq(Request)
  BY VacationBounds DEF IInv, TypeOK
<1>2. CASE CreateRequest(f)
  BY <1>1, <1>2, EntryFacts, WritingKeeps DEF CreateRequest
<1>3. CASE \E i \in DOMAIN requests : UpdateRequest(i, f)
  <2>1. PICK i \in DOMAIN requests : UpdateRequest(i, f)
    BY <1>3
  <2>2. Entry(f, {i}) \in Request /\ Told(Entry(f, {i}))
    BY <1>1, EntryFacts
  <2> QED
    BY <2>1, <2>2, WritingKeeps DEF UpdateRequest
<1> QED
  BY <1>2, <1>3

-----------------------------------------------------------------------------
(* Employees. *)

LEMMA CreateEmployeeStep == ASSUME IInv, NEW n \in Newcomers, CreateEmployee(n) PROVE IInv'
<1> DEFINE first == [who |-> n.who, from |-> n.from, to |-> Forever, post |-> n.post]
<1>1. /\ n.who \in People \ Registered /\ n.leader \in BOOLEAN /\ n.substitute \in BOOLEAN
      /\ n.post \in Post /\ n.from \in Days
  BY VacationBounds DEF CreateEmployee
<1>2. /\ first \in Shift /\ first.who = n.who /\ first.from = n.from /\ first.to = Forever
  BY <1>1, Dates DEF Shift
<1> HIDE DEF first
<1>3. shifts' = shifts \cup {first}
  BY DEF CreateEmployee, first
<1>4. Registered' = Registered \cup {n.who} /\ staff' \in [Registered' -> Flags]
  BY <1>1 DEF CreateEmployee, IInv, TypeOK, Registered, Flags
<1>5. TypeOK'
  BY <1>1, <1>2, <1>3, <1>4 DEF CreateEmployee, IInv, TypeOK
<1>6. Covered(shifts')
  <2>1. \A s \in shifts : s.who # first.who
    BY <1>1, <1>2 DEF IInv, TypeOK
  <2>2. first.from \in Nat /\ first.from <= first.to
    BY <1>1, <1>2, Dates
  <2>3. ASSUME NEW day \in first.from .. LastDay PROVE Only(shifts', first, day, first)
    BY <1>2, <1>3, <2>1, <2>2, Dates DEF Only, Covers
  <2>4. ASSUME NEW s \in shifts, NEW day \in s.from .. LastDay
        PROVE  \E r \in shifts' : Only(shifts', s, day, r)
    <3>1. PICK r \in shifts : Only(shifts, s, day, r)
      BY <2>4 DEF IInv, Covered
    <3> QED
      BY <1>3, <2>1, <3>1 DEF Only
  <2>5. \A s \in shifts' : s.from <= s.to
    BY <1>3, <2>2 DEF IInv, Covered
  <2>6. ASSUME NEW s \in shifts', NEW day \in s.from .. LastDay
        PROVE  \E r \in shifts' : Only(shifts', s, day, r)
    <3>1. CASE s = first
      BY <1>3, <2>3, <2>6, <3>1
    <3>2. CASE s \in shifts
      BY <2>4, <2>6, <3>2
    <3> QED
      BY <1>3, <2>6, <3>1, <3>2
  <2> QED
    BY <2>5, <2>6 DEF Covered
<1>7. VerdictTellsDecisions'
  BY DEF CreateEmployee, IInv, VerdictTellsDecisions
<1> QED
  BY <1>5, <1>6, <1>7 DEF IInv, Covered, Only, Covers

LEMMA ChangeStep ==
  ASSUME IInv, NEW e \in Registered, NEW post \in Posts, NEW day \in Days,
         ChangeAssignment(e, post, day)
  PROVE  IInv'
<1>1. shifts \subseteq Shift /\ Covered(shifts) /\ e \in People /\ post \in Post
  BY VacationBounds DEF IInv, TypeOK
<1>2. shifts' \subseteq Shift /\ Covered(shifts')
  BY <1>1, ReassignedKeeps DEF ChangeAssignment
<1>3. \A s \in shifts' : s.who \in Registered
  <2>1. \A s \in shifts : s.who \in Registered
    BY DEF IInv, TypeOK
  <2>2. \A s \in shifts' : s \in shifts \/ s.who = e
    BY <1>1, ReassignedKeeps DEF ChangeAssignment
  <2> QED
    BY <2>1, <2>2
<1>4. TypeOK' /\ VerdictTellsDecisions'
  BY <1>2, <1>3 DEF ChangeAssignment, IInv, TypeOK, Registered, VerdictTellsDecisions
<1> QED
  BY <1>2, <1>4 DEF IInv, Covered, Only, Covers

-----------------------------------------------------------------------------
(* The invariant, and what it is for. *)

LEMMA InitialPlan == Init => IInv
<1>1. SUFFICES ASSUME Init PROVE IInv
  OBVIOUS
<1>2. TypeOK
  BY <1>1 DEF Init, TypeOK, Registered
<1> QED
  BY <1>1, <1>2 DEF Init, IInv, Covered, VerdictTellsDecisions

\* IInv holds in every reachable state of the plan.
THEOREM Invariance == Spec => []IInv
<1>1. IInv /\ [Next]_vars => IInv'
  <2>1. SUFFICES ASSUME IInv, [Next]_vars PROVE IInv'
    OBVIOUS
  <2>2. CASE UNCHANGED vars
    <3>1. staff' = staff /\ shifts' = shifts /\ requests' = requests
      BY <2>2 DEF vars
    <3>2. Covered(shifts)'
      BY <2>1, <3>1 DEF IInv, Covered, Only, Covers
    <3>3. VerdictTellsDecisions'
      BY <2>1, <3>1 DEF IInv, VerdictTellsDecisions
    <3>4. TypeOK'
      BY <2>1, <3>1 DEF IInv, TypeOK, Registered
    <3> QED
      BY <3>2, <3>3, <3>4 DEF IInv
  <2>3. CASE Next
    BY <2>1, <2>3, CreateEmployeeStep, RequestSteps, ResolveStep, ChangeStep DEF Next
  <2> QED
    BY <2>1, <2>2, <2>3
<1> QED
  BY <1>1, InitialPlan, PTL DEF Spec

\* Whatever changes of assignment are entered, and in whatever order of their dates,
\* an employee has one post on every day from the first one on
\* (repositories/employees.py:103-214).
THEOREM OnePost == Spec => []OnePostADay
<1>1. IInv => OnePostADay
  <2>1. SUFFICES ASSUME IInv, NEW s \in shifts, NEW day \in s.from .. LastDay
                 PROVE  Cardinality(RowsOn(s.who, day)) = 1
    BY DEF OnePostADay
  <2>2. PICK r \in shifts : Only(shifts, s, day, r)
    BY <2>1 DEF IInv, Covered
  <2>3. RowsOn(s.who, day) = {r}
    BY <2>2 DEF RowsOn, Only
  <2> QED
    BY <2>3, FS_Singleton
<1> QED
  BY <1>1, Invariance, PTL

\* The status of a request is that of its conflicts, after every rewriting and
\* decision (repositories/requests.py:147, repositories/conflicts.py:32).
THEOREM VerdictsAreTrue == Spec => []VerdictTellsDecisions
BY Invariance, PTL DEF IInv

-----------------------------------------------------------------------------
(* Clashes of two requests. *)

\* Only registered employees file.
Filed == \A i \in DOMAIN requests : requests[i].form.who \in Registered

ClashInv == IInv /\ Filed /\ NoSilentClash

LEMMA FormFacts ==
  ASSUME NEW f \in Form
  PROVE  f.from \in Days /\ f.to \in Days /\ f.from \in Nat /\ f.to \in Nat
         /\ f.who \in People /\ f.substitute \in People \cup {Nobody}
         /\ f.status \in {Planned, Refused, Cancelled}
BY Dates DEF Form

LEMMA OnRecord ==
  ASSUME IInv, NEW i \in DOMAIN requests
  PROVE  requests[i] \in Request /\ requests[i].form \in Form
<1>1. requests[i] \in Request
  BY DEF IInv, TypeOK
<1> QED
  BY <1>1 DEF Request

\* Writing a request leaves all the others, which the new one was compared with.
Puts(k, f, except) ==
  /\ DOMAIN requests' = DOMAIN requests \cup {k} /\ requests'[k] = Entry(f, except)
  /\ \A j \in DOMAIN requests' \ {k} : j \in DOMAIN requests \ except /\ requests'[j] = requests[j]
  /\ staff' = staff /\ shifts' = shifts

LEMMA RequestPut ==
  ASSUME IInv, NEW f \in Forms, CreateRequest(f) \/ \E i \in DOMAIN requests : UpdateRequest(i, f)
  PROVE  f \in Form /\ Valid(f) /\ \E k, except : Puts(k, f, except)
<1>1. f \in Form
  BY VacationBounds
<1>2. requests \in Seq(Request) /\ Len(requests) \in Nat /\ DOMAIN requests = 1 .. Len(requests)
  BY DEF IInv, TypeOK
<1>3. CASE CreateRequest(f)
  <2>1. /\ DOMAIN requests' = 1 .. (Len(requests) + 1) /\ requests'[Len(requests) + 1] = Entry(f, {})
        /\ \A j \in 1 .. Len(requests) : requests'[j] = requests[j]
    BY <1>1, <1>2, <1>3, EntryFacts DEF CreateRequest
  <2>2. Puts(Len(requests) + 1, f, {})
    BY <1>2, <1>3, <2>1 DEF Puts, CreateRequest
  <2> QED
    BY <1>1, <1>3, <2>2 DEF CreateRequest
<1>4. CASE \E i \in DOMAIN requests : UpdateRequest(i, f)
  <2>1. PICK i \in DOMAIN requests : UpdateRequest(i, f)
    BY <1>4
  <2>2. Puts(i, f, {i})
    BY <1>2, <2>1 DEF Puts, UpdateRequest
  <2> QED
    BY <1>1, <2>1, <2>2 DEF UpdateRequest
<1> QED
  BY <1>3, <1>4

\* What the first rules of detect_conflicts see.
LEMMA ClashFound ==
  ASSUME NEW f \in Form, NEW except, NEW j \in DOMAIN requests \ except,
         Active(requests[j]), Meets(requests[j].form, f),
         \/ requests[j].form.who = f.who
         \/ staff[requests[j].form.who].leader /\ staff[f.who].leader
  PROVE  Conflicts(f, except) # {}
<1> DEFINE g == requests[j].form
           code == IF g.who = f.who THEN "EMPLOYEE_OVERLAP" ELSE "LEADERSHIP_OVERLAP"
           day == IF f.from >= g.from THEN f.from ELSE g.from
<1>1. g \in Overlapping(f, except)
  BY DEF Overlapping
<1>2. New(code, day, g.who) \in PairConflicts(f, g)
  BY DEF PairConflicts
<1> QED
  BY <1>1, <1>2 DEF Conflicts

LEMMA ClashStep ==
  ASSUME ClashInv, NEW f \in Form, Valid(f), NEW k, NEW except, Puts(k, f, except)
  PROVE  Filed' /\ NoSilentClash'
<1> DEFINE Clashes(r, s) == /\ Active(r) /\ Active(s) /\ Meets(r.form, s.form)
                            /\ \/ r.form.who = s.form.who
                               \/ staff[r.form.who].leader /\ staff[s.form.who].leader
<1>1. \A j \in DOMAIN requests : requests[j] \in Request /\ requests[j].form \in Form
  BY OnRecord DEF ClashInv
<1>2. Entry(f, except).form = f
  BY DEF Entry
<1>3. Filed'
  BY <1>2 DEF ClashInv, Filed, Puts, Valid, Registered
<1>4. ASSUME NEW j \in DOMAIN requests' \ {k},
             Clashes(requests'[k], requests'[j]) \/ Clashes(requests'[j], requests'[k])
      PROVE  requests'[k].verdict # Clear
  <2>1. j \in DOMAIN requests \ except /\ requests'[j] = requests[j] /\ requests'[k] = Entry(f, except)
    BY DEF Puts
  <2>2. Active(requests[j]) /\ Active(Entry(f, except))
    BY <1>4, <2>1
  <2>3. Meets(requests[j].form, f)
    BY <1>1, <1>2, <1>4, <2>1, FormFacts DEF Meets
  <2>4. \/ requests[j].form.who = f.who
        \/ staff[requests[j].form.who].leader /\ staff[f.who].leader
    BY <1>2, <1>4, <2>1
  <2>5. Conflicts(f, except) # {}
    BY <2>1, <2>2, <2>3, <2>4, ClashFound
  <2>6. f.status \notin {Refused, Cancelled}
    BY <1>2, <2>2 DEF Active
  <2> QED
    BY <2>1, <2>5, <2>6 DEF Entry, Clear, Undecided
<1>5. ASSUME NEW i \in DOMAIN requests', NEW j \in DOMAIN requests', i # j,
             Clashes(requests'[i], requests'[j])
      PROVE  requests'[i].verdict # Clear \/ requests'[j].verdict # Clear
  <2>1. CASE i = k \/ j = k
    BY <1>4, <1>5, <2>1
  <2>2. CASE i # k /\ j # k
    <3>1. requests'[i] = requests[i] /\ requests'[j] = requests[j] /\ i \in DOMAIN requests /\ j \in DOMAIN requests
      BY <2>2 DEF Puts
    <3> QED
      BY <1>5, <3>1 DEF ClashInv, NoSilentClash
  <2> QED
    BY <2>1, <2>2
<1>6. NoSilentClash'
  BY <1>5 DEF NoSilentClash, Puts
<1> QED
  BY <1>3, <1>6

\* A decision makes nothing clear, and puts nothing in force again.
LEMMA DecisionFacts ==
  ASSUME IInv, NEW i \in DOMAIN requests, NEW decision \in {"APPROVED", TurnedDown}, Resolve(i, decision)
  PROVE  /\ DOMAIN requests' = DOMAIN requests
         /\ \A j \in DOMAIN requests \ {i} : requests'[j] = requests[j]
         /\ requests'[i].verdict # Clear
         /\ Active(requests'[i]) => Active(requests[i]) /\ requests'[i].form = requests[i].form
         /\ requests'[i].form.who = requests[i].form.who
         /\ requests[i].verdict = Undecided
         /\ requests'[i].verdict \in {Exception, TurnedDown}
<1>1. requests \in Seq(Request) /\ requests[i] \in Request /\ Told(requests[i])
  BY VerdictsByRequest DEF IInv, TypeOK
<1>2. requests[i].verdict = Undecided
  <2>1. PICK c \in requests[i].conflicts : c.decision = Undecided
    BY DEF Resolve
  <2>2. requests[i].verdict \in {Clear, Undecided, Exception, TurnedDown}
    BY <1>1 DEF Request
  <2> QED
    BY <1>1, <2>1, <2>2 DEF Told, Clear, Undecided, Exception, TurnedDown
<1>3. requests[i].form \in Form
  BY <1>1 DEF Request
<1>4. /\ DOMAIN requests' = DOMAIN requests
      /\ \A j \in DOMAIN requests \ {i} : requests'[j] = requests[j]
      /\ requests'[i].verdict = IF decision = TurnedDown THEN TurnedDown ELSE Exception
      /\ requests'[i].form = IF decision = TurnedDown THEN [requests[i].form EXCEPT !.status = Refused]
                                                      ELSE requests[i].form
  BY <1>1 DEF Resolve
<1>5. [requests[i].form EXCEPT !.status = Refused].who = requests[i].form.who
  BY <1>3 DEF Form
<1> QED
  BY <1>2, <1>4, <1>5 DEF Active, Clear, Undecided, Exception, TurnedDown

LEMMA DecisionStep ==
  ASSUME ClashInv, NEW i \in DOMAIN requests, NEW decision \in {"APPROVED", TurnedDown}, Resolve(i, decision)
  PROVE  Filed' /\ NoSilentClash'
<1>1. staff' = staff
  BY DEF Resolve
<1>2. \A j \in DOMAIN requests' : /\ j \in DOMAIN requests /\ requests'[j].form.who = requests[j].form.who
                                  /\ j # i => requests'[j] = requests[j]
  BY DecisionFacts DEF ClashInv
<1>3. Filed'
  BY <1>1, <1>2 DEF ClashInv, Filed, Registered
<1>4. requests'[i].verdict # Clear
  BY DecisionFacts DEF ClashInv
<1>5. NoSilentClash'
  BY <1>1, <1>2, <1>4 DEF ClashInv, NoSilentClash
<1> QED
  BY <1>3, <1>5

\* A newcomer has filed nothing, and nobody's flags change.
LEMMA NewcomerStep ==
  ASSUME ClashInv, NEW n \in Newcomers, CreateEmployee(n)
  PROVE  Filed' /\ NoSilentClash'
<1>1. /\ n.who \notin Registered /\ requests' = requests
      /\ Registered' = Registered \cup {n.who} /\ \A e \in Registered : staff'[e] = staff[e]
  BY DEF CreateEmployee, Registered
<1>2. Filed'
  BY <1>1 DEF ClashInv, Filed
<1>3. NoSilentClash'
  BY <1>1 DEF ClashInv, NoSilentClash, Filed
<1> QED
  BY <1>2, <1>3

LEMMA ClashInvariance == Spec => []ClashInv
<1>1. Init => Filed /\ NoSilentClash
  BY DEF Init, Filed, NoSilentClash
<1>2. ClashInv /\ [Next]_vars => Filed' /\ NoSilentClash'
  <2>1. SUFFICES ASSUME ClashInv, [Next]_vars PROVE Filed' /\ NoSilentClash'
    OBVIOUS
  <2>2. CASE UNCHANGED vars
    BY <2>1, <2>2 DEF ClashInv, Filed, NoSilentClash, Registered, vars
  <2>3. ASSUME NEW n \in Newcomers, CreateEmployee(n) PROVE Filed' /\ NoSilentClash'
    BY <2>1, <2>3, NewcomerStep
  <2>4. ASSUME NEW f \in Forms, CreateRequest(f) \/ \E i \in DOMAIN requests : UpdateRequest(i, f)
        PROVE  Filed' /\ NoSilentClash'
    <3>1. f \in Form /\ Valid(f) /\ \E k, except : Puts(k, f, except)
      BY <2>1, <2>4, RequestPut DEF ClashInv
    <3> QED
      BY <2>1, <3>1, ClashStep
  <2>5. ASSUME NEW i \in DOMAIN requests, NEW d \in {"APPROVED", TurnedDown}, Resolve(i, d)
        PROVE  Filed' /\ NoSilentClash'
    BY <2>1, <2>5, DecisionStep
  <2>6. ASSUME NEW e \in Registered, NEW p \in Posts, NEW day \in Days, ChangeAssignment(e, p, day)
        PROVE  Filed' /\ NoSilentClash'
    BY <2>1, <2>6 DEF ChangeAssignment, ClashInv, Filed, NoSilentClash, Registered
  <2> QED
    BY <2>1, <2>2, <2>3, <2>4, <2>5, <2>6 DEF Next
<1> QED
  BY <1>1, <1>2, Invariance, PTL DEF Spec, ClashInv

\* For any plan: two vacations in force that share a day and belong to one employee
\* or to two leaders are never both without a conflict, whichever was written last
\* (services.py detect_conflicts).
THEOREM ClashesAreSeen == Spec => []NoSilentClash
BY ClashInvariance, PTL DEF ClashInv

-----------------------------------------------------------------------------
(* Duty shifts and those who leave them. *)

\* An employee who is scheduled holds the post of that shift.
LEMMA OnShift ==
  ASSUME IInv, NEW site, NEW day \in Days, NEW e \in Scheduled(site, ShiftGroupOn(day), day)
  PROVE  /\ HoldsOneThree(e, day)
         /\ PostOn(e, day) = [site |-> site, schedule |-> OneThree, group |-> ShiftGroupOn(day)]
<1>1. PICK s \in shifts : /\ Covers(s, day) /\ s.who = e
                          /\ s.post = [site |-> site, schedule |-> OneThree, group |-> ShiftGroupOn(day)]
  BY DEF Scheduled
<1>2. s.from \in Nat /\ day \in Nat /\ day <= LastDay
  BY ShiftFacts, Dates DEF IInv, TypeOK
<1>3. day \in s.from .. LastDay
  BY <1>1, <1>2, Dates DEF Covers
<1>4. RowsOn(e, day) = {s}
  BY <1>1, <1>3 DEF IInv, Covered, Only, RowsOn
<1>5. Latest(RowsOn(e, day)) = s
  BY <1>2, <1>4 DEF Latest
<1> QED
  BY <1>1, <1>4, <1>5 DEF HoldsOneThree, PostOn, Assigned

LEMMA SameShifts ==
  ASSUME shifts' = shifts, staff' = staff, NEW site, NEW group, NEW day, NEW e
  PROVE  /\ Scheduled(site, group, day)' = Scheduled(site, group, day)
         /\ HoldsOneThree(e, day)' = HoldsOneThree(e, day)
BY DEF Scheduled, HoldsOneThree, Assigned, PostOn, RowsOn, Covers

\* The request that takes the last one away is written with an open conflict.
LEMMA LossSeen ==
  ASSUME IInv, NEW f \in Form, NEW k, NEW except, Puts(k, f, except), Valid(f),
         NEW site \in Sites, NEW day \in Days,
         Attended(site, day), ~Attended(site, day)', ~StoodInFor(site, day)'
  PROVE  /\ requests'[k].form.from <= day /\ day <= requests'[k].form.to
         /\ requests'[k].verdict = Undecided
<1> DEFINE group == ShiftGroupOn(day)
           away == Overlapping(f, except)
<1>1. PICK e \in Scheduled(site, group, day) : ~AwayIn(AwayForms, e, day)
  BY DEF Attended
<1>2. shifts' = shifts /\ staff' = staff /\ requests'[k] = Entry(f, except) /\ k \in DOMAIN requests'
      /\ requests'[k].form = f
      /\ \A j \in DOMAIN requests' \ {k} : j \in DOMAIN requests \ except /\ requests'[j] = requests[j]
  BY DEF Puts, Entry
<1>3. \A u \in Scheduled(site, group, day) : AwayIn(AwayForms', u, day)
  <2>1. Scheduled(site, group, day)' = Scheduled(site, group, day)
    BY <1>2, SameShifts
  <2> QED
    BY <2>1 DEF Attended, AwayIn
\* A form in force afterwards is the new one, or was compared with it.
<1>4. ASSUME NEW g \in AwayForms', g.from <= day, day <= g.to
      PROVE  (g = f /\ Active(Entry(f, except))) \/ g \in AwayForms
  BY <1>2, <1>4 DEF AwayForms
<1>5. f.who = e /\ f.from <= day /\ day <= f.to /\ Active(Entry(f, except))
  BY <1>1, <1>3, <1>4 DEF AwayIn
<1>6. ASSUME NEW g \in AwayForms', g.from <= day, day <= g.to
      PROVE  g = f \/ g \in away
  <2>1. PICK j \in DOMAIN requests' : Active(requests'[j]) /\ g = requests'[j].form
    BY <1>6 DEF AwayForms
  <2>2. CASE j = k
    BY <1>2, <2>1, <2>2
  <2>3. CASE j # k
    <3>1. j \in DOMAIN requests \ except /\ requests'[j] = requests[j] /\ requests[j].form \in Form
      BY <1>2, <2>3, OnRecord
    <3>2. Meets(g, f)
      BY <1>5, <1>6, <2>1, <3>1, FormFacts, Dates DEF Meets
    <3> QED
      BY <2>1, <3>1, <3>2 DEF Overlapping
  <2> QED
    BY <2>2, <2>3
<1>7. HoldsOneThree(e, day) /\ PostOn(e, day).site = site /\ PostOn(e, day).group = group
  BY <1>1, OnShift
<1>8. \A u \in Scheduled(site, group, day) \ {f.who} : AwayIn(away, u, day)
  BY <1>3, <1>6 DEF AwayIn
<1>9. ~SubstituteReady(f.substitute, day, away)
  <2>1. SUFFICES ASSUME SubstituteReady(f.substitute, day, away) PROVE FALSE
    OBVIOUS
  <2>2. f.substitute # f.who
    BY DEF Valid
  <2>3. ~AwayIn(AwayForms', f.substitute, day)
    BY <1>6, <2>1, <2>2 DEF SubstituteReady, AwayIn
  <2>4. HoldsOneThree(f.substitute, day)' = HoldsOneThree(f.substitute, day)
    BY <1>2, SameShifts
  <2>5. SubstituteReady(f.substitute, day, AwayForms)'
    BY <1>2, <2>1, <2>3, <2>4 DEF SubstituteReady, AwayIn
  <2>6. f \in AwayForms'
    BY <1>2, <1>5 DEF AwayForms
  <2>7. f.who \in Scheduled(site, group, day)'
    BY <1>1, <1>2, <1>5, SameShifts
  <2> QED
    BY <1>5, <2>5, <2>6, <2>7 DEF StoodInFor
<1>10. day \in Uncovered(f, away)
  BY <1>5, <1>7, <1>8, <1>9, FormFacts, Dates DEF Uncovered
<1>11. Conflicts(f, except) # {}
  BY <1>10 DEF Conflicts
<1>12. f.status \notin {Refused, Cancelled}
  BY <1>5 DEF Active, Entry
<1> QED
  BY <1>2, <1>5, <1>11, <1>12 DEF Entry

\* For any plan: no request and no decision takes the last one from a duty shift
\* unless a vacation of that day has an open or accepted conflict
\* (_coverage_conflicts).
THEOREM LossesAreFlagged == Spec => ShiftLossIsFlagged
<1>1. IInv /\ [Next]_vars => [shifts' = shifts =>
       \A site \in Sites, day \in Days :
         Attended(site, day) /\ ~Attended(site, day)' /\ ~StoodInFor(site, day)' =>
           \E i \in DOMAIN requests' :
             /\ requests'[i].form.from <= day /\ day <= requests'[i].form.to
             /\ requests'[i].verdict \in {Undecided, Exception}]_vars
  <2>1. SUFFICES ASSUME IInv, Next, shifts' = shifts, NEW site \in Sites, NEW day \in Days,
                        Attended(site, day), ~Attended(site, day)', ~StoodInFor(site, day)'
                 PROVE  \E i \in DOMAIN requests' :
                          /\ requests'[i].form.from <= day /\ day <= requests'[i].form.to
                          /\ requests'[i].verdict \in {Undecided, Exception}
    OBVIOUS
  <2>2. requests' # requests
    BY <2>1 DEF Attended, Scheduled, AwayForms, AwayIn, Covers
  <2>3. ASSUME NEW f \in Forms, CreateRequest(f) \/ \E i \in DOMAIN requests : UpdateRequest(i, f)
        PROVE  \E i \in DOMAIN requests' :
                 /\ requests'[i].form.from <= day /\ day <= requests'[i].form.to
                 /\ requests'[i].verdict \in {Undecided, Exception}
    <3>1. PICK k, except : f \in Form /\ Valid(f) /\ Puts(k, f, except)
      BY <2>1, <2>3, RequestPut
    <3>2. k \in DOMAIN requests'
      BY <3>1 DEF Puts
    <3> QED
      BY <2>1, <3>1, <3>2, LossSeen
  <2>4. ASSUME NEW i \in DOMAIN requests, NEW d \in {"APPROVED", TurnedDown}, Resolve(i, d)
        PROVE  FALSE
    <3>1. \A j \in DOMAIN requests' : /\ j \in DOMAIN requests
                                      /\ Active(requests'[j]) => /\ Active(requests[j])
                                                                 /\ requests'[j].form = requests[j].form
      BY <2>1, <2>4, DecisionFacts
    <3>2. AwayForms' \subseteq AwayForms
      BY <3>1 DEF AwayForms
    <3>3. Scheduled(site, ShiftGroupOn(day), day)' = Scheduled(site, ShiftGroupOn(day), day)
      BY <2>1, <2>4, SameShifts DEF Resolve
    <3> QED
      BY <2>1, <3>2, <3>3 DEF Attended, AwayIn
  <2> QED
    BY <2>1, <2>2, <2>3, <2>4 DEF Next, CreateEmployee, ChangeAssignment
<1> QED
  BY <1>1, Invariance, PTL DEF Spec, ShiftLossIsFlagged

-----------------------------------------------------------------------------
(* The knowledge base. *)

Uploading == [at : {"open", "write", "record"}, article : 1 .. MaxArticles, file : FileNames]

\* A name on record is a file with all its bytes; one copy of the database names it once.
RowsOnRecord(c, names) ==
  /\ \A r \in c.rows : r.file # Elsewhere => r.file \in names
  /\ \A r, s \in c.rows : s.file = r.file /\ r.file # Elsewhere => s = r

KnowledgeInv ==
  /\ upload = Idle \/ upload \in Uploading
  /\ upload # Idle => upload.file \notin noted
  /\ upload # Idle /\ upload.at = "record" => upload.file \in DOMAIN files /\ files[upload.file] = "whole"
  /\ \A f \in noted : f \in DOMAIN files /\ files[f] = "whole"
  /\ \A c \in copies \cup {db} : RowsOnRecord(c, noted)
  /\ \A f \in DOMAIN files \ noted : died \/ (upload # Idle /\ f = upload.file)

LEMMA IdleStep == ASSUME NEW u \in Uploading PROVE u # Idle /\ u.file \in FileNames
BY DEF Uploading, Idle

LEMMA HoldingFiles ==
  ASSUME NEW f, NEW much
  PROVE  /\ DOMAIN Holding(f, much) = DOMAIN files \cup {f}
         /\ Holding(f, much)[f] = much
         /\ \A g \in DOMAIN files : g # f => Holding(f, much)[g] = files[g]
BY DEF Holding

\* Rows keep their standing while no name goes off record.
LEMMA CopiesStand ==
  ASSUME KnowledgeInv, noted' = noted, copies' \cup {db'} \subseteq copies \cup {db}
  PROVE  \A c \in copies' \cup {db'} : RowsOnRecord(c, noted')
BY DEF KnowledgeInv, RowsOnRecord

LEMMA RecordStep ==
  ASSUME KnowledgeInv, Record
  PROVE  KnowledgeInv'
<1> DEFINE row == [id |-> db.given + 1, article |-> upload.article, file |-> upload.file]
           name == upload.file
<1>1. upload \in Uploading /\ name \in FileNames /\ name \notin noted /\ name \in DOMAIN files /\ files[name] = "whole"
  BY IdleStep DEF KnowledgeInv, Record, Idle, Uploading
<1>2. noted' = noted \cup {name} /\ copies' = copies /\ files' = files /\ upload' = Idle /\ died' = died
  BY DEF Record
<1>3. \A c \in copies \cup {db} : RowsOnRecord(c, noted')
  BY <1>2 DEF KnowledgeInv, RowsOnRecord
<1>4. RowsOnRecord(db', noted')
  <2>1. \A r \in db'.rows : r \in db.rows \/ r = row
    BY DEF Record
  <2>2. \A r \in db.rows : r.file = name => r.file = Elsewhere
    BY <1>1 DEF KnowledgeInv, RowsOnRecord
  <2>3. row.file = name /\ name # Elsewhere
    BY <1>1, KnowledgeBounds
  <2>4. RowsOnRecord(db, noted)
    BY DEF KnowledgeInv
  <2> QED
    BY <1>2, <2>1, <2>2, <2>3, <2>4 DEF RowsOnRecord
<1>5. \A c \in copies' \cup {db'} : RowsOnRecord(c, noted')
  BY <1>2, <1>3, <1>4
<1> QED
  BY <1>1, <1>2, <1>5 DEF KnowledgeInv

\* For any names and bounds: whatever fails, dies, is replaced or restored, each
\* attachment on record has its own whole file, a readable article serves it, and
\* only a crash leaves a file that no row ever named (facade.py:319).
THEOREM AttachmentsAgree == KnowledgeSpec => []FilesAndRowsAgree
<1>1. InitKnowledge => KnowledgeInv
  BY DEF InitKnowledge, KnowledgeInv, RowsOnRecord, NewFile, Idle
<1>2. KnowledgeInv /\ [NextKnowledge]_knowledgeVars => KnowledgeInv'
  <2>1. SUFFICES ASSUME KnowledgeInv, [NextKnowledge]_knowledgeVars PROVE KnowledgeInv'
    OBVIOUS
  <2>2. CASE CreateArticle
    <3>1. db'.rows = db.rows /\ UNCHANGED <<copies, files, upload, died, noted>>
      BY <2>2 DEF CreateArticle
    <3> QED
      BY <2>1, <3>1 DEF KnowledgeInv, RowsOnRecord
  <2>3. ASSUME NEW a \in 1 .. MaxArticles, DeleteArticle(a) PROVE KnowledgeInv'
    <3>1. db'.rows = db.rows /\ UNCHANGED <<copies, files, upload, died, noted>>
      BY <2>3 DEF DeleteArticle
    <3> QED
      BY <2>1, <3>1 DEF KnowledgeInv, RowsOnRecord
  <2>4. ASSUME NEW a \in 1 .. MaxArticles, NEW f \in FileNames, Begin(a, f) PROVE KnowledgeInv'
    <3>1. upload' \in Uploading /\ upload' = [at |-> "open", article |-> a, file |-> f] /\ f \notin noted
      BY <2>4 DEF Begin, Uploading
    <3>2. upload = Idle /\ UNCHANGED <<db, copies, files, died, noted>>
      BY <2>4 DEF Begin
    <3> QED
      BY <2>1, <3>1, <3>2, CopiesStand DEF KnowledgeInv
  <2>5. CASE Open
    <3>1. upload \in Uploading /\ upload # Idle /\ upload.file \notin noted
      BY <2>1, <2>5, IdleStep DEF KnowledgeInv, Open, Idle
    <3>2. upload' \in Uploading /\ upload'.file = upload.file /\ upload'.at = "write" /\ upload' # Idle
      BY <2>5, <3>1, IdleStep DEF Open, Uploading
    <3>3. UNCHANGED <<db, copies, died, noted>> /\ files' = Holding(upload.file, "part")
      BY <2>5 DEF Open
    <3>4. /\ DOMAIN files' = DOMAIN files \cup {upload.file} /\ files'[upload.file] = "part"
          /\ \A g \in DOMAIN files : g # upload.file => files'[g] = files[g]
      BY <3>3 DEF Holding
    <3> QED
      BY <2>1, <3>1, <3>2, <3>3, <3>4, CopiesStand DEF KnowledgeInv
  <2>6. CASE Write
    <3>1. upload \in Uploading /\ upload # Idle /\ upload.file \notin noted
      BY <2>1, <2>6, IdleStep DEF KnowledgeInv, Write, Idle
    <3>2. upload' \in Uploading /\ upload'.file = upload.file /\ upload'.at = "record" /\ upload' # Idle
      BY <2>6, <3>1, IdleStep DEF Write, Uploading
    <3>3. UNCHANGED <<db, copies, died, noted>> /\ files' = Holding(upload.file, "whole")
      BY <2>6 DEF Write
    <3>4. /\ DOMAIN files' = DOMAIN files \cup {upload.file} /\ files'[upload.file] = "whole"
          /\ \A g \in DOMAIN files : g # upload.file => files'[g] = files[g]
      BY <3>3 DEF Holding
    <3> QED
      BY <2>1, <3>1, <3>2, <3>3, <3>4, CopiesStand DEF KnowledgeInv
  <2>7. CASE Record
    BY <2>1, <2>7, RecordStep
  <2>8. CASE Fail
    <3>1. upload' = Idle /\ upload # Idle /\ UNCHANGED <<db, copies, died, noted>>
      BY <2>8 DEF Fail
    <3>2. DOMAIN files' = DOMAIN files \ {upload.file} /\ \A g \in DOMAIN files' : files'[g] = files[g]
      BY <2>8 DEF Fail
    <3> QED
      BY <2>1, <3>1, <3>2, CopiesStand DEF KnowledgeInv
  <2>9. CASE Die
    BY <2>1, <2>9, CopiesStand DEF KnowledgeInv, Die
  <2>10. CASE Backup
    BY <2>1, <2>10, CopiesStand DEF KnowledgeInv, Backup
  <2>11. ASSUME NEW c \in copies \cup {Foreign}, Replace(c) PROVE KnowledgeInv'
    <3>1. db' = c /\ UNCHANGED <<copies, files, upload, died, noted>>
      BY <2>11 DEF Replace
    <3>2. RowsOnRecord(Foreign, noted)
      BY DEF Foreign, NewFile, RowsOnRecord
    <3>3. RowsOnRecord(c, noted)
      BY <2>1, <3>2 DEF KnowledgeInv
    <3> QED
      BY <2>1, <3>1, <3>3 DEF KnowledgeInv, RowsOnRecord
  <2>12. CASE UNCHANGED knowledgeVars
    BY <2>1, <2>12, CopiesStand DEF KnowledgeInv, knowledgeVars
  <2> QED
    BY <2>1, <2>2, <2>3, <2>4, <2>5, <2>6, <2>7, <2>8, <2>9, <2>10, <2>11, <2>12 DEF NextKnowledge
<1>3. KnowledgeInv => FilesAndRowsAgree
  BY DEF KnowledgeInv, FilesAndRowsAgree, RowsOnRecord, Served
<1> QED
  BY <1>1, <1>2, <1>3, PTL DEF KnowledgeSpec

-----------------------------------------------------------------------------
(* The journal of works. *)

Fields == {"day", "source", "number", "text", "status", "section", "steps", "due", "flagged"}

\* A row that may come in, and one that may stand in the journal.
Row(r) == DOMAIN r = Fields /\ r.day \in Int /\ r.steps \subseteq Steps
PnrTrue(r) == r.source = Pnr => (r.status = Done <=> Remaining(r) = {})

\* What a preview showed of a row: refused, or what would be written on some day.
ShownOf(e, soft, shown) ==
  \/ shown = [refused |-> e]
  \/ \E day \in Int :
       shown = Prepared(IF soft THEN [e EXCEPT !.day = IF @ = NoDate THEN day ELSE @,
                                               !.source = Given(@, Unnamed),
                                               !.status = Given(@, Done)]
                        ELSE e)

JournalInv ==
  /\ made \in Nat /\ today \in Nat
  /\ DOMAIN logs \subseteq 1 .. made
  /\ \A id \in DOMAIN logs : Row(logs[id]) /\ PnrTrue(logs[id])
  /\ pending # NoPreview =>
       /\ DOMAIN pending = {"rows", "soft", "shown"}
       /\ pending.soft \in BOOLEAN
       /\ DOMAIN pending.rows = 1 .. Len(pending.rows) /\ Len(pending.rows) \in Nat
       /\ DOMAIN pending.shown = DOMAIN pending.rows
       /\ \A i \in DOMAIN pending.rows :
            /\ Row(pending.rows[i])
            /\ ShownOf(pending.rows[i], pending.soft, pending.shown[i])

-----------------------------------------------------------------------------

LEMMA EntryRows ==
  ASSUME NEW e \in LogEntry PROVE Row(e)
BY JournalBounds DEF LogEntry, Row, Fields

\* Only a PNR with all its steps is done.
LEMMA PreparedFacts ==
  ASSUME NEW e, Row(e)
  PROVE  /\ Row(Prepared(e)) /\ PnrTrue(Prepared(e))
         /\ Prepared(e).day = e.day /\ Prepared(e).flagged = e.flagged
<1> DEFINE p == Prepared(e)
<1>1. CASE e.source # Pnr
  <2>1. p = [e EXCEPT !.steps = {}]
    BY <1>1 DEF Prepared
  <2> QED
    BY ONLY <1>1, <2>1, Row(e) DEF Row, Fields, PnrTrue
<1>2. CASE e.source = Pnr
  <2> DEFINE kept == Accepted(e.steps)
             status == IF kept = Steps THEN Done ELSE Partial
  <2>1. p = [e EXCEPT !.steps = kept, !.text = "typed", !.status = status]
    BY <1>2 DEF Prepared
  <2>2. status = Done <=> kept = Steps
    BY DEF Done, Partial
  <2>3. kept \subseteq Steps
    BY DEF Accepted, Row
  <2>4. Remaining(p) = {} <=> kept = Steps
    <3>1. Remaining(p) = Steps \ Accepted(kept)
      <4>1. p.steps = kept
        BY <2>1 DEF Row, Fields
      <4> QED
        BY <4>1 DEF Remaining
    <3>2. Accepted(Steps) = Steps
      BY DEF Accepted, Steps, Before
    <3>3. Accepted(kept) \subseteq kept
      BY DEF Accepted
    <3> QED
      BY <2>3, <3>1, <3>2, <3>3
  <2> HIDE DEF kept, status, p
  <2>5. /\ DOMAIN p = Fields /\ p.day = e.day /\ p.flagged = e.flagged
        /\ p.steps = kept /\ p.status = status
    BY ONLY <2>1, Row(e) DEF Row, Fields
  <2> QED
    BY <2>2, <2>3, <2>4, <2>5 DEF Row, PnrTrue, p
<1> QED
  BY <1>1, <1>2

LEMMA PreparedAgain ==
  ASSUME NEW e, NEW f, Row(e), NEW day, f = [e EXCEPT !.day = day]
  PROVE  Prepared(f) = [Prepared(e) EXCEPT !.day = day]
<1>1. f.source = e.source /\ f.steps = e.steps
  BY DEF Row, Fields
<1> QED
  BY <1>1 DEF Prepared, Row, Fields

LEMMA ReadFacts ==
  ASSUME NEW e, Row(e), NEW soft \in BOOLEAN, today \in Int
  PROVE  /\ Row(Read(e, soft)) /\ Row(Migrated(e))
         /\ ShownOf(e, soft, Shown(e, soft))
<1>1. Row(Softened(e))
  BY DEF Softened, Row, Fields
<1>2. Row(Migrated(e))
  BY DEF Migrated, Row, Fields
<1>3. ShownOf(e, soft, Shown(e, soft))
  BY DEF ShownOf, Shown, Read, Softened
<1> QED
  BY <1>1, <1>2, <1>3 DEF Read

\* Rows are added behind those that are there.
LEMMA InsertFacts ==
  ASSUME made \in Nat, DOMAIN logs \subseteq 1 .. made,
         NEW n \in Nat, NEW rows, DOMAIN rows = 1 .. n, Len(rows) = n, Insert(rows)
  PROVE  /\ made' \in Nat /\ DOMAIN logs' \subseteq 1 .. made'
         /\ DOMAIN logs \subseteq DOMAIN logs'
         /\ \A id \in DOMAIN logs : logs'[id] = logs[id]
         /\ \A id \in DOMAIN logs' \ DOMAIN logs :
              \E i \in DOMAIN rows : logs'[id] = rows[i]
<1>1. /\ made' = made + n
      /\ logs' = [id \in DOMAIN logs \cup (made + 1 .. made + n) |->
                    IF id > made THEN rows[id - made] ELSE logs[id]]
  BY DEF Insert, Written
<1>2. ASSUME NEW id \in made + 1 .. made + n
      PROVE  id > made /\ id - made \in 1 .. n
  OBVIOUS
<1>3. \A id \in DOMAIN logs : ~(id > made)
  OBVIOUS
<1> QED
  BY <1>1, <1>2, <1>3

\* What the steps of the journal do to an entry: it stays, goes, is written anew or
\* gets a section; new ones are prepared rows.
InsertsOnly ==
  /\ DOMAIN logs \subseteq DOMAIN logs'
  /\ \A id \in DOMAIN logs : logs'[id] = logs[id]

LEMMA InsertKeepsInv ==
  ASSUME made \in Nat, DOMAIN logs \subseteq 1 .. made,
         \A id \in DOMAIN logs : Row(logs[id]) /\ PnrTrue(logs[id]),
         NEW n \in Nat, NEW rows, DOMAIN rows = 1 .. n, Len(rows) = n, Insert(rows),
         \A i \in DOMAIN rows : Row(rows[i]) /\ PnrTrue(rows[i])
  PROVE  /\ made' \in Nat /\ DOMAIN logs' \subseteq 1 .. made'
         /\ \A id \in DOMAIN logs' : Row(logs'[id]) /\ PnrTrue(logs'[id])
         /\ InsertsOnly
<1>1. /\ made' \in Nat /\ DOMAIN logs' \subseteq 1 .. made'
      /\ DOMAIN logs \subseteq DOMAIN logs'
      /\ \A id \in DOMAIN logs : logs'[id] = logs[id]
      /\ \A id \in DOMAIN logs' \ DOMAIN logs :
           \E i \in DOMAIN rows : logs'[id] = rows[i]
  BY InsertFacts
<1> QED
  BY <1>1 DEF InsertsOnly

\* Import writes prepared rows only.
LEMMA ImportKeeps ==
  ASSUME JournalInv, NEW n \in Nat, NEW rows, DOMAIN rows = 1 .. n, Len(rows) = n,
         \A i \in DOMAIN rows : Row(rows[i]),
         NEW soft \in BOOLEAN, Import(rows, soft)
  PROVE  /\ made' \in Nat /\ DOMAIN logs' \subseteq 1 .. made'
         /\ \A id \in DOMAIN logs' : Row(logs'[id]) /\ PnrTrue(logs'[id])
         /\ InsertsOnly
         /\ logs' = Written([i \in DOMAIN rows |-> Prepared(Read(rows[i], soft))])
         /\ \A i \in DOMAIN rows : Passes(rows[i], soft)
<1> DEFINE ready == [i \in DOMAIN rows |-> Prepared(Read(rows[i], soft))]
<1>1. \A i \in DOMAIN rows : Passes(rows[i], soft)
  BY DEF Import, ToSet
<1>2. [i \in DOMAIN rows |-> Shown(rows[i], soft)] = ready
  BY <1>1 DEF Shown
<1>3. Insert(ready)
  BY <1>2 DEF Import
<1>4. \A i \in DOMAIN ready : Row(ready[i]) /\ PnrTrue(ready[i])
  <2>1. ASSUME NEW i \in DOMAIN rows
        PROVE  Row(Prepared(Read(rows[i], soft))) /\ PnrTrue(Prepared(Read(rows[i], soft)))
    <3>1. Row(Read(rows[i], soft))
      BY ReadFacts DEF JournalInv
    <3> QED
      BY <3>1, PreparedFacts
  <2> QED
    BY <2>1
<1>5. DOMAIN ready = 1 .. n /\ Len(ready) = n
  OBVIOUS
<1>6. logs' = Written(ready)
  BY <1>3 DEF Insert
<1> HIDE DEF ready
<1>7. /\ made' \in Nat /\ DOMAIN logs' \subseteq 1 .. made'
      /\ \A id \in DOMAIN logs' : Row(logs'[id]) /\ PnrTrue(logs'[id])
      /\ InsertsOnly
  BY <1>3, <1>4, <1>5, InsertKeepsInv DEF JournalInv
<1> QED
  BY <1>1, <1>6, <1>7 DEF ready

LEMMA SheetFacts ==
  ASSUME NEW rows \in Sheets
  PROVE  /\ Len(rows) \in Nat /\ DOMAIN rows = 1 .. Len(rows)
         /\ \A i \in DOMAIN rows : Row(rows[i])
<1>1. rows \in Seq(LogEntry)
  BY JournalBounds
<1> QED
  BY <1>1, EntryRows

\* What a step may do to an entry.
Changes ==
  \A id \in DOMAIN logs :
    \/ id \notin DOMAIN logs'
    \/ \E e \in Entries : Update(id, e)
    \/ /\ logs'[id].day = logs[id].day /\ logs'[id].status = logs[id].status
       /\ \/ logs'[id].flagged = logs[id].flagged
          \/ logs'[id].section \in ActiveNames

LEMMA WrittenKeeps ==
  ASSUME JournalInv, InsertsOnly, made' \in Nat, DOMAIN logs' \subseteq 1 .. made',
         \A id \in DOMAIN logs' : Row(logs'[id]) /\ PnrTrue(logs'[id]),
         today' = today, pending' = pending \/ pending' = NoPreview
  PROVE  JournalInv' /\ Changes
BY DEF JournalInv, InsertsOnly, Changes

LEMMA EntryStepsKeep ==
  ASSUME JournalInv,
         \/ \E e \in Entries : Create(e)
         \/ \E rows \in Sheets : CreateMany(rows)
         \/ \E id \in DOMAIN logs, e \in Entries : Update(id, e)
         \/ \E id \in DOMAIN logs : Delete(id)
         \/ \E ids \in SUBSET (1 .. made) \ {{}}, s \in Sections : AssignSection(ids, s)
  PROVE  JournalInv' /\ Changes
<1>0. ASSUME NEW e \in Entries
      PROVE  LET row == Prepared([e EXCEPT !.flagged = FALSE])
             IN  Row(row) /\ PnrTrue(row)
  <2>1. Row(e)
    BY JournalBounds, EntryRows
  <2>2. Row([e EXCEPT !.flagged = FALSE])
    BY <2>1 DEF Row, Fields
  <2> QED
    BY <2>2, PreparedFacts
<1>1. CASE \E e \in Entries : Create(e)
  <2>1. PICK e \in Entries : Create(e)
    BY <1>1
  <2> DEFINE row == Prepared([e EXCEPT !.flagged = FALSE])
             rows == <<row>>
  <2>2. Row(row) /\ PnrTrue(row)
    BY <1>0
  <2>3. Insert(rows) /\ today' = today /\ pending' = pending
    BY <2>1 DEF Create
  <2> HIDE DEF row
  <2>4. DOMAIN rows = 1 .. 1 /\ Len(rows) = 1 /\ rows[1] = row
    OBVIOUS
  <2> HIDE DEF rows
  <2>5. \A i \in DOMAIN rows : Row(rows[i]) /\ PnrTrue(rows[i])
    BY <2>2, <2>4
  <2>6. /\ made' \in Nat /\ DOMAIN logs' \subseteq 1 .. made'
        /\ \A id \in DOMAIN logs' : Row(logs'[id]) /\ PnrTrue(logs'[id])
        /\ InsertsOnly
    BY <2>3, <2>4, <2>5, InsertKeepsInv DEF JournalInv
  <2> QED
    BY <2>3, <2>6, WrittenKeeps
<1>2. CASE \E rows \in Sheets : CreateMany(rows)
  <2>1. PICK rows \in Sheets : CreateMany(rows)
    BY <1>2
  <2> DEFINE ready == [i \in DOMAIN rows |-> Prepared(rows[i])]
  <2>2. Insert(ready) /\ today' = today /\ pending' = pending
    BY <2>1 DEF CreateMany
  <2>3. Len(rows) \in Nat /\ DOMAIN rows = 1 .. Len(rows)
        /\ \A i \in DOMAIN rows : Row(rows[i])
    BY SheetFacts
  <2>4. DOMAIN ready = 1 .. Len(rows) /\ Len(ready) = Len(rows)
    BY <2>3
  <2>5. \A i \in DOMAIN ready : Row(ready[i]) /\ PnrTrue(ready[i])
    BY <2>3, PreparedFacts
  <2> HIDE DEF ready
  <2>6. /\ made' \in Nat /\ DOMAIN logs' \subseteq 1 .. made'
        /\ \A id \in DOMAIN logs' : Row(logs'[id]) /\ PnrTrue(logs'[id])
        /\ InsertsOnly
    BY <2>2, <2>3, <2>4, <2>5, InsertKeepsInv DEF JournalInv
  <2> QED
    BY <2>2, <2>6, WrittenKeeps
<1>3. CASE \E id \in DOMAIN logs, e \in Entries : Update(id, e)
  <2>1. PICK id \in DOMAIN logs, e \in Entries : Update(id, e)
    BY <1>3
  <2> DEFINE row == Prepared([e EXCEPT !.flagged = FALSE])
  <2>2. Row(row) /\ PnrTrue(row)
    BY <1>0
  <2>3. /\ logs' = [logs EXCEPT ![id] = row]
        /\ made' = made /\ today' = today /\ pending' = pending
    BY <2>1 DEF Update, Rewrite
  <2> HIDE DEF row
  <2>4. DOMAIN logs' = DOMAIN logs /\ logs'[id] = row
        /\ \A x \in DOMAIN logs \ {id} : logs'[x] = logs[x]
    BY <2>3
  <2>5. JournalInv'
    BY <2>2, <2>3, <2>4 DEF JournalInv
  <2>6. Changes
    BY <2>1, <2>4 DEF Changes
  <2> QED
    BY <2>5, <2>6
<1>4. CASE \E id \in DOMAIN logs : Delete(id)
  <2>1. PICK id \in DOMAIN logs : Delete(id)
    BY <1>4
  <2>2. /\ DOMAIN logs' = DOMAIN logs \ {id}
        /\ \A x \in DOMAIN logs' : logs'[x] = logs[x]
        /\ made' = made /\ today' = today /\ pending' = pending
    BY <2>1 DEF Delete, Erase, Restrict
  <2> QED
    BY <2>2 DEF JournalInv, Changes
<1>5. CASE \E ids \in SUBSET (1 .. made) \ {{}}, s \in Sections : AssignSection(ids, s)
  <2>1. PICK ids \in SUBSET (1 .. made), s \in Sections : AssignSection(ids, s)
    BY <1>5
  <2>2. /\ made' = made /\ today' = today /\ pending' = pending
        /\ logs' = [id \in DOMAIN logs |->
                     IF id \in ids THEN [logs[id] EXCEPT !.section = s, !.flagged = FALSE]
                     ELSE logs[id]]
        /\ Listed(s)
    BY <2>1 DEF AssignSection, PutIn
  <2>3. s \in ActiveNames
    BY <2>2, JournalBounds DEF Listed, Folded, States
  <2>4. ASSUME NEW id \in DOMAIN logs
        PROVE  /\ Row(logs'[id]) /\ PnrTrue(logs'[id])
               /\ logs'[id].day = logs[id].day /\ logs'[id].status = logs[id].status
               /\ \/ logs'[id].flagged = logs[id].flagged
                  \/ logs'[id].section \in ActiveNames
    <3>0. Row(logs[id]) /\ PnrTrue(logs[id])
      BY DEF JournalInv
    <3>1. CASE id \in ids
      <4>1. logs'[id] = [logs[id] EXCEPT !.section = s, !.flagged = FALSE]
        BY <2>2, <3>1
      <4>2. /\ DOMAIN logs'[id] = Fields /\ logs'[id].section = s
            /\ logs'[id].day = logs[id].day /\ logs'[id].status = logs[id].status
            /\ logs'[id].steps = logs[id].steps /\ logs'[id].source = logs[id].source
        BY ONLY <3>0, <4>1 DEF Row, Fields
      <4> QED
        BY <2>3, <3>0, <4>2 DEF Row, PnrTrue, Remaining
    <3>2. CASE id \notin ids
      BY <2>2, <3>0, <3>2
    <3> QED
      BY <3>1, <3>2
  <2>5. DOMAIN logs' = DOMAIN logs
    BY <2>2
  <2> QED
    BY <2>2, <2>4, <2>5 DEF JournalInv, Changes
<1> QED
  BY <1>1, <1>2, <1>3, <1>4, <1>5

LEMMA PreviewStepsKeep ==
  ASSUME JournalInv,
         \/ \E rows \in Sheets, soft, workbook \in BOOLEAN : Preview(rows, soft, workbook)
         \/ Forget
         \/ \E n \in Switched : Toggle(n)
  PROVE  JournalInv' /\ Changes
<1>1. logs' = logs /\ made' = made /\ today' = today /\ Changes
  BY DEF Preview, Forget, Toggle, Changes
<1>2. CASE \E rows \in Sheets, soft, workbook \in BOOLEAN : Preview(rows, soft, workbook)
  <2>1. PICK rows \in Sheets, soft \in BOOLEAN, workbook \in BOOLEAN :
          Preview(rows, soft, workbook)
    BY <1>2
  <2> DEFINE read == IF workbook THEN [i \in DOMAIN rows |-> Migrated(rows[i])] ELSE rows
             shown == [i \in DOMAIN read |-> Shown(read[i], soft)]
  <2>2. pending' = [rows |-> read, soft |-> soft, shown |-> shown]
    BY <2>1 DEF Preview
  <2>3. Len(rows) \in Nat /\ DOMAIN rows = 1 .. Len(rows)
        /\ \A i \in DOMAIN rows : Row(rows[i])
    BY SheetFacts
  <2>4. /\ DOMAIN read = 1 .. Len(rows) /\ Len(read) = Len(rows)
        /\ \A i \in DOMAIN read : Row(read[i])
    BY <2>3, ReadFacts DEF JournalInv
  <2> HIDE DEF read
  <2>5. /\ DOMAIN shown = DOMAIN read
        /\ \A i \in DOMAIN read : ShownOf(read[i], soft, shown[i])
    BY <2>4, ReadFacts DEF JournalInv
  <2> HIDE DEF shown
  <2>6. /\ pending'.rows = read /\ pending'.soft = soft /\ pending'.shown = shown
        /\ DOMAIN pending' = {"rows", "soft", "shown"}
    BY <2>2
  <2> QED
    BY <1>1, <2>3, <2>4, <2>5, <2>6 DEF JournalInv
<1>3. CASE Forget
  BY <1>1, <1>3 DEF JournalInv, Forget
<1>4. CASE \E n \in Switched : Toggle(n)
  BY <1>1, <1>4 DEF JournalInv, Toggle
<1> QED
  BY <1>2, <1>3, <1>4

LEMMA ImportStepsKeep ==
  ASSUME JournalInv,
         \/ \E rows \in Sheets, soft \in BOOLEAN : ImportUnseen(rows, soft)
         \/ Confirm
  PROVE  JournalInv' /\ Changes
<1>1. CASE \E rows \in Sheets, soft \in BOOLEAN : ImportUnseen(rows, soft)
  <2>1. PICK rows \in Sheets, soft \in BOOLEAN : ImportUnseen(rows, soft)
    BY <1>1
  <2>2. Import(rows, soft) /\ pending' = pending /\ today' = today
    BY <2>1 DEF ImportUnseen
  <2>3. /\ made' \in Nat /\ DOMAIN logs' \subseteq 1 .. made'
        /\ \A id \in DOMAIN logs' : Row(logs'[id]) /\ PnrTrue(logs'[id])
        /\ InsertsOnly
    BY <2>2, SheetFacts, ImportKeeps
  <2> QED
    BY <2>2, <2>3, WrittenKeeps
<1>2. CASE Confirm
  <2>1. pending # NoPreview /\ pending' = NoPreview /\ today' = today
    BY <1>2 DEF Confirm
  <2>2. CASE Import(pending.rows, pending.soft)
    <3>1. /\ made' \in Nat /\ DOMAIN logs' \subseteq 1 .. made'
          /\ \A id \in DOMAIN logs' : Row(logs'[id]) /\ PnrTrue(logs'[id])
          /\ InsertsOnly
      BY <2>1, <2>2, ImportKeeps DEF JournalInv
    <3> QED
      BY <2>1, <3>1, WrittenKeeps
  <2>3. CASE logs' = logs /\ made' = made
    BY <2>1, <2>3 DEF JournalInv, Changes
  <2> QED
    BY <1>2, <2>2, <2>3 DEF Confirm
<1> QED
  BY <1>1, <1>2

LEMMA JournalSteps ==
  ASSUME JournalInv, [NextJournal]_journalVars
  PROVE  /\ JournalInv' /\ Changes
         /\ today' \in Nat /\ today <= today'
<1>1. CASE UNCHANGED journalVars
  BY <1>1 DEF journalVars, JournalInv, Changes
<1>2. CASE Midnight
  BY <1>2 DEF Midnight, JournalInv, Changes
<1>3. CASE NextJournal /\ ~Midnight
  <2>1. today' = today
    BY <1>3 DEF NextJournal, Create, CreateMany, Update, Delete, AssignSection, Preview, Forget,
                ImportUnseen, Confirm, Toggle
  <2>2. JournalInv' /\ Changes
    BY <1>3, EntryStepsKeep, PreviewStepsKeep, ImportStepsKeep DEF NextJournal
  <2> QED
    BY <2>1, <2>2 DEF JournalInv
<1> QED
  BY <1>1, <1>2, <1>3

THEOREM JournalInvariance == JournalSpec => []JournalInv
<1>1. InitJournal => JournalInv
  BY DEF InitJournal, JournalInv
<1> QED
  BY <1>1, JournalSteps, PTL DEF JournalSpec

SlipStep ==
  /\ \A id \in DOMAIN logs :
       /\ id \in Handover(today) =>
            \/ id \in Handover(today)'
            \/ id \notin DOMAIN logs'
            \/ \E e \in Entries : Update(id, e)
       /\ logs[id].flagged =>
            \/ id \notin DOMAIN logs'
            \/ logs'[id].flagged
            \/ \E e \in Entries : Update(id, e)
            \/ logs'[id].section \in ActiveNames
  /\ \A id \in DOMAIN logs' : logs'[id].source = Pnr =>
       (logs'[id].status = Done <=> Remaining(logs'[id]) = {})

LEMMA NoneSlips ==
  ASSUME JournalInv, [NextJournal]_journalVars
  PROVE  SlipStep
<1>1. JournalInv' /\ Changes /\ today' \in Nat /\ today <= today'
  BY JournalSteps
<1>2. \A id \in DOMAIN logs' : PnrTrue(logs'[id])
  BY <1>1 DEF JournalInv
<1>3. ASSUME NEW id \in DOMAIN logs, id \in DOMAIN logs', ~\E e \in Entries : Update(id, e)
      PROVE  /\ id \in Handover(today) => id \in Handover(today)'
             /\ logs[id].flagged => logs'[id].flagged \/ logs'[id].section \in ActiveNames
  <2>1. /\ logs'[id].day = logs[id].day /\ logs'[id].status = logs[id].status
        /\ \/ logs'[id].flagged = logs[id].flagged
           \/ logs'[id].section \in ActiveNames
    BY <1>1, <1>3 DEF Changes
  <2>2. logs[id].day \in Int /\ today \in Nat
    BY DEF JournalInv, Row
  <2>3. logs[id].day <= today => logs[id].day <= today'
    BY <1>1, <2>2
  <2> QED
    BY <1>3, <2>1, <2>3 DEF Handover
<1> QED
  BY <1>2, <1>3 DEF SlipStep, PnrTrue

\* What is handed over today is handed over tomorrow, what waits for a review waits,
\* until a person writes the entry anew, deletes it or gives it a section; and a PNR is
\* done exactly when no step of it is left (prepare_work_log, handover_logs).
THEOREM NothingSlips == JournalSpec => NothingSlipsAway
<1>1. JournalInv /\ [NextJournal]_journalVars => [SlipStep]_journalVars
  BY NoneSlips
<1> QED
  BY <1>1, JournalInvariance, PTL DEF JournalSpec, NothingSlipsAway, SlipStep

-----------------------------------------------------------------------------

ShownStep ==
  Confirm /\ (\A r \in ToSet(pending.shown) : "refused" \notin DOMAIN r) =>
       \/ logs' = logs
       \/ logs' = Written([i \in DOMAIN pending.shown |->
                     IF pending.rows[i].day # NoDate THEN pending.shown[i]
                     ELSE [pending.shown[i] EXCEPT !.day = today]])

\* A row that passes today is written as it was shown on another day, but for its date.
LEMMA ShownIsWritten ==
  ASSUME NEW e, Row(e), NEW soft \in BOOLEAN, NEW shown, ShownOf(e, soft, shown),
         "refused" \notin DOMAIN shown, Passes(e, soft)
  PROVE  Prepared(Read(e, soft)) = IF e.day # NoDate THEN shown
                                   ELSE [shown EXCEPT !.day = today]
<1>1. ~(shown = [refused |-> e])
  OBVIOUS
<1>2. CASE ~soft
  <2>1. e.day # NoDate
    BY <1>2 DEF Passes, Read, Acceptable
  <2> QED
    BY <1>1, <1>2, <2>1 DEF ShownOf, Read
<1>3. CASE soft
  <2> DEFINE On(day) == [e EXCEPT !.day = IF @ = NoDate THEN day ELSE @,
                                  !.source = Given(@, Unnamed),
                                  !.status = Given(@, Done)]
  <2>1. PICK day \in Int : shown = Prepared(On(day))
    BY <1>1, <1>3 DEF ShownOf
  <2>2. Read(e, soft) = On(today)
    BY <1>3 DEF Read, Softened
  <2>3. CASE e.day # NoDate
    <3>1. On(today) = On(day)
      BY <2>3
    <3> QED
      BY <2>1, <2>2, <2>3, <3>1
  <2>4. CASE e.day = NoDate
    <3>1. Row(On(day)) /\ On(today) = [On(day) EXCEPT !.day = today]
      BY <2>4 DEF Row, Fields
    <3> HIDE DEF On
    <3>2. Prepared(On(today)) = [Prepared(On(day)) EXCEPT !.day = today]
      BY <3>1, PreparedAgain
    <3> QED
      BY <2>1, <2>2, <2>4, <3>2
  <2> QED
    BY <2>3, <2>4
<1> QED
  BY <1>2, <1>3

LEMMA ConfirmedIsShown ==
  ASSUME JournalInv
  PROVE  ShownStep
<1> SUFFICES ASSUME Confirm, \A r \in ToSet(pending.shown) : "refused" \notin DOMAIN r,
                    logs' # logs
             PROVE  logs' = Written([i \in DOMAIN pending.shown |->
                              IF pending.rows[i].day # NoDate THEN pending.shown[i]
                              ELSE [pending.shown[i] EXCEPT !.day = today]])
  BY DEF ShownStep
<1>1. pending # NoPreview /\ Import(pending.rows, pending.soft)
  BY DEF Confirm
<1>2. /\ DOMAIN pending.rows = 1 .. Len(pending.rows) /\ Len(pending.rows) \in Nat
      /\ pending.soft \in BOOLEAN /\ DOMAIN pending.shown = DOMAIN pending.rows
      /\ \A i \in DOMAIN pending.rows :
           Row(pending.rows[i]) /\ ShownOf(pending.rows[i], pending.soft, pending.shown[i])
  BY <1>1 DEF JournalInv
<1>3. /\ logs' = Written([i \in DOMAIN pending.rows |-> Prepared(Read(pending.rows[i], pending.soft))])
      /\ \A i \in DOMAIN pending.rows : Passes(pending.rows[i], pending.soft)
  BY <1>1, <1>2, ImportKeeps
<1>4. \A i \in DOMAIN pending.rows : "refused" \notin DOMAIN pending.shown[i]
  BY <1>2 DEF ToSet
<1>5. \A i \in DOMAIN pending.rows :
        Prepared(Read(pending.rows[i], pending.soft)) =
          IF pending.rows[i].day # NoDate THEN pending.shown[i]
          ELSE [pending.shown[i] EXCEPT !.day = today]
  BY <1>2, <1>3, <1>4, ShownIsWritten
<1>6. [i \in DOMAIN pending.rows |-> Prepared(Read(pending.rows[i], pending.soft))] =
      [i \in DOMAIN pending.shown |->
         IF pending.rows[i].day # NoDate THEN pending.shown[i]
         ELSE [pending.shown[i] EXCEPT !.day = today]]
  BY <1>2, <1>5
<1> QED
  BY <1>3, <1>6

\* A preview without refused rows is written as it was shown or not at all, whatever
\* became of the dictionary, but for the day of rows that have none
\* (confirm_work_log_import).
THEOREM WrittenAsShown == JournalSpec => ImportedAsShown
<1>1. JournalInv /\ [NextJournal]_journalVars => [ShownStep]_journalVars
  BY ConfirmedIsShown
<1> QED
  BY <1>1, JournalInvariance, PTL DEF JournalSpec, ImportedAsShown, ShownStep

-----------------------------------------------------------------------------
(* Monitoring: the order of the rules. *)

\* A rule as the code reads it, once the file was found sound.
RuleRead(r) == r.type \in {"exact", "wildcard", "regex"} /\ r.length \in Nat

\* Nothing, or a sound file of rules.
TechRead(tech) ==
  tech = Unread \/ (tech \in TechFiles \ {Missing, Broken} /\ Sound("Tech", tech))

LEMMA ScoreFacts ==
  ASSUME NEW r, RuleRead(r)
  PROVE  Score(r)[1] \in Nat /\ Score(r)[2] \in Nat /\ Score(r)[3] \in Nat
<1>1. Rank[r.type] \in Nat
  BY DEF RuleRead, Rank
<1>2. ((IF r.wants.project # "" THEN 2 ELSE 0) + (IF r.wants.system # "" THEN 1 ELSE 0)) \in Nat
  <2> DEFINE p == r.wants.project # ""
             q == r.wants.system # ""
  <2> HIDE DEF p, q
  <2>1. ((IF p THEN 2 ELSE 0) + (IF q THEN 1 ELSE 0)) \in Nat
    OBVIOUS
  <2> QED
    BY <2>1 DEF p, q
<1>3. r.length \in Nat
  BY DEF RuleRead
<1> QED
  BY <1>1, <1>2, <1>3 DEF Score

\* Of two rules one beats the other, or they are equal in everything that counts.
LEMMA BeatsFacts ==
  ASSUME NEW a, NEW b
  PROVE  Beats(a, b) <=>
           \/ Score(a)[1] > Score(b)[1]
           \/ Score(a)[1] = Score(b)[1] /\ Score(a)[2] > Score(b)[2]
           \/ Score(a)[1] = Score(b)[1] /\ Score(a)[2] = Score(b)[2] /\ Score(a)[3] > Score(b)[3]
<1> DEFINE Case(k) == Score(a)[k] > Score(b)[k] /\ \A m \in 1 .. k - 1 : Score(a)[m] = Score(b)[m]
<1>1. Beats(a, b) <=> Case(1) \/ Case(2) \/ Case(3)
  <2>1. 1 .. 3 = {1, 2, 3}
    OBVIOUS
  <2> QED
    BY <2>1 DEF Beats
<1>2. 1 .. 1 - 1 = {} /\ 1 .. 2 - 1 = {1} /\ 1 .. 3 - 1 = {1, 2}
  OBVIOUS
<1> QED
  BY <1>1, <1>2

LEMMA Trichotomy ==
  ASSUME NEW a, NEW b, RuleRead(a), RuleRead(b), ~Beats(a, b), ~Beats(b, a)
  PROVE  Score(a)[1] = Score(b)[1] /\ Score(a)[2] = Score(b)[2] /\ Score(a)[3] = Score(b)[3]
BY ScoreFacts, BeatsFacts

LEMMA BeatsOneWay ==
  ASSUME NEW a, NEW b, RuleRead(a), RuleRead(b), Beats(a, b)
  PROVE  ~Beats(b, a)
<1> PICK x : x = Score(a)
  OBVIOUS
<1> PICK y : y = Score(b)
  OBVIOUS
<1>1. x[1] \in Nat /\ x[2] \in Nat /\ x[3] \in Nat /\ y[1] \in Nat /\ y[2] \in Nat /\ y[3] \in Nat
  BY ScoreFacts
<1>2. \/ x[1] > y[1]
      \/ x[1] = y[1] /\ x[2] > y[2]
      \/ x[1] = y[1] /\ x[2] = y[2] /\ x[3] > y[3]
  BY BeatsFacts
<1>3. \/ y[1] > x[1]
      \/ y[1] = x[1] /\ y[2] > x[2]
      \/ y[1] = x[1] /\ y[2] = x[2] /\ y[3] > x[3]
      \/ ~Beats(b, a)
  BY BeatsFacts
<1> QED
  BY <1>1, <1>2, <1>3

LEMMA BeatsInOrder ==
  ASSUME NEW a, NEW b, NEW c, RuleRead(a), RuleRead(b), RuleRead(c), ~Beats(a, b), ~Beats(b, c)
  PROVE  ~Beats(a, c)
<1> PICK x : x = Score(a)
  OBVIOUS
<1> PICK y : y = Score(b)
  OBVIOUS
<1> PICK z : z = Score(c)
  OBVIOUS
<1>1. x[1] \in Nat /\ x[2] \in Nat /\ x[3] \in Nat /\ y[1] \in Nat /\ y[2] \in Nat /\ y[3] \in Nat
        /\ z[1] \in Nat /\ z[2] \in Nat /\ z[3] \in Nat
  BY ScoreFacts
<1> QED
  BY <1>1, BeatsFacts

LEMMA LeastNumber ==
  ASSUME NEW S, S \subseteq Nat, S # {}
  PROVE  \E x \in S : \A y \in S : x <= y
<1>1. \E x \in S : \A y \in S : ~ (<<y, x>> \in OpToRel(<, Nat))
  BY NatLessThanWellFounded, WFMin
<1>2. PICK x \in S : \A y \in S : ~ (y < x)
  BY <1>1 DEF OpToRel
<1>3. \A y \in S : x <= y
  BY <1>2
<1> QED
  BY <1>3

\* Among finitely many rules there is one that no other beats.
LEMMA OneIsOnTop ==
  ASSUME NEW list, NEW S, IsFiniteSet(S), S # {}, \A i \in S : RuleRead(list[i])
  PROVE  \E i \in S : \A j \in S : ~Beats(list[j], list[i])
<1> DEFINE Top(T) == \E i \in T : \A j \in T : ~Beats(list[j], list[i])
           Bad(n) == \E T \in SUBSET S : T # {} /\ ~Top(T) /\ Cardinality(T) = n
           sizes == {n \in Nat : Bad(n)}
<1> SUFFICES ASSUME ~Top(S) PROVE FALSE
  OBVIOUS
<1>1. Cardinality(S) \in sizes
  BY FS_CardinalityType
<1>2. PICK n \in sizes : \A m \in sizes : n <= m
  <2>1. sizes \subseteq Nat /\ sizes # {}
    BY <1>1
  <2> HIDE DEF sizes
  <2> QED
    BY <2>1, LeastNumber
<1>3. PICK T \in SUBSET S : T # {} /\ ~Top(T) /\ Cardinality(T) = n
  OBVIOUS
<1>4. PICK i \in T : TRUE
  BY <1>3
<1>5. IsFiniteSet(T) /\ IsFiniteSet(T \ {i}) /\ Cardinality(T \ {i}) = n - 1 /\ n \in Nat
  BY <1>3, <1>4, FS_Subset, FS_RemoveElement
<1>6. T \ {i} = {} \/ Top(T \ {i})
  <2>1. Cardinality(T \ {i}) \in Nat
    BY <1>5, FS_CardinalityType
  <2>2. ~Bad(n - 1)
    BY <1>2, <1>5, <2>1
  <2> QED
    BY <2>2, <1>3, <1>5
<1>7. RuleRead(list[i])
  BY <1>3, <1>4
<1>8. ~Beats(list[i], list[i])
  BY <1>7, BeatsOneWay
<1>9. CASE T \ {i} = {}
  <2>1. T = {i}
    BY <1>9, <1>4
  <2> QED
    BY <2>1, <1>8, <1>3
<1>10. CASE Top(T \ {i})
  <2>1. PICK j \in T \ {i} : \A k \in T \ {i} : ~Beats(list[k], list[j])
    BY <1>10
  <2>2. CASE ~Beats(list[i], list[j])
    BY <2>1, <2>2, <1>3
  <2>3. CASE Beats(list[i], list[j])
    <3>1. \A k \in T \ {i} : ~Beats(list[k], list[i])
      <4> SUFFICES ASSUME NEW k \in T \ {i} PROVE ~Beats(list[k], list[i])
        OBVIOUS
      <4>1. RuleRead(list[k]) /\ RuleRead(list[j])
        BY <1>3
      <4>2. ~Beats(list[j], list[i])
        BY <2>3, <4>1, <1>7, BeatsOneWay
      <4>3. ~Beats(list[k], list[j])
        BY <2>1
      <4> QED
        BY <4>1, <4>2, <4>3, <1>7, BeatsInOrder
    <3> QED
      BY <3>1, <1>8, <1>3, <1>4
  <2> QED
    BY <2>2, <2>3
<1> QED
  BY <1>6, <1>9, <1>10

\* The rules of S that no rule of S beats.
Unbeaten(list, S) == {i \in S : \A j \in S : ~Beats(list[j], list[i])}

\* When one candidate is left, it beats every other.
LEMMA TheOneLeftBeatsAll ==
  ASSUME NEW list, NEW S, IsFiniteSet(S), \A i \in S : RuleRead(list[i]),
         NEW best, best = Unbeaten(list, S)
  PROVE  /\ IsFiniteSet(best) /\ best \subseteq S
         /\ S # {} => best # {}
         /\ Cardinality(best) = 1 =>
              \A i \in best : \A j \in S \ {i} : Beats(list[i], list[j])
<1>1. IsFiniteSet(best) /\ best \subseteq S
  BY FS_Subset DEF Unbeaten
<1>2. S # {} => best # {}
  BY OneIsOnTop DEF Unbeaten
<1>3. ASSUME Cardinality(best) = 1, NEW i \in best, NEW j \in S \ {i}, ~Beats(list[i], list[j])
      PROVE  FALSE
  <2>1. best = {i}
    <3>1. PICK x : best = {x}
      BY <1>1, <1>3, FS_Singleton
    <3> QED
      BY <3>1, <1>3
  <2>2. ~Beats(list[j], list[i])
    BY <1>3, <1>1 DEF Unbeaten
  <2>3. RuleRead(list[i]) /\ RuleRead(list[j])
    BY <1>3, <1>1
  <2>4. Score(list[i])[1] = Score(list[j])[1] /\ Score(list[i])[2] = Score(list[j])[2]
          /\ Score(list[i])[3] = Score(list[j])[3]
    BY <2>2, <2>3, <1>3, Trichotomy
  <2>5. \A k \in S : ~Beats(list[k], list[j])
    <3> SUFFICES ASSUME NEW k \in S PROVE ~Beats(list[k], list[j])
      OBVIOUS
    <3>1. ~Beats(list[k], list[i])
      BY <1>3 DEF Unbeaten
    <3> QED
      BY <3>1, <2>4, BeatsFacts
  <2> QED
    BY <2>5, <2>1, <1>3 DEF Unbeaten
<1> QED
  BY <1>1, <1>2, <1>3

-----------------------------------------------------------------------------
(* Monitoring: the letter. *)

LEMMA SoundTech ==
  ASSUME NEW tech, TechRead(tech), tech # Unread
  PROVE  /\ IsFiniteSet(DOMAIN tech.rules)
         /\ \A i \in DOMAIN tech.rules :
              RuleRead(tech.rules[i]) /\ tech.rules[i].salt \in BOOLEAN
<1>1. tech \in TechFiles \ {Missing, Broken} /\ Sound("Tech", tech)
  BY DEF TechRead
<1>2. IsFiniteSet(DOMAIN tech.rules) /\ \A i \in DOMAIN tech.rules : tech.rules[i].length \in Nat
  BY <1>1, RulesAreLists
<1>3. \A i \in DOMAIN tech.rules :
        tech.rules[i].type \in {"exact", "wildcard", "regex"} /\ tech.rules[i].salt \in BOOLEAN
  BY <1>1 DEF Sound
<1> QED
  BY <1>2, <1>3 DEF RuleRead

\* What a rule that is taken has above it, and when one is taken.
LEMMA BestFacts ==
  ASSUME NEW tech, NEW host, NEW card, TechRead(tech)
  PROVE  LET found == Matching(tech, host, card)
             salts == SaltAmong(tech, found)
             best == Best(tech, host, card)
         IN  /\ IsFiniteSet(best) /\ best \subseteq found
             /\ found # {} => best # {}
             /\ \A i \in best : tech.rules[i].salt <=> salts # {}
             /\ Cardinality(best) = 1 =>
                  \A i \in best : \A j \in found \ {i} :
                    tech.rules[j].salt = tech.rules[i].salt => Beats(tech.rules[i], tech.rules[j])
             /\ found # {} => tech # Unread
<1> DEFINE found == Matching(tech, host, card)
           salts == SaltAmong(tech, found)
           S == IF salts # {} THEN salts ELSE found
           best == Best(tech, host, card)
<1>1. found # {} => tech # Unread
  BY DEF Matching
<1>2. CASE tech = Unread
  <2>1. found = {} /\ best = {}
    BY <1>2 DEF Matching, Best, SaltAmong
  <2> QED
    BY <2>1, FS_EmptySet DEF SaltAmong
<1>3. CASE tech # Unread
  <2>1. found \subseteq DOMAIN tech.rules /\ salts \subseteq found
    BY <1>3 DEF Matching, SaltAmong
  <2>2. best = {i \in S : \A j \in S : ~Beats(tech.rules[j], tech.rules[i])}
    BY DEF Best
  <2>3. S \subseteq DOMAIN tech.rules /\ S \subseteq found /\ (found # {} => S # {})
    BY <2>1
  <2>4. IsFiniteSet(S) /\ \A i \in S : RuleRead(tech.rules[i])
    BY <2>3, <1>3, SoundTech, FS_Subset
  <2>5. PICK list : list = tech.rules
    OBVIOUS
  <2>6. \A i \in S : tech.rules[i].salt <=> salts # {}
    BY <2>3, <1>3, SoundTech DEF SaltAmong
  <2>7. \A i \in S : \A j \in found : tech.rules[j].salt = tech.rules[i].salt => j \in S
    BY <2>6 DEF SaltAmong
  <2> HIDE DEF S, best, found, salts
  <2>8. /\ IsFiniteSet(best) /\ best \subseteq S
        /\ S # {} => best # {}
        /\ Cardinality(best) = 1 => \A i \in best : \A j \in S \ {i} : Beats(list[i], list[j])
    <3>1. best = Unbeaten(list, S)
      BY <2>2, <2>5 DEF Unbeaten
    <3>2. \A i \in S : RuleRead(list[i])
      BY <2>4, <2>5
    <3> QED
      BY ONLY <3>1, <3>2, <2>4, TheOneLeftBeatsAll
  <2>9. /\ IsFiniteSet(best) /\ best \subseteq found
        /\ found # {} => best # {}
        /\ \A i \in best : tech.rules[i].salt <=> salts # {}
        /\ Cardinality(best) = 1 =>
             \A i \in best : \A j \in found \ {i} :
               tech.rules[j].salt = tech.rules[i].salt => Beats(tech.rules[i], tech.rules[j])
        /\ found # {} => tech # Unread
    BY <2>3, <2>5, <2>6, <2>7, <2>8, <1>1
  <2> QED
    BY <2>9 DEF best, found, salts
<1> QED
  BY <1>2, <1>3

Always(tech) == IF tech = Unread THEN {} ELSE tech.always

\* What the letter says of the rules, without the search that asked.
Follows(letter, host, card, tech, digital) ==
  LET found == Matching(tech, host, card)
      salts == SaltAmong(tech, found)
  IN  /\ letter.ready =>
           /\ (salts # {}) <=> (letter.project = "Salt")
           /\ salts = {} /\ OnTheList(digital, host) => letter.from = "Digital"
           /\ letter.from = "Tech" =>
                \E i \in found :
                  /\ letter.to = tech.rules[i].to
                  /\ \A j \in found \ {i} :
                       tech.rules[j].salt = tech.rules[i].salt => Beats(tech.rules[i], tech.rules[j])
           /\ letter.to # {} /\ letter.cc \cap letter.to \subseteq Always(tech)
      /\ letter.ready /\ letter.from = "Tech" => letter.cc \cap tech.never \subseteq Always(tech)

LEMMA NotReady == NoLetter.ready = FALSE
BY DEF NoLetter

\* Letter as it is built.
LEMMA LetterFields ==
  ASSUME NEW project, NEW from, NEW to, NEW cc, NEW always, NEW wrong
  PROVE  LET l == Letter(project, from, to, cc, always, wrong)
         IN  /\ l.ready => to # {} /\ ~wrong
             /\ l.project = project /\ l.from = from /\ l.to = to /\ l.cc = (cc \ to) \cup always
BY DEF Letter

LEMMA DecideFollows ==
  ASSUME NEW host, NEW card, NEW tech, NEW digital, TechRead(tech),
         NEW letter, letter = Decide(host, card, tech, digital)
  PROVE  Follows(letter, host, card, tech, digital)
<1> DEFINE found == Matching(tech, host, card)
           salts == SaltAmong(tech, found)
           best == Best(tech, host, card)
           one == CHOOSE i \in best : TRUE
           rule == tech.rules[one]
           OfRule(project) == Letter(project, "Tech", rule.to, rule.cc \ tech.never, Always(tech), FALSE)
           ByDigital == Letter("Digital", "Digital", digital.to, digital.cc, Always(tech), Cardinality(best) > 1)
           Named1 == IF rule.project = "Digital" THEN "Digital" ELSE "X5Tech"
<1>1. /\ IsFiniteSet(best) /\ best \subseteq found
      /\ found # {} => best # {}
      /\ \A i \in best : tech.rules[i].salt <=> salts # {}
      /\ Cardinality(best) = 1 =>
           \A i \in best : \A j \in found \ {i} :
             tech.rules[j].salt = tech.rules[i].salt => Beats(tech.rules[i], tech.rules[j])
      /\ found # {} => tech # Unread
  BY BestFacts
<1>2. \/ letter = NoLetter
      \/ Cardinality(best) = 1 /\ rule.salt /\ letter = OfRule("Salt")
      \/ ~(Cardinality(best) = 1 /\ rule.salt) /\ OnTheList(digital, host) /\ letter = ByDigital
      \/ /\ Cardinality(best) = 1 /\ ~rule.salt /\ ~OnTheList(digital, host)
         /\ letter = OfRule(Named1)
  <2> DEFINE odd == host.name \in OddHosts
             one1 == Cardinality(best) = 1
             salt == rule.salt
             listed == OnTheList(digital, host)
             l1 == OfRule("Salt")
             l2 == OfRule(Named1)
  <2>1. letter = CASE odd -> NoLetter [] one1 /\ salt -> l1 [] ~(one1 /\ salt) /\ listed -> ByDigital
                   [] one1 /\ ~salt /\ ~listed -> l2 [] OTHER -> NoLetter
    BY Zenon DEF Decide, Always
  <2> HIDE DEF odd, one1, salt, listed, l1, l2, ByDigital
  <2>2. \/ letter = NoLetter
        \/ one1 /\ salt /\ letter = l1
        \/ ~(one1 /\ salt) /\ listed /\ letter = ByDigital
        \/ one1 /\ ~salt /\ ~listed /\ letter = l2
    BY <2>1
  <2> QED
    BY <2>2, Zenon DEF one1, salt, listed, l1, l2
<1>3. Cardinality(best) = 1 => one \in best
  <2>1. Cardinality(best) = 1 => best # {}
    BY FS_EmptySet
  <2> QED
    BY <2>1
<1>4. salts # {} => best # {} /\ \A i \in best : tech.rules[i].salt
  BY <1>1 DEF SaltAmong
<1>5. best # {} /\ ~(Cardinality(best) > 1) => Cardinality(best) = 1
  BY <1>1, FS_CardinalityType, FS_EmptySet
<1>6. CASE letter = NoLetter
  <2>1. ~letter.ready
    BY ONLY <1>6, NotReady
  <2> QED
    BY ONLY <2>1 DEF Follows
<1>7. ASSUME NEW project, Cardinality(best) = 1, letter = OfRule(project),
             project = "Salt" <=> rule.salt,
             rule.salt \/ ~OnTheList(digital, host)
      PROVE  Follows(letter, host, card, tech, digital)
  <2>1. one \in best /\ one \in found
    BY <1>7, <1>3, <1>1
  <2>2. rule.salt <=> salts # {}
    BY <2>1, <1>1
  <2>3. /\ letter.ready => rule.to # {}
        /\ letter.project = project /\ letter.from = "Tech" /\ letter.to = rule.to
        /\ letter.cc = ((rule.cc \ tech.never) \ rule.to) \cup Always(tech)
    <3> DEFINE wrong == FALSE
               copied == rule.cc \ tech.never
    <3>1. letter = Letter(project, "Tech", rule.to, copied, Always(tech), wrong)
      BY <1>7
    <3> HIDE DEF rule, wrong, copied
    <3>2. /\ letter.ready => rule.to # {}
          /\ letter.project = project /\ letter.from = "Tech" /\ letter.to = rule.to
          /\ letter.cc = (copied \ rule.to) \cup Always(tech)
      BY ONLY <3>1, LetterFields
    <3> QED
      BY <3>2 DEF copied
  <2>4. \A j \in found \ {one} :
          tech.rules[j].salt = rule.salt => Beats(rule, tech.rules[j])
    BY <1>7, <2>1, <1>1
  <2> HIDE DEF one, best, found, salts
  <2>5. /\ letter.ready =>
           /\ (salts # {}) <=> (letter.project = "Salt")
           /\ salts = {} /\ OnTheList(digital, host) => letter.from = "Digital"
           /\ letter.from = "Tech" =>
                \E i \in found :
                  /\ letter.to = tech.rules[i].to
                  /\ \A j \in found \ {i} :
                       tech.rules[j].salt = tech.rules[i].salt => Beats(tech.rules[i], tech.rules[j])
           /\ letter.to # {} /\ letter.cc \cap letter.to \subseteq Always(tech)
        /\ letter.ready /\ letter.from = "Tech" => letter.cc \cap tech.never \subseteq Always(tech)
    BY <2>1, <2>2, <2>3, <2>4, <1>7
  <2> QED
    BY <2>5 DEF Follows, found, salts
<1>8. CASE Cardinality(best) = 1 /\ rule.salt /\ letter = OfRule("Salt")
  BY <1>7, <1>8
<1>9. CASE Cardinality(best) = 1 /\ ~rule.salt /\ ~OnTheList(digital, host) /\ letter = OfRule(Named1)
  <2>1. Named1 # "Salt"
    OBVIOUS
  <2> QED
    BY <1>7, <1>9, <2>1
<1>10. CASE ~(Cardinality(best) = 1 /\ rule.salt) /\ OnTheList(digital, host) /\ letter = ByDigital
  <2>1. /\ letter.ready => digital.to # {} /\ ~(Cardinality(best) > 1)
        /\ letter.project = "Digital" /\ letter.from = "Digital" /\ letter.to = digital.to
        /\ letter.cc = (digital.cc \ digital.to) \cup Always(tech)
    <3> DEFINE wrong == Cardinality(best) > 1
    <3>1. letter = Letter("Digital", "Digital", digital.to, digital.cc, Always(tech), wrong)
      BY <1>10
    <3> HIDE DEF wrong
    <3>2. /\ letter.ready => digital.to # {} /\ ~wrong
          /\ letter.project = "Digital" /\ letter.from = "Digital" /\ letter.to = digital.to
          /\ letter.cc = (digital.cc \ digital.to) \cup Always(tech)
      BY ONLY <3>1, LetterFields
    <3> QED
      BY <3>2 DEF wrong
  <2>2. letter.ready => salts = {}
    BY <2>1, <1>10, <1>3, <1>4, <1>5
  <2> HIDE DEF one, best, found, salts
  <2>3. /\ letter.ready =>
             (salts # {} <=> letter.project = "Salt") /\ letter.to # {}
               /\ letter.cc \cap letter.to \subseteq Always(tech)
        /\ letter.from # "Tech" /\ letter.from = "Digital"
    BY <2>1, <2>2
  <2> QED
    BY <2>3 DEF Follows, found, salts
<1> QED
  BY <1>2, <1>6, <1>8, <1>9, <1>10

-----------------------------------------------------------------------------
(* Monitoring: the searches. *)

Files == TechFiles \cup DigitalFiles
Contents == {Unread} \cup Files
Cards == {NoCard} \cup UNION Found
Letters == {Decide(a.host, c, tech, digital) : a \in Asked, c \in Cards, tech \in Contents, digital \in Contents}

Began ==
  [at : {"open", "card"}, asked : Asked]
    \cup [at : {"ping"}, asked : Asked, card : Cards,
          ips : {{}} \cup {d.ips : d \in Cards} \cup {d.mgmt : d \in Cards}]
Asking ==
  [at : {"stat", "read", "decide"}, label : Labels, asked : Asked, card : Cards, tag : {"green", "red"},
   read : [Labels -> Contents], seen : [Labels -> SUBSET Files], version : Nat]
Ended ==
  [at : {"done"}, asked : Asked, card : Cards, tag : {"green", "red"},
   read : [Labels -> Contents], seen : [Labels -> SUBSET Files], letter : Letters]
Search == {Waiting, Failed} \cup Began \cup Asking \cup Ended

RulesOK(disk) ==
  /\ disk \in [Labels -> [version : Nat, holds : Files]]
  /\ disk["Tech"].holds \in TechFiles /\ disk["Digital"].holds \in DigitalFiles

SearchTypeOK ==
  /\ search \in [Searches -> Search]
  /\ RulesOK(rules)

\* What was read was on disk during the search, the rules among it are sound, and the
\* mark of the problem is not green for a fault.
ReadOK(r) ==
  /\ \A l \in Labels : r.read[l] = Unread \/ r.read[l] \in r.seen[l]
  /\ TechRead(r.read["Tech"])
  /\ Hardware(r.asked.problem) /\ r.tag = "green" => Informs(r.asked)

\* A search that goes on has seen the files as they are, and a version it was told is
\* not ahead of them.
CurrentOK(r, disk) ==
  /\ \A l \in Labels : disk[l].holds \in r.seen[l]
  /\ r.at = "read" => r.version <= disk[r.label].version

SearchOK(r, disk) ==
  /\ r.at \in {"stat", "read", "decide"} => ReadOK(r) /\ CurrentOK(r, disk)
  /\ r.at = "done" =>
       ReadOK(r) /\ r.letter = Decide(r.asked.host, r.card, r.read["Tech"], r.read["Digital"])

\* The cache: no version ahead of the file, and of the file's own version what it holds.
\* Of an older one it may remember what came later: nobody asks for that version again.
RememberedOK(c, disk) ==
  /\ c.label \in Labels /\ c.version \in Nat /\ c.version <= disk[c.label].version
  /\ c.version = disk[c.label].version => c.got \in {Unread, Taken(c.label, disk[c.label].holds)}

SearchInv ==
  /\ SearchTypeOK
  /\ \A s \in Searches : SearchOK(search[s], rules)
  /\ \A c \in remembered : RememberedOK(c, rules)
  /\ \A s \in Searches : (profile = s) <=> (search[s].at = "card")

LEMMA SearchShapes ==
  ASSUME NEW r \in Search
  PROVE  /\ r.at \in {"waiting", "failed", "open", "card", "ping", "stat", "read", "decide", "done"}
         /\ r.at \in {"open", "card"} => r \in [at : {"open", "card"}, asked : Asked]
         /\ r.at \in {"stat", "read", "decide"} <=> r \in Asking
         /\ r.at = "done" <=> r \in Ended
         /\ r.at = "ping" => r.asked \in Asked /\ r.card \in Cards
         /\ "seen" \in DOMAIN r <=> r \in Asking \cup Ended
<1>1. CASE r \in {Waiting, Failed}
  <2>1. r.at \in {"waiting", "failed"} /\ DOMAIN r = {"at"}
    BY <1>1 DEF Waiting, Failed
  <2>2. r \notin Asking \cup Ended
    BY <2>1 DEF Asking, Ended
  <2> QED
    BY <2>1, <2>2
<1>2. CASE r \in [at : {"open", "card"}, asked : Asked]
  <2>1. r.at \in {"open", "card"} /\ DOMAIN r = {"at", "asked"}
    BY <1>2
  <2>2. r \notin Asking \cup Ended
    BY <2>1 DEF Asking, Ended
  <2> QED
    BY <2>1, <2>2, <1>2
<1>3. CASE r \in [at : {"ping"}, asked : Asked, card : Cards,
          ips : {{}} \cup {d.ips : d \in Cards} \cup {d.mgmt : d \in Cards}]
  <2>1. r.at = "ping" /\ DOMAIN r = {"at", "asked", "card", "ips"} /\ r.asked \in Asked /\ r.card \in Cards
    BY <1>3
  <2>2. r \notin Asking \cup Ended
    BY <2>1 DEF Asking, Ended
  <2> QED
    BY <2>1, <2>2
<1>4. CASE r \in Asking
  BY <1>4 DEF Asking, Ended
<1>5. CASE r \in Ended
  BY <1>5 DEF Asking, Ended
<1> QED
  BY <1>1, <1>2, <1>3, <1>4, <1>5 DEF Search, Began

LEMMA TakenFacts ==
  ASSUME NEW label \in Labels, NEW holds
  PROVE  /\ Taken(label, holds) \in {Unread, holds}
         /\ holds \in TechFiles /\ label = "Tech" => TechRead(Taken(label, holds))
<1>1. label = "Tech" => (Sound(label, holds) = Sound("Tech", holds))
  OBVIOUS
<1> QED
  BY <1>1 DEF Taken, TechRead

LEMMA InitSearchInv == InitSearch => SearchInv
<1> SUFFICES ASSUME InitSearch PROVE SearchInv
  OBVIOUS
<1>1. search = [s \in Searches |-> Waiting] /\ remembered = {} /\ profile = NoSearch
  BY DEF InitSearch
<1>2. RulesOK(rules)
  <2>1. rules \in [Tech : {[version |-> 0, holds |-> f] : f \in TechFiles},
                   Digital : {[version |-> 0, holds |-> f] : f \in DigitalFiles}]
    BY DEF InitSearch
  <2>2. PICK f \in TechFiles : rules["Tech"] = [version |-> 0, holds |-> f]
    BY <2>1
  <2>3. PICK g \in DigitalFiles : rules["Digital"] = [version |-> 0, holds |-> g]
    BY <2>1
  <2>4. rules = [l \in Labels |-> rules[l]]
    BY <2>1 DEF Labels
  <2>5. \A l \in Labels : rules[l] \in [version : Nat, holds : Files]
    BY <2>2, <2>3 DEF Labels, Files
  <2>6. rules["Tech"].holds \in TechFiles /\ rules["Digital"].holds \in DigitalFiles
    BY <2>2, <2>3
  <2> HIDE <2>1, <2>2, <2>3
  <2> QED
    BY <2>4, <2>5, <2>6 DEF RulesOK
<1>3. Waiting \in Search /\ Waiting.at = "waiting"
  BY DEF Waiting, Search
<1>4. \A s \in Searches : SearchOK(search[s], rules) /\ search[s].at = "waiting" /\ search[s] \in Search
  BY <1>1, <1>3 DEF SearchOK
<1>5. \A s \in Searches : profile # s
  BY <1>1, RulesAreLists
<1>6. search \in [Searches -> Search]
  BY <1>1, <1>3
<1> QED
  BY <1>1, <1>2, <1>4, <1>5, <1>6 DEF SearchInv, SearchTypeOK

\* One search goes on; the files stay.
LEMMA OneSearch ==
  ASSUME SearchInv, NEW s \in Searches, NEW r \in Search, Becomes(s, r), rules' = rules,
         SearchOK(r, rules), \A c \in remembered' : RememberedOK(c, rules),
         \/ profile' = profile /\ (r.at = "card" <=> search[s].at = "card")
         \/ profile = NoSearch /\ profile' = s /\ r.at = "card"
         \/ profile' = NoSearch /\ profile = s /\ r.at # "card"
  PROVE  SearchInv'
<1>1. search \in [Searches -> Search] /\ search' = [search EXCEPT ![s] = r]
  BY DEF SearchInv, SearchTypeOK, Becomes
<1>2. search' \in [Searches -> Search] /\ search'[s] = r /\ \A q \in Searches \ {s} : search'[q] = search[q]
  BY <1>1
<1>3. PICK disk : disk = rules /\ disk = rules'
  OBVIOUS
<1>4. RulesOK(disk)
  BY <1>3 DEF SearchInv, SearchTypeOK
<1>5. \A q \in Searches : SearchOK(search[q], disk)
  BY <1>3 DEF SearchInv
<1>6. SearchOK(r, disk)
  BY <1>3
<1>7. \A q \in Searches : SearchOK(search'[q], disk)
  BY <1>2, <1>5, <1>6
<1>8. \A c \in remembered' : RememberedOK(c, disk)
  BY <1>3
<1>9. \A q \in Searches : (profile' = q) <=> (search'[q].at = "card")
  <2>1. \A q \in Searches : (profile = q) <=> (search[q].at = "card")
    BY DEF SearchInv
  <2> QED
    BY <2>1, <1>2, RulesAreLists
<1> QED
  BY <1>2, <1>3, <1>4, <1>7, <1>8, <1>9 DEF SearchInv, SearchTypeOK

LEMMA AskKeeps ==
  ASSUME SearchInv, NEW s \in Searches, NEW asked \in Asked, Ask(s, asked)
  PROVE  SearchInv'
<1>1. PICK r : /\ Becomes(s, r)
               /\ \/ r = Failed
                  \/ r = [at |-> "ping", asked |-> asked, card |-> NoCard, ips |-> {}]
                  \/ r = [at |-> "open", asked |-> asked]
  BY DEF Ask
<1>2. r \in Search /\ r.at \in {"failed", "ping", "open"}
  <2>1. NoCard \in Cards
    BY DEF Cards
  <2>2. r = Failed => r \in Search /\ r.at = "failed"
    BY DEF Search, Failed
  <2>3. r = [at |-> "open", asked |-> asked] => r \in Began /\ r.at = "open"
    BY DEF Began
  <2>4. r = [at |-> "ping", asked |-> asked, card |-> NoCard, ips |-> {}] => r \in Began /\ r.at = "ping"
    BY <2>1 DEF Began
  <2> QED
    BY <2>2, <2>3, <2>4, <1>1 DEF Search
<1>3. SearchOK(r, rules)
  BY <1>2 DEF SearchOK
<1>4. search[s].at # "card"
  BY DEF Ask, Waiting
<1>5. rules' = rules /\ profile' = profile /\ remembered' = remembered
  BY DEF Ask
<1>6. \A c \in remembered' : RememberedOK(c, rules)
  BY <1>5 DEF SearchInv
<1> QED
  BY <1>1, <1>2, <1>3, <1>4, <1>5, <1>6, OneSearch

LEMMA OpenKeeps ==
  ASSUME SearchInv, NEW s \in Searches, OpenBrowser(s)
  PROVE  SearchInv'
<1>1. rules' = rules /\ remembered' = remembered /\ search[s].at = "open"
  BY DEF OpenBrowser
<1>2. \A c \in remembered' : RememberedOK(c, rules)
  BY <1>1 DEF SearchInv
<1>3. CASE profile = NoSearch /\ profile' = s /\ Becomes(s, [search[s] EXCEPT !.at = "card"])
  <2>1. PICK old : old = search[s]
    OBVIOUS
  <2>2. PICK r : r = [old EXCEPT !.at = "card"]
    OBVIOUS
  <2>3. old \in Search
    BY <2>1 DEF SearchInv, SearchTypeOK
  <2>4. old \in [at : {"open", "card"}, asked : Asked]
    BY <2>1, <2>3, <1>1, SearchShapes
  <2>5. r \in [at : {"open", "card"}, asked : Asked] /\ r.at = "card"
    BY <2>2, <2>4
  <2>6. r \in Search
    BY <2>5 DEF Search, Began
  <2>7. SearchOK(r, rules)
    BY <2>5 DEF SearchOK
  <2>8. Becomes(s, r)
    BY <2>1, <2>2, <1>3
  <2> QED
    BY <1>1, <1>2, <1>3, <2>5, <2>6, <2>7, <2>8, OneSearch
<1>4. CASE Becomes(s, Failed) /\ UNCHANGED profile
  <2>1. Failed \in Search /\ Failed.at = "failed"
    BY DEF Search, Failed
  <2>2. SearchOK(Failed, rules)
    BY <2>1 DEF SearchOK
  <2> QED
    BY <1>1, <1>2, <1>4, <2>1, <2>2, OneSearch
<1> QED
  BY <1>3, <1>4 DEF OpenBrowser

LEMMA ReadCardKeeps ==
  ASSUME SearchInv, NEW s \in Searches, ReadCard(s)
  PROVE  SearchInv'
<1>1. rules' = rules /\ remembered' = remembered /\ search[s].at = "card" /\ profile' = NoSearch
  BY DEF ReadCard
<1>2. \A c \in remembered' : RememberedOK(c, rules)
  BY <1>1 DEF SearchInv
<1>3. profile = s
  BY <1>1 DEF SearchInv
<1>4. PICK r : /\ Becomes(s, r)
               /\ \/ r = Failed
                  \/ \E shown \in Found : \E d \in Chosen(shown, search[s].asked.host) :
                       \E ips \in IF d.ips # {} THEN {d.ips} ELSE {d.mgmt, {}} :
                         r = [at |-> "ping", asked |-> search[s].asked, card |-> d, ips |-> ips]
  <2>1. \/ Becomes(s, Failed)
        \/ \E shown \in Found : \E d \in Chosen(shown, search[s].asked.host) :
             \E ips \in IF d.ips # {} THEN {d.ips} ELSE {d.mgmt, {}} :
               Becomes(s, [at |-> "ping", asked |-> search[s].asked, card |-> d, ips |-> ips])
    BY DEF ReadCard
  <2>2. CASE Becomes(s, Failed)
    BY <2>2
  <2>3. CASE \E shown \in Found : \E d \in Chosen(shown, search[s].asked.host) :
               \E ips \in IF d.ips # {} THEN {d.ips} ELSE {d.mgmt, {}} :
                 Becomes(s, [at |-> "ping", asked |-> search[s].asked, card |-> d, ips |-> ips])
    <3>0. PICK shown \in Found : \E d \in Chosen(shown, search[s].asked.host) :
            \E ips \in IF d.ips # {} THEN {d.ips} ELSE {d.mgmt, {}} :
              Becomes(s, [at |-> "ping", asked |-> search[s].asked, card |-> d, ips |-> ips])
      BY <2>3
    <3>1. PICK d \in Chosen(shown, search[s].asked.host) :
            \E ips \in IF d.ips # {} THEN {d.ips} ELSE {d.mgmt, {}} :
              Becomes(s, [at |-> "ping", asked |-> search[s].asked, card |-> d, ips |-> ips])
      BY <3>0
    <3>2. PICK ips \in IF d.ips # {} THEN {d.ips} ELSE {d.mgmt, {}} :
            Becomes(s, [at |-> "ping", asked |-> search[s].asked, card |-> d, ips |-> ips])
      BY <3>1
    <3>3. PICK r : r = [at |-> "ping", asked |-> search[s].asked, card |-> d, ips |-> ips]
      OBVIOUS
    <3>4. Becomes(s, r)
      BY <3>2, <3>3
    <3> QED
      BY <3>3, <3>4
  <2> QED
    BY <2>1, <2>2, <2>3
<1>5. r \in Search /\ r.at \in {"failed", "ping"}
  <2>1. CASE r = Failed
    BY <2>1 DEF Search, Failed
  <2>2. ASSUME NEW shown \in Found, NEW d \in Chosen(shown, search[s].asked.host),
               NEW ips \in IF d.ips # {} THEN {d.ips} ELSE {d.mgmt, {}},
               r = [at |-> "ping", asked |-> search[s].asked, card |-> d, ips |-> ips]
        PROVE  r \in Search /\ r.at \in {"failed", "ping"}
    <3>1. d \in Cards
      BY <2>2 DEF Chosen, Cards
    <3>2. search[s].asked \in Asked
      <4>1. search[s] \in Search
        BY DEF SearchInv, SearchTypeOK
      <4>2. search[s] \in [at : {"open", "card"}, asked : Asked]
        BY <4>1, <1>1, SearchShapes
      <4> QED
        BY <4>2
    <3>3. ips \in {{}} \cup {x.ips : x \in Cards} \cup {x.mgmt : x \in Cards}
      BY <3>1
    <3>4. PICK a \in Asked : a = search[s].asked
      BY <3>2
    <3>5. r \in Began /\ r.at = "ping"
      BY <3>1, <3>3, <3>4, <2>2 DEF Began
    <3> QED
      BY <3>5 DEF Search
  <2> QED
    BY <1>4, <2>1, <2>2
<1>6. SearchOK(r, rules)
  BY <1>5 DEF SearchOK
<1> QED
  BY <1>1, <1>2, <1>3, <1>4, <1>5, <1>6, OneSearch

\* A fault of the hardware is green for an event of information only.
LEMMA TagFacts ==
  ASSUME NEW asked, NEW ping
  PROVE  /\ Tag(asked, ping) \in {"green", "red"}
         /\ Hardware(asked.problem) /\ Tag(asked, ping) = "green" => Informs(asked)
BY DEF Tag

LEMMA PingKeeps ==
  ASSUME SearchInv, NEW s \in Searches, Ping(s)
  PROVE  SearchInv'
<1>1. rules' = rules /\ remembered' = remembered /\ search[s].at = "ping" /\ profile' = profile
  BY DEF Ping
<1>2. \A c \in remembered' : RememberedOK(c, rules)
  BY <1>1 DEF SearchInv
<1>3. PICK old : old = search[s]
  OBVIOUS
<1>4. PICK answers : Becomes(s, [at |-> "stat", label |-> "Tech", asked |-> old.asked, card |-> old.card,
         tag |-> Tag(old.asked, PingStatus({answers[i] : i \in old.ips})),
         read |-> [l \in Labels |-> Unread], seen |-> Seen(s), version |-> 0])
  BY <1>3 DEF Ping
<1>5. PICK tag : tag = Tag(old.asked, PingStatus({answers[i] : i \in old.ips}))
  OBVIOUS
<1>6. PICK seen : seen = Seen(s)
  OBVIOUS
<1>7. PICK a : a = old.asked
  OBVIOUS
<1>8. PICK d : d = old.card
  OBVIOUS
<1>9. PICK read : read = [l \in Labels |-> Unread]
  OBVIOUS
<1>10. PICK r : r = [at |-> "stat", label |-> "Tech", asked |-> a, card |-> d, tag |-> tag,
                     read |-> read, seen |-> seen, version |-> 0]
  OBVIOUS
<1>11. Becomes(s, r)
  BY <1>4, <1>5, <1>6, <1>7, <1>8, <1>9, <1>10
<1>12. a \in Asked /\ d \in Cards
  BY <1>1, <1>3, <1>7, <1>8, SearchShapes DEF SearchInv, SearchTypeOK
<1>13. tag \in {"green", "red"} /\ (Hardware(a.problem) /\ tag = "green" => Informs(a))
  BY <1>5, <1>7, TagFacts
<1>14. PICK disk : disk = rules
  OBVIOUS
<1>15. seen = [l \in Labels |-> {disk[l].holds}] /\ seen \in [Labels -> SUBSET Files]
  BY <1>6, <1>14 DEF Seen, SearchInv, SearchTypeOK, RulesOK
<1>16. read \in [Labels -> Contents] /\ \A l \in Labels : read[l] = Unread
  BY <1>9 DEF Contents
<1>17. r \in Asking
  BY <1>10, <1>12, <1>13, <1>15, <1>16 DEF Asking, Labels
<1>18. r.at = "stat" /\ r.asked = a /\ r.tag = tag /\ r.seen = seen /\ r.read = read
  BY <1>10
<1>19. ReadOK(r)
  <2>1. r.read["Tech"] = Unread
    BY <1>16, <1>18 DEF Labels
  <2> QED
    BY <2>1, <1>13, <1>16, <1>18 DEF ReadOK, TechRead
<1>20. CurrentOK(r, disk)
  BY <1>15, <1>18 DEF CurrentOK
<1>21. SearchOK(r, rules)
  BY <1>14, <1>18, <1>19, <1>20 DEF SearchOK
<1>22. r \in Search
  BY <1>17 DEF Search
<1> QED
  BY <1>1, <1>2, <1>11, <1>18, <1>21, <1>22, OneSearch

\* What was got of the file asked for is kept, and the next one is asked for.
LEMMA AfterKeeps ==
  ASSUME NEW r \in Asking, NEW disk, RulesOK(disk), ReadOK(r), CurrentOK(r, disk),
         NEW got, got \in {Unread, disk[r.label].holds}, r.label = "Tech" => TechRead(got),
         NEW q, q = After(r, got)
  PROVE  q \in Search /\ q.at \in {"stat", "decide"} /\ SearchOK(q, disk)
<1>1. r.label \in Labels /\ r.read \in [Labels -> Contents] /\ r.seen \in [Labels -> SUBSET Files]
  BY DEF Asking
<1>2. got \in Contents
  BY <1>1 DEF RulesOK, Contents
<1>3. PICK at : at = IF r.label = "Tech" THEN "stat" ELSE "decide"
  OBVIOUS
<1>4. q = [r EXCEPT !.read[r.label] = got, !.at = at, !.label = "Digital", !.version = 0]
  BY <1>3 DEF After
<1>5. /\ q \in Asking /\ q.at = at /\ q.asked = r.asked /\ q.tag = r.tag /\ q.seen = r.seen
      /\ q.read[r.label] = got /\ \A l \in Labels \ {r.label} : q.read[l] = r.read[l]
  <2>1. PICK read : read = [r.read EXCEPT ![r.label] = got]
    OBVIOUS
  <2>2. /\ read \in [Labels -> Contents] /\ read[r.label] = got
        /\ \A l \in Labels \ {r.label} : read[l] = r.read[l]
    BY <1>1, <1>2, <2>1
  <2>3. q = [r EXCEPT !.read = read, !.at = at, !.label = "Digital", !.version = 0]
    BY <1>4, <2>1
  <2>4. at \in {"stat", "decide"} /\ "Digital" \in Labels
    BY <1>3 DEF Labels
  <2>5. /\ q \in Asking /\ q.at = at /\ q.asked = r.asked /\ q.tag = r.tag /\ q.seen = r.seen
        /\ q.read = read
    <3>1. PICK p : p = [r EXCEPT !.read = read, !.at = at]
      OBVIOUS
    <3>2. /\ p \in Asking /\ p.at = at /\ p.asked = r.asked /\ p.tag = r.tag /\ p.seen = r.seen
          /\ p.read = read
      BY ONLY <2>2, <2>4, <3>1, r \in Asking DEF Asking
    <3>3. q = [p EXCEPT !.label = "Digital", !.version = 0]
      BY ONLY <2>3, <3>1
    <3>4. /\ q \in Asking /\ q.at = p.at /\ q.asked = p.asked /\ q.tag = p.tag /\ q.seen = p.seen
          /\ q.read = p.read
      BY ONLY <2>4, <3>2, <3>3 DEF Asking
    <3> QED
      BY ONLY <3>2, <3>4
  <2> QED
    BY <2>2, <2>5
<1>6. disk[r.label].holds \in r.seen[r.label]
  BY <1>1 DEF CurrentOK
<1>7. \A l \in Labels : q.read[l] = Unread \/ q.read[l] \in q.seen[l]
  BY <1>5, <1>6 DEF ReadOK
<1>8. TechRead(q.read["Tech"])
  <2>1. CASE r.label = "Tech"
    BY <1>5, <2>1
  <2>2. CASE r.label # "Tech"
    <3>1. q.read["Tech"] = r.read["Tech"]
      BY <1>5, <2>2 DEF Labels
    <3> QED
      BY <3>1 DEF ReadOK
  <2> QED
    BY <2>1, <2>2
<1>9. ReadOK(q)
  BY <1>5, <1>7, <1>8 DEF ReadOK
<1>10. CurrentOK(q, disk)
  BY <1>5, <1>3 DEF CurrentOK
<1>11. q.at \in {"stat", "decide"}
  BY <1>5, <1>3
<1> QED
  BY <1>5, <1>9, <1>10, <1>11 DEF SearchOK, Search

LEMMA StatKeeps ==
  ASSUME SearchInv, NEW s \in Searches, Stat(s)
  PROVE  SearchInv'
<1>1. rules' = rules /\ remembered' = remembered /\ search[s].at = "stat" /\ profile' = profile
  BY DEF Stat
<1>2. \A c \in remembered' : RememberedOK(c, rules)
  BY <1>1 DEF SearchInv
<1>3. PICK r : r = search[s]
  OBVIOUS
<1>4. PICK disk : disk = rules
  OBVIOUS
<1>5. RulesOK(disk) /\ r \in Search /\ SearchOK(r, disk)
  BY <1>3, <1>4 DEF SearchInv, SearchTypeOK
<1>6. r \in Asking /\ ReadOK(r) /\ CurrentOK(r, disk) /\ r.label \in Labels
  <2>1. r \in Asking
    BY <1>1, <1>3, <1>5, SearchShapes
  <2> QED
    BY <2>1, <1>1, <1>3, <1>5 DEF SearchOK, Asking
<1>7. disk[r.label] \in [version : Nat, holds : Files] /\ (r.label = "Tech" => disk[r.label].holds \in TechFiles)
  BY <1>5, <1>6 DEF RulesOK
<1>8. \/ Becomes(s, After(r, Unread))
      \/ \E c \in KnownContents(r.label, disk[r.label].version) : Becomes(s, After(r, c.got))
      \/ Becomes(s, [r EXCEPT !.at = "read", !.version = disk[r.label].version])
  BY <1>3, <1>4 DEF Stat
<1>9. ASSUME NEW got, got \in {Unread, disk[r.label].holds}, r.label = "Tech" => TechRead(got),
             Becomes(s, After(r, got))
      PROVE  SearchInv'
  <2>1. PICK q : q = After(r, got)
    OBVIOUS
  <2>2. q \in Search /\ q.at \in {"stat", "decide"} /\ SearchOK(q, disk)
    BY <2>1, <1>5, <1>6, <1>9, AfterKeeps
  <2> QED
    BY <2>1, <2>2, <1>1, <1>2, <1>4, <1>9, OneSearch
<1>10. CASE Becomes(s, After(r, Unread))
  BY <1>9, <1>10 DEF TechRead
<1>11. ASSUME NEW c \in KnownContents(r.label, disk[r.label].version), Becomes(s, After(r, c.got))
       PROVE  SearchInv'
  <2>1. c \in remembered /\ c.label = r.label /\ c.version = disk[r.label].version
    BY DEF KnownContents
  <2>2. RememberedOK(c, disk)
    BY <2>1, <1>4 DEF SearchInv
  <2>3. c.got \in {Unread, Taken(r.label, disk[r.label].holds)}
    BY <2>1, <2>2 DEF RememberedOK
  <2>4. c.got \in {Unread, disk[r.label].holds} /\ (r.label = "Tech" => TechRead(c.got))
    BY <2>3, <1>6, <1>7, TakenFacts DEF TechRead
  <2> QED
    BY <2>4, <1>9, <1>11
<1>12. CASE Becomes(s, [r EXCEPT !.at = "read", !.version = disk[r.label].version])
  <2>1. PICK q : q = [r EXCEPT !.at = "read", !.version = disk[r.label].version]
    OBVIOUS
  <2>2. PICK v : v = disk[r.label].version
    OBVIOUS
  <2>3. v \in Nat
    BY <2>2, <1>7
  <2>4. /\ q \in Asking /\ q.at = "read" /\ q.version = v /\ q.label = r.label
        /\ q.asked = r.asked /\ q.tag = r.tag /\ q.seen = r.seen /\ q.read = r.read
    BY <2>1, <2>2, <2>3, <1>6 DEF Asking
  <2>5. ReadOK(q) /\ CurrentOK(q, disk)
    <3>1. q.version <= disk[q.label].version
      BY <2>2, <2>3, <2>4
    <3> QED
      BY <3>1, <2>4, <1>6 DEF ReadOK, CurrentOK
  <2>6. q \in Search /\ SearchOK(q, disk)
    BY <2>4, <2>5 DEF Search, SearchOK
  <2> QED
    BY <2>1, <2>4, <2>6, <1>1, <1>2, <1>4, <1>12, OneSearch
<1> QED
  BY <1>8, <1>10, <1>11, <1>12

LEMMA LoadKeeps ==
  ASSUME SearchInv, NEW s \in Searches, Load(s)
  PROVE  SearchInv'
<1>1. rules' = rules /\ search[s].at = "read" /\ profile' = profile
  BY DEF Load
<1>2. PICK r : r = search[s]
  OBVIOUS
<1>3. PICK disk : disk = rules
  OBVIOUS
<1>4. RulesOK(disk) /\ r \in Search /\ SearchOK(r, disk)
  BY <1>2, <1>3 DEF SearchInv, SearchTypeOK
<1>5. r \in Asking /\ ReadOK(r) /\ CurrentOK(r, disk) /\ r.label \in Labels /\ r.version \in Nat
  <2>1. r \in Asking
    BY <1>1, <1>2, <1>4, SearchShapes
  <2> QED
    BY <2>1, <1>1, <1>2, <1>4 DEF SearchOK, Asking
<1>6. PICK got : /\ got \in {Unread, Taken(r.label, disk[r.label].holds)}
                 /\ remembered' = remembered \cup {[label |-> r.label, version |-> r.version, got |-> got]}
                 /\ Becomes(s, After(r, got))
  BY <1>2, <1>3 DEF Load
<1>7. got \in {Unread, disk[r.label].holds} /\ (r.label = "Tech" => TechRead(got))
  <2>1. r.label = "Tech" => disk[r.label].holds \in TechFiles
    BY <1>4 DEF RulesOK
  <2> QED
    BY <2>1, <1>5, <1>6, TakenFacts DEF TechRead
<1>8. PICK q : q = After(r, got)
  OBVIOUS
<1>9. q \in Search /\ q.at \in {"stat", "decide"} /\ SearchOK(q, disk)
  BY <1>8, <1>4, <1>5, <1>7, AfterKeeps
<1>10. PICK new : new = [label |-> r.label, version |-> r.version, got |-> got]
  OBVIOUS
<1>11. new.label = r.label /\ new.version = r.version /\ new.got = got
  BY <1>10
<1>12. r.version <= disk[r.label].version
  BY <1>1, <1>2, <1>5 DEF CurrentOK
<1>13. RememberedOK(new, disk)
  BY <1>5, <1>6, <1>11, <1>12 DEF RememberedOK
<1>14. \A c \in remembered' : RememberedOK(c, rules)
  <2>1. remembered' = remembered \cup {new}
    BY <1>6, <1>10
  <2>2. \A c \in remembered : RememberedOK(c, disk)
    BY <1>3 DEF SearchInv
  <2> QED
    BY <2>1, <2>2, <1>3, <1>13
<1> QED
  BY <1>1, <1>2, <1>3, <1>6, <1>8, <1>9, <1>14, OneSearch

LEMMA AnswerKeeps ==
  ASSUME SearchInv, NEW s \in Searches, Answer(s)
  PROVE  SearchInv'
<1>1. rules' = rules /\ remembered' = remembered /\ search[s].at = "decide" /\ profile' = profile
  BY DEF Answer
<1>2. \A c \in remembered' : RememberedOK(c, rules)
  BY <1>1 DEF SearchInv
<1>3. PICK r : r = search[s]
  OBVIOUS
<1>4. PICK letter : letter = Decide(r.asked.host, r.card, r.read["Tech"], r.read["Digital"])
  OBVIOUS
<1>5. PICK q : q = [at |-> "done", asked |-> r.asked, card |-> r.card, tag |-> r.tag,
                    read |-> r.read, seen |-> r.seen, letter |-> letter]
  OBVIOUS
<1>6. Becomes(s, q)
  BY <1>3, <1>4, <1>5 DEF Answer
<1>7. r \in Search /\ SearchOK(r, rules)
  BY <1>3 DEF SearchInv, SearchTypeOK
<1>8. r \in Asking /\ ReadOK(r)
  <2>1. r \in Asking
    BY <1>1, <1>3, <1>7, SearchShapes
  <2> QED
    BY <2>1, <1>1, <1>3, <1>7 DEF SearchOK
<1>9. letter \in Letters
  <2>1. r.asked \in Asked /\ r.card \in Cards /\ r.read["Tech"] \in Contents /\ r.read["Digital"] \in Contents
    BY <1>8 DEF Asking, Labels
  <2> QED
    BY <1>4, <2>1 DEF Letters
<1>10. q \in Ended /\ q.at = "done" /\ q.asked = r.asked /\ q.card = r.card /\ q.tag = r.tag
         /\ q.read = r.read /\ q.seen = r.seen /\ q.letter = letter
  BY <1>5, <1>8, <1>9 DEF Asking, Ended
<1>11. ReadOK(q)
  BY <1>8, <1>10 DEF ReadOK
<1>12. SearchOK(q, rules) /\ q \in Search
  BY <1>4, <1>10, <1>11 DEF SearchOK, Search
<1> QED
  BY <1>1, <1>2, <1>3, <1>6, <1>10, <1>12, OneSearch

LEMMA ReplaceKeeps ==
  ASSUME SearchInv, NEW label \in Labels, NEW holds \in Files,
         holds \in IF label = "Tech" THEN TechFiles ELSE DigitalFiles, ReplaceFile(label, holds)
  PROVE  SearchInv'
<1>1. PICK disk : disk = rules
  OBVIOUS
<1>2. RulesOK(disk)
  BY <1>1 DEF SearchInv, SearchTypeOK
<1>3. PICK new : new = [version |-> disk[label].version + 1, holds |-> holds]
  OBVIOUS
<1>4. rules' = [disk EXCEPT ![label] = new]
  BY <1>1, <1>3 DEF ReplaceFile
<1>5. new \in [version : Nat, holds : Files] /\ new.holds = holds /\ new.version = disk[label].version + 1
  BY <1>2, <1>3 DEF RulesOK
<1>6. PICK later : later = rules'
  OBVIOUS
<1>7. /\ later[label] = new /\ \A l \in Labels \ {label} : later[l] = disk[l]
      /\ later \in [Labels -> [version : Nat, holds : Files]]
  BY <1>2, <1>4, <1>5, <1>6 DEF RulesOK
<1>8. RulesOK(later)
  <2>1. later["Tech"].holds \in TechFiles /\ later["Digital"].holds \in DigitalFiles
    BY <1>2, <1>5, <1>7 DEF RulesOK, Labels
  <2> QED
    BY <2>1, <1>7 DEF RulesOK
<1>9. \A l \in Labels : disk[l].version <= later[l].version /\ disk[l].version \in Nat
  BY <1>2, <1>5, <1>7 DEF RulesOK
<1>10. remembered' = remembered /\ profile' = profile
  BY DEF ReplaceFile
<1>11. \A c \in remembered : RememberedOK(c, later)
  <2> SUFFICES ASSUME NEW c \in remembered PROVE RememberedOK(c, later)
    OBVIOUS
  <2>1. RememberedOK(c, disk)
    BY <1>1 DEF SearchInv
  <2>2. CASE c.label = label
    BY <2>1, <2>2, <1>5, <1>7, <1>9 DEF RememberedOK
  <2>3. CASE c.label # label
    BY <2>1, <2>3, <1>7 DEF RememberedOK
  <2> QED
    BY <2>2, <2>3
<1>12. search' = [s \in Searches |->
         IF "seen" \in DOMAIN search[s] /\ search[s].at # "done"
         THEN [search[s] EXCEPT !.seen[label] = @ \cup {holds}] ELSE search[s]]
  BY DEF ReplaceFile
<1>13. ASSUME NEW s \in Searches
       PROVE  search'[s] \in Search /\ SearchOK(search'[s], later) /\ search'[s].at = search[s].at
  <2>1. PICK r : r = search[s]
    OBVIOUS
  <2>2. PICK q : q = search'[s]
    OBVIOUS
  <2>3. r \in Search /\ SearchOK(r, disk)
    BY <2>1, <1>1 DEF SearchInv, SearchTypeOK
  <2>4. q = IF "seen" \in DOMAIN r /\ r.at # "done" THEN [r EXCEPT !.seen[label] = r.seen[label] \cup {holds}] ELSE r
    BY <2>1, <2>2, <1>12
  <2>5. CASE r \in Asking
    <3>1. r.at \in {"stat", "read", "decide"} /\ ReadOK(r) /\ CurrentOK(r, disk)
      BY <2>5, <2>3 DEF SearchOK, Asking
    <3>2. "seen" \in DOMAIN r
      BY <2>5 DEF Asking
    <3>3. q = [r EXCEPT !.seen[label] = r.seen[label] \cup {holds}]
      BY <2>4, <3>1, <3>2
    <3>4. /\ q \in Asking /\ q.at = r.at /\ q.asked = r.asked /\ q.tag = r.tag /\ q.read = r.read
          /\ q.version = r.version /\ q.label = r.label
          /\ q.seen[label] = r.seen[label] \cup {holds}
          /\ \A l \in Labels \ {label} : q.seen[l] = r.seen[l]
      BY <3>3, <2>5 DEF Asking
    <3>5. ReadOK(q)
      BY <3>1, <3>4 DEF ReadOK
    <3>6. CurrentOK(q, later)
      <4>1. \A l \in Labels : later[l].holds \in q.seen[l]
        BY <3>1, <3>4, <1>5, <1>7 DEF CurrentOK
      <4>2. q.at = "read" => q.version <= later[q.label].version
        BY <3>1, <3>4, <1>7, <1>8, <1>9 DEF CurrentOK, Asking, RulesOK
      <4> QED
        BY <4>1, <4>2 DEF CurrentOK
    <3>7. SearchOK(q, later) /\ q \in Search
      BY <3>1, <3>4, <3>5, <3>6 DEF SearchOK, Search
    <3> QED
      BY <3>4, <3>7, <2>1, <2>2
  <2>6. CASE r \notin Asking
    <3>1. q = r
      BY <2>3, <2>4, <2>6, SearchShapes
    <3>2. SearchOK(q, later)
      BY <3>1, <2>3, <2>6, SearchShapes DEF SearchOK
    <3> QED
      BY <3>1, <3>2, <2>1, <2>2, <2>3
  <2> QED
    BY <2>5, <2>6
<1>14. search' \in [Searches -> Search]
  <2>1. DOMAIN search' = Searches /\ search' = [s \in Searches |-> search'[s]]
    BY <1>12
  <2> QED
    BY <2>1, <1>13
<1>15. \A s \in Searches : (profile' = s) <=> (search'[s].at = "card")
  BY <1>10, <1>13 DEF SearchInv
<1>16. \A s \in Searches : SearchOK(search'[s], later)
  BY <1>13
<1> QED
  BY <1>6, <1>8, <1>10, <1>11, <1>14, <1>15, <1>16 DEF SearchInv, SearchTypeOK

LEMMA NextSearchInv == SearchInv /\ [NextSearch]_searchVars => SearchInv'
<1> SUFFICES ASSUME SearchInv, [NextSearch]_searchVars PROVE SearchInv'
  OBVIOUS
<1>1. ASSUME NEW s \in Searches,
             (\E asked \in Asked : Ask(s, asked)) \/ OpenBrowser(s) \/ ReadCard(s) \/ Ping(s)
               \/ Stat(s) \/ Load(s) \/ Answer(s)
      PROVE  SearchInv'
  BY <1>1, AskKeeps, OpenKeeps, ReadCardKeeps, PingKeeps, StatKeeps, LoadKeeps, AnswerKeeps
<1>2. ASSUME NEW f \in TechFiles, ReplaceFile("Tech", f) PROVE SearchInv'
  BY <1>2, ReplaceKeeps DEF Labels, Files
<1>3. ASSUME NEW f \in DigitalFiles, ReplaceFile("Digital", f) PROVE SearchInv'
  BY <1>3, ReplaceKeeps DEF Labels, Files
<1>4. CASE UNCHANGED searchVars
  BY <1>4 DEF searchVars, SearchInv, SearchTypeOK
<1> QED
  BY <1>1, <1>2, <1>3, <1>4 DEF NextSearch

LEMMA InvFollows == SearchInv => LettersFollowTheRules
<1> SUFFICES ASSUME SearchInv PROVE LettersFollowTheRules
  OBVIOUS
<1>1. ASSUME NEW s \in Answered
      PROVE  /\ \A l \in Labels : search[s].read[l] = Unread \/ search[s].read[l] \in search[s].seen[l]
             /\ LET r == search[s]
                    tech == r.read["Tech"]
                    always == IF tech = Unread THEN {} ELSE tech.always
                IN  /\ r.letter.ready =>
                         Ordered(s) /\ r.letter.to # {} /\ r.letter.cc \cap r.letter.to \subseteq always
                    /\ r.letter.ready /\ r.letter.from = "Tech" => r.letter.cc \cap tech.never \subseteq always
                    /\ Hardware(r.asked.problem) /\ r.tag = "green" => Informs(r.asked)
  <2>1. PICK r : r = search[s]
    OBVIOUS
  <2>2. SearchOK(r, rules) /\ r.at = "done"
    BY <2>1 DEF SearchInv, Answered
  <2>3. ReadOK(r) /\ r.letter = Decide(r.asked.host, r.card, r.read["Tech"], r.read["Digital"])
    BY <2>2 DEF SearchOK
  <2>4. Follows(r.letter, r.asked.host, r.card, r.read["Tech"], r.read["Digital"])
    BY <2>3, DecideFollows DEF ReadOK
  <2>5. r.letter.ready => Ordered(s)
    BY <2>1, <2>4 DEF Follows, Ordered
  <2> QED
    BY <2>1, <2>3, <2>4, <2>5 DEF Follows, ReadOK, Always
<1>2. ReadsTheFiles
  BY <1>1 DEF ReadsTheFiles
<1>3. \A s \in Searches : (profile = s) <=> (search[s].at = "card")
  BY DEF SearchInv
<1> QED
  BY <1>1, <1>2, <1>3 DEF LettersFollowTheRules

\* For any hosts, cards, files of rules and searches side by side: a letter offered as
\* ready follows the rules as they stood during its search, copies nobody it addresses or
\* the rule excludes but those the file always copies, and a fault is not shown green.
THEOREM LettersFollow == SearchSpec => []LettersFollowTheRules
<1>1. SearchInv => LettersFollowTheRules
  BY InvFollows
<1> QED
  BY <1>1, InitSearchInv, NextSearchInv, PTL DEF SearchSpec
=============================================================================
