------------------------------- MODULE Vacations -------------------------------
(***************************************************************************)
(* The vacation plan of the two sites: employees, their dated duty posts,  *)
(* vacation requests, the conflicts found when a request is written, and   *)
(* the decision on them.                                                   *)
(*                                                                         *)
(*   staff     vacation_employees: who is registered, with the flags       *)
(*   shifts    vacation_assignments: who holds which post from which day   *)
(*             to which day                                                *)
(*   requests  vacation_requests in the order of their ids, each with its  *)
(*             rows of vacation_conflicts                                  *)
(*                                                                         *)
(* A POST of the module runs under the server's lock from its first read   *)
(* to its last write, so each is one step. vacation_history and            *)
(* vacation_audit_log are only appended to and are left out.               *)
(***************************************************************************)
EXTENDS Integers, FiniteSets, Sequences

CONSTANTS
  People,          \* full names (UNIQUE): the identity of an employee
  Nobody,          \* no substitute named, no related employee
  LastDay,         \* bound: the plan's days are 0 .. LastDay
  Groups,          \* length of the duty cycle; 4 in the code
  Posts,           \* posts an assignment may give
  Newcomers,       \* forms of new employees
  Forms,           \* vacation forms
  MaxRequests,     \* bound: requests ever created
  MaxShifts        \* bound: assignment rows

Days == 0 .. LastDay
Forever == LastDay + 1      \* valid_to IS NULL: later than every day

FiveTwo == "FIVE_TWO"
OneThree == "ONE_THREE"
Ix == "ixcellerate"
Hybrid == "hybrid"
Sites == {Ix, "solar", Hybrid}
NoGroup == -1

\* _assignment_fields: a duty post has a group and belongs to one site.
Post ==
  {p \in [site : Sites, schedule : {FiveTwo, OneThree}, group : -1 .. (Groups - 1)] :
     IF p.schedule = OneThree THEN p.group # NoGroup /\ p.site # Hybrid
                              ELSE p.group = NoGroup}

\* SUBMITTED and APPROVED go the way of PLANNED everywhere in the module.
Planned == "PLANNED"
Refused == "REJECTED"
Cancelled == "CANCELLED"

\* vacation_requests.conflict_status
Clear == "NONE"
Undecided == "PENDING"
Exception == "APPROVED_EXCEPTION"
TurnedDown == "REJECTED"

Form == [who : People, from : Days, to : Days, substitute : People \cup {Nobody},
         status : {Planned, Refused, Cancelled}]

ASSUME VacationBounds ==
  /\ LastDay \in Nat /\ Groups \in Nat \ {0} /\ MaxRequests \in Nat /\ MaxShifts \in Nat
  /\ Nobody \notin People
  /\ Posts \subseteq Post
  /\ Newcomers \subseteq [who : People, leader : BOOLEAN, substitute : BOOLEAN,
                          post : Post, from : Days]
  /\ Forms \subseteq Form

VARIABLES staff, shifts, requests
vars == <<staff, shifts, requests>>

Flags == [leader : BOOLEAN, substitute : BOOLEAN]
Shift == [who : People, from : Days, to : 0 .. Forever, post : Post]
Conflict == [code : {"EMPLOYEE_OVERLAP", "LEADERSHIP_OVERLAP", "SUBSTITUTE_OVERLAP",
                     "DUTY_COVERAGE"},
             day : Days, related : People \cup {Nobody},
             decision : {Undecided, "APPROVED", TurnedDown}]
Request == [form : Form, verdict : {Clear, Undecided, Exception, TurnedDown},
            conflicts : SUBSET Conflict]

Registered == DOMAIN staff

Init ==
  /\ staff = [e \in {} |-> [leader |-> FALSE, substitute |-> FALSE]]
  /\ shifts = {}
  /\ requests = <<>>

-----------------------------------------------------------------------------
(* Posts by date. *)

Latest(rows) == CHOOSE r \in rows : \A s \in rows : s.from <= r.from
Earliest(rows) == CHOOSE r \in rows : \A s \in rows : r.from <= s.from

Covers(s, day) == s.from <= day /\ day <= s.to

RowsOn(e, day) == {s \in shifts : s.who = e /\ Covers(s, day)}

Assigned(e, day) == RowsOn(e, day) # {}

\* assignment_on
PostOn(e, day) == Latest(RowsOn(e, day)).post

HoldsOneThree(e, day) == Assigned(e, day) /\ PostOn(e, day).schedule = OneThree

\* assignments_on, for a duty group of a site
Scheduled(site, group, day) ==
  {s.who : s \in {r \in shifts : /\ Covers(r, day)
                                 /\ r.post = [site |-> site, schedule |-> OneThree,
                                              group |-> group]}}

\* shift_group_on; day 0 is the anchor
ShiftGroupOn(day) == day % Groups

-----------------------------------------------------------------------------
(* Conflicts of a request that is about to be written. *)

Active(r) == r.form.status \notin {Refused, Cancelled} /\ r.verdict # TurnedDown

Meets(f, g) == f.from <= g.to /\ f.to >= g.from

\* Mutant: a request that began earlier is not seen.
OverlappingBegunInside(f, except) ==
  {requests[i].form :
     i \in {j \in DOMAIN requests \ except : Active(requests[j])
                                             /\ requests[j].form.from \in f.from .. f.to}}

\* overlapping_requests; except: the request being rewritten
Overlapping(f, except) ==
  {requests[i].form :
     i \in {j \in DOMAIN requests \ except : Active(requests[j]) /\ Meets(requests[j].form, f)}}

AwayIn(forms, e, day) == \E g \in forms : g.who = e /\ g.from <= day /\ day <= g.to

New(code, day, related) ==
  [code |-> code, day |-> day, related |-> related, decision |-> Undecided]

\* The rules between two vacations look at the first day they share.
PairConflicts(f, g) ==
  LET day == IF f.from >= g.from THEN f.from ELSE g.from
      other == g.who # f.who
      holds == [EMPLOYEE_OVERLAP |-> ~other,
                LEADERSHIP_OVERLAP |-> other /\ staff[f.who].leader /\ staff[g.who].leader,
                SUBSTITUTE_OVERLAP |-> other /\
                  \/ staff[f.who].substitute /\ HoldsOneThree(g.who, day)
                  \/ staff[g.who].substitute /\ HoldsOneThree(f.who, day)]
  IN  {New(code, day, g.who) : code \in {c \in DOMAIN holds : holds[c]}}

\* A named substitute counts when flagged, on a 1/3 post that day and not away.
SubstituteReady(e, day, away) ==
  e # Nobody /\ staff[e].substitute /\ HoldsOneThree(e, day) /\ ~AwayIn(away, e, day)

\* Mutant: a named substitute counts, ready or not.
UncoveredUnlessNamed(f, away) ==
  {day \in f.from .. f.to :
     /\ HoldsOneThree(f.who, day)
     /\ PostOn(f.who, day).group = ShiftGroupOn(day)
     /\ \A e \in Scheduled(PostOn(f.who, day).site, ShiftGroupOn(day), day) \ {f.who} :
          AwayIn(away, e, day)
     /\ f.substitute = Nobody}

\* _coverage_conflicts
Uncovered(f, away) ==
  {day \in f.from .. f.to :
     /\ HoldsOneThree(f.who, day)
     /\ PostOn(f.who, day).group = ShiftGroupOn(day)
     /\ \A e \in Scheduled(PostOn(f.who, day).site, ShiftGroupOn(day), day) \ {f.who} :
          AwayIn(away, e, day)
     /\ ~SubstituteReady(f.substitute, day, away)}

\* detect_conflicts
Conflicts(f, except) ==
  LET away == Overlapping(f, except)
  IN  (UNION {PairConflicts(f, g) : g \in away})
      \cup {New("DUTY_COVERAGE", day, f.substitute) : day \in Uncovered(f, away)}

\* What create_request and update_request write; a refused or cancelled form is
\* not examined.
Entry(f, except) ==
  LET found == IF f.status \in {Refused, Cancelled} THEN {} ELSE Conflicts(f, except)
  IN  [form |-> f, verdict |-> IF found = {} THEN Clear ELSE Undecided, conflicts |-> found]

\* request_values and the first checks of detect_conflicts
Valid(f) ==
  /\ f.who \in Registered /\ f.from <= f.to
  /\ f.substitute \in (Registered \cup {Nobody}) \ {f.who}
  /\ f.status \notin {Refused, Cancelled} => Assigned(f.who, f.from)

-----------------------------------------------------------------------------
(* The operations of the facade. *)

\* create_employee: the employee and the first, open-ended assignment.
CreateEmployee(n) ==
  /\ n.who \notin Registered /\ Cardinality(shifts) < MaxShifts
  /\ staff' = [e \in Registered \cup {n.who} |->
                 IF e = n.who THEN [leader |-> n.leader, substitute |-> n.substitute]
                              ELSE staff[e]]
  /\ shifts' = shifts \cup {[who |-> n.who, from |-> n.from, to |-> Forever, post |-> n.post]}
  /\ UNCHANGED requests

CreateRequest(f) ==
  /\ Valid(f) /\ Len(requests) < MaxRequests
  /\ requests' = Append(requests, Entry(f, {}))
  /\ UNCHANGED <<staff, shifts>>

\* Mutant: the status of the conflicts is left as it was.
UpdateRequestKeepingVerdict(i, f) ==
  /\ i \in DOMAIN requests /\ Valid(f)
  /\ requests' = [requests EXCEPT ![i] = [Entry(f, {i}) EXCEPT !.verdict = requests[i].verdict]]
  /\ UNCHANGED <<staff, shifts>>

UpdateRequest(i, f) ==
  /\ i \in DOMAIN requests /\ Valid(f)
  /\ requests' = [requests EXCEPT ![i] = Entry(f, {i})]
  /\ UNCHANGED <<staff, shifts>>

\* resolve_conflicts: one decision for every row still pending.
Resolve(i, decision) ==
  /\ i \in DOMAIN requests
  /\ \E c \in requests[i].conflicts : c.decision = Undecided
  /\ requests' = [requests EXCEPT ![i] =
       [form |-> IF decision = TurnedDown THEN [@.form EXCEPT !.status = Refused] ELSE @.form,
        verdict |-> IF decision = TurnedDown THEN TurnedDown ELSE Exception,
        conflicts |-> {IF c.decision = Undecided THEN [c EXCEPT !.decision = decision] ELSE c :
                         c \in @.conflicts}]]
  /\ UNCHANGED <<staff, shifts>>

\* validate_assignment_change: the last one of an IXcellerate duty group stays,
\* as seen on the day the change takes effect.
MayLeave(e, post, day) ==
  /\ Assigned(e, day) /\ PostOn(e, day).site = Ix /\ PostOn(e, day).schedule = OneThree
  /\ post # PostOn(e, day)
  => Scheduled(Ix, PostOn(e, day).group, day) \ {e} # {}

\* Mutant: the new row is open-ended although a later one exists.
ReassignedOpenEnded(e, post, day) ==
  LET before == {s \in shifts : s.who = e /\ s.from < day /\ s.to >= day}
      cut == IF before = {} THEN {} ELSE {Latest(before)}
  IN  {s \in shifts \ cut : s.who # e \/ s.from # day}
      \cup {[s EXCEPT !.to = day - 1] : s \in cut}
      \cup {[who |-> e, from |-> day, to |-> Forever, post |-> post]}

\* add_assignment: the row before is cut short, the new one ends where the next
\* begins, and a row of the same date is overwritten.
Reassigned(e, post, day) ==
  LET mine == {s \in shifts : s.who = e}
      before == {s \in mine : s.from < day /\ s.to >= day}
      after == {s \in mine : s.from > day}
      cut == IF before = {} THEN {} ELSE {Latest(before)}
      until == IF after = {} THEN Forever ELSE Earliest(after).from - 1
  IN  {s \in shifts \ cut : s.who # e \/ s.from # day}
      \cup {[s EXCEPT !.to = day - 1] : s \in cut}
      \cup {[who |-> e, from |-> day, to |-> until, post |-> post]}

ChangeAssignment(e, post, day) ==
  /\ e \in Registered /\ MayLeave(e, post, day)
  /\ Cardinality(Reassigned(e, post, day)) <= MaxShifts
  /\ shifts' = Reassigned(e, post, day)
  /\ UNCHANGED <<staff, requests>>

Next ==
  \/ \E n \in Newcomers : CreateEmployee(n)
  \/ \E f \in Forms : CreateRequest(f)
  \/ \E f \in Forms, i \in DOMAIN requests : UpdateRequest(i, f)
  \/ \E i \in DOMAIN requests, d \in {"APPROVED", TurnedDown} : Resolve(i, d)
  \/ \E e \in Registered, p \in Posts, day \in Days : ChangeAssignment(e, p, day)

Spec == Init /\ [][Next]_vars

-----------------------------------------------------------------------------
(* Properties. *)

\* What the three tables hold.
TypeOK ==
  /\ Registered \subseteq People /\ staff \in [Registered -> Flags]
  /\ shifts \subseteq Shift /\ \A s \in shifts : s.who \in Registered
  /\ requests \in Seq(Request)

\* From the first day of an employee's first assignment on, every day belongs to
\* exactly one of the rows: changes entered in any order of dates leave neither a
\* gap nor two posts on one day (add_assignment).
OnePostADay ==
  \A e \in Registered : \A s \in shifts : s.who = e =>
    \A day \in s.from .. LastDay : Cardinality(RowsOn(e, day)) = 1

\* The status of a request tells what was decided on the conflicts listed for it:
\* rewriting a request does not leave an old decision behind, and a decision on
\* the request is the decision on every conflict (update_request, resolve_conflicts).
VerdictTellsDecisions ==
  \A i \in DOMAIN requests :
    LET r == requests[i]
        decisions == {c.decision : c \in r.conflicts}
    IN  /\ r.verdict = Clear <=> decisions = {}
        /\ r.verdict = Undecided <=> decisions = {Undecided}
        /\ r.verdict = Exception <=> decisions = {"APPROVED"}
        /\ r.verdict = TurnedDown <=> decisions = {TurnedDown}
        /\ r.verdict = TurnedDown => r.form.status = Refused

\* Two vacations in force that share a day and belong to one employee, or to two
\* leaders, are never both free of conflicts, whichever was written or changed
\* last (detect_conflicts looks at the other requests once, when one is written).
NoSilentClash ==
  \A i, j \in DOMAIN requests :
    LET r == requests[i]
        s == requests[j]
    IN  /\ i # j /\ Active(r) /\ Active(s) /\ Meets(r.form, s.form)
        /\ \/ r.form.who = s.form.who
           \/ staff[r.form.who].leader /\ staff[s.form.who].leader
        => r.verdict # Clear \/ s.verdict # Clear

AwayForms == {requests[i].form : i \in {j \in DOMAIN requests : Active(requests[j])}}

\* Somebody of the duty group comes.
Attended(site, day) ==
  \E e \in Scheduled(site, ShiftGroupOn(day), day) : ~AwayIn(AwayForms, e, day)

\* One of the group who is away has named a substitute who comes.
StoodInFor(site, day) ==
  \E f \in AwayForms : /\ f.who \in Scheduled(site, ShiftGroupOn(day), day)
                       /\ f.from <= day /\ day <= f.to
                       /\ SubstituteReady(f.substitute, day, AwayForms)

\* Writing a request or a decision never takes the last one from a duty shift, with
\* no substitute to come instead, unless a vacation of that day has an open or
\* accepted conflict, whoever of the group was written away first (detect_conflicts,
\* _coverage_conflicts).
ShiftLossIsFlagged ==
  [][shifts' = shifts =>
       \A site \in Sites, day \in Days :
         Attended(site, day) /\ ~Attended(site, day)' /\ ~StoodInFor(site, day)' =>
           \E i \in DOMAIN requests' :
             /\ requests'[i].form.from <= day /\ day <= requests'[i].form.to
             /\ requests'[i].verdict \in {Undecided, Exception}]_vars
=============================================================================
