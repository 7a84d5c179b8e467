-------------------------------- MODULE MCOffice --------------------------------
(* Instances of Vacations, WorkJournal, KnowledgeBase and MonitoringSearch for TLC:
   the four keep no table in common and are checked next to each other, not in product. *)
EXTENDS Vacations, WorkJournal, KnowledgeBase, MCMonitoring

CONSTANTS ann, bob, sam

VARIABLE part

-----------------------------------------------------------------------------
(* Vacations. *)

DutyPost(group) == [group |-> group, site |-> Ix, schedule |-> OneThree]
DayPost == [group |-> NoGroup, site |-> Ix, schedule |-> FiveTwo]

\* A leader of the duty group whose day is in the middle, one who may be a leader
\* too and may join that group, and a substitute of the group of the last day.
Team ==
  {[who |-> ann, leader |-> leads, substitute |-> FALSE, post |-> DayPost, from |-> 0] :
     leads \in BOOLEAN}
  \cup
  {[who |-> bob, leader |-> TRUE, substitute |-> FALSE, post |-> DutyPost(1), from |-> 0],
   [who |-> sam, leader |-> FALSE, substitute |-> TRUE, post |-> DutyPost(2), from |-> 0]}

SomePosts == {DutyPost(1), DayPost}

Vacation(e, first, last, substitute) ==
  [who |-> e, substitute |-> substitute, from |-> first, to |-> last, status |-> Planned]

SomeForms ==
  {Vacation(ann, 0, 1, sam), Vacation(ann, 0, 0, Nobody), Vacation(bob, 1, 2, sam),
   Vacation(sam, 0, 1, Nobody),
   [Vacation(ann, 0, 1, sam) EXCEPT !.status = Cancelled]}

-----------------------------------------------------------------------------
(* The journal: two of the three sections and the two that resemble each other. *)

SomeSections == {"linux", "linux 7", "oracle"}
OneResembles == {<<"linux 7", "linux">>}
FirstBook == [n \in {Pnr, "Request", Done, Partial, "linux"} |-> TRUE]

Row(day, source, status) ==
  [day |-> day, source |-> source, number |-> "n", text |-> "typed", status |-> status,
   section |-> Empty, steps |-> {}, due |-> TRUE, flagged |-> FALSE]
Rack(steps) == [Row(1, Pnr, Empty) EXCEPT !.steps = steps]

SomeEntries ==
  {Row(0, "Request", Partial), Row(1, "Request", DoneAsTyped), Rack({"servers", "switching"}),
   Rack(Steps), [Row(0, "Order", Done) EXCEPT !.section = "linux"]}

\* A row without a date and a status, two of an old workbook, one that lacks its
\* number and its text, and a rack with a finished request.
SomeSheets ==
  {<<Row(NoDate, "Order", Empty)>>,
   <<[Row(0, "Request", Partial) EXCEPT !.number = Empty, !.text = Empty, !.section = "oracle"],
     [Row(0, "Request", Partial) EXCEPT !.section = "linux 7"]>>,
   <<[Rack({"servers"}) EXCEPT !.day = 0], Row(0, "Request", DoneAsTyped)>>}

-----------------------------------------------------------------------------

MCInit ==
  /\ Init /\ InitJournal /\ InitKnowledge /\ part \in {"vacations", "journal", "knowledge", "search"}
  /\ IF part = "search" THEN MCInitSearch
     ELSE /\ mode = "off" /\ rules = [l \in Labels |-> [version |-> 0, holds |-> Missing]]
          /\ remembered = {} /\ profile = NoSearch /\ faults = 0 /\ search = [s \in Searches |-> Waiting]

MCNext ==
  /\ UNCHANGED part
  /\ \/ part = "vacations" /\ Next /\ UNCHANGED <<journalVars, knowledgeVars, searchVars>>
     \/ part = "journal" /\ NextJournal /\ UNCHANGED <<vars, knowledgeVars, searchVars>>
     \/ part = "knowledge" /\ NextKnowledge /\ UNCHANGED <<vars, journalVars, searchVars>>
     \/ part = "search" /\ MCNextSearch /\ UNCHANGED <<vars, journalVars, knowledgeVars>>

MCSpec == MCInit /\ [][MCNext]_<<vars, journalVars, knowledgeVars, searchVars, part>>
=============================================================================
