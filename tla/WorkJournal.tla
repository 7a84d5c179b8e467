------------------------------ MODULE WorkJournal ------------------------------
(***************************************************************************)
(* The journal of works of a shift: entries typed in, imported from CSV    *)
(* and from old workbooks, corrected, and read as the two sheets of the    *)
(* shift report: what was completed today and what is handed over.         *)
(*                                                                         *)
(*   logs     work_logs by id                                              *)
(*   made     ids given out (AUTOINCREMENT)                                *)
(*   book     reference_values: names of sources, statuses and sections,   *)
(*            TRUE while a name is active                                  *)
(*   pending  the preview that waits for its confirmation, with the rows   *)
(*            as they were read and as they were shown                     *)
(*   today    the day of the server's clock                                *)
(*                                                                         *)
(* A write runs under the server's lock, so each is one step. How several  *)
(* previews share the store is the matter of PreviewStore: here a preview  *)
(* waits or is forgotten.                                                  *)
(***************************************************************************)
EXTENDS Integers, Sequences, FiniteSets, Functions, SequencesExt

CONSTANTS
  Sections,        \* names a section column may hold, of the dictionary or not
  Resembling,      \* pairs <<text, name>> of which one contains the other
  Book,            \* the dictionary at first
  StrictForms,     \* strict_reference_validation, FALSE as shipped
  Entries,         \* rows that may be typed
  Sheets,          \* files that may be imported: sequences of rows
  Switched,        \* bound: the names that are switched on and off
  MaxLogs,         \* bound: entries ever made
  EndDay           \* bound: the days are 0 .. EndDay

\* PNR_CHECKLIST with PNR_PREREQUISITES: what has to be done before a step.
Before ==
  [servers |-> {}, power |-> {}, transceivers |-> {}, marking |-> {},
   laying |-> {"marking"}, switching |-> {"marking", "laying"}]
Steps == DOMAIN Before

Empty == ""
Pnr == "PNR"
Unnamed == "Unspecified"
Sources == {Pnr, Unnamed, "Request", "Order"}
Done == "Done"
Partial == "In progress"
DoneAsTyped == "done"        \* the same status, typed without the capital
Dash == "-"
States == {Done, Partial, DoneAsTyped}
NoDate == -1

\* A row as it comes: typed, or read from a file. steps is the checklist of a
\* PNR; text and number are what an entry is about and its number in the source.
LogEntry == [day : -1 .. EndDay, source : Sources \cup {Empty}, number : {Empty, "n", Dash},
          text : {Empty, "typed", Dash}, status : States \cup {Empty},
          section : Sections \cup {Empty}, steps : SUBSET Steps,
          due : BOOLEAN, flagged : BOOLEAN]

ASSUME JournalBounds ==
  /\ Resembling \subseteq Sections \X Sections
  /\ DOMAIN Book \subseteq Sources \cup States \cup Sections /\ Range(Book) \subseteq BOOLEAN
  /\ Sections \cap (Sources \cup States) = {}    \* Book stands for several dictionaries
  /\ StrictForms \in BOOLEAN /\ Entries \subseteq LogEntry /\ Sheets \subseteq Seq(LogEntry)
  /\ Switched \subseteq DOMAIN Book /\ MaxLogs \in Nat /\ EndDay \in Nat

VARIABLES logs, made, book, pending, today
journalVars == <<logs, made, book, pending, today>>

NoPreview == [rows |-> <<>>]

InitJournal ==
  logs = <<>> /\ made = 0 /\ book = Book /\ pending = NoPreview /\ today = 0

-----------------------------------------------------------------------------

\* reference_sets: a name is looked up without regard to case.
Folded(name) == IF name = DoneAsTyped THEN Done ELSE name
ActiveNames == {n \in DOMAIN book : book[n]}
Listed(name) == Folded(name) \in {Folded(n) : n \in ActiveNames}

\* normalize_pnr_checklist: a step whose prerequisite is missing is dropped.
Accepted(S) == {s \in S : Before[s] \subseteq S}
Remaining(row) == Steps \ Accepted(row.steps)

\* prepare_work_log: what a row must have, and what is made of it.
Acceptable(e, strict, dueNeeded) ==
  /\ e.source # Empty /\ (strict => Listed(e.source))
  /\ dueNeeded => e.due
  /\ e.day # NoDate
  /\ e.number # Empty \/ e.source # Unnamed
  /\ strict /\ e.section # Empty => Listed(e.section)
  /\ e.source # Pnr => e.text # Empty /\ e.status # Empty /\ Listed(e.status)

Prepared(e) ==
  IF e.source # Pnr THEN [e EXCEPT !.steps = {}]
  ELSE [e EXCEPT !.steps = Accepted(e.steps), !.text = "typed",
                 !.status = IF Accepted(e.steps) = Steps THEN Done ELSE Partial]

Given(value, otherwise) == IF value = Empty THEN otherwise ELSE value

\* soft_work_log_source
Softened(e) ==
  [e EXCEPT !.day = IF @ = NoDate THEN today ELSE @,
            !.source = Given(@, Unnamed), !.status = Given(@, Done)]

\* match_section, by the sections active now
Known == ActiveNames \cap Sections
Likely(text) == {n \in Known : <<text, n>> \in Resembling \/ <<n, text>> \in Resembling}
Matched(text) ==
  IF text = Empty \/ text \in Known \/ Likely(text) = {} THEN text
  ELSE CHOOSE n \in Likely(text) : TRUE
Unmatched(text) == text # Empty /\ text \notin Known /\ Likely(text) = {}

\* resolve_import_sections with migration_placeholders: a row of an old workbook
\* is never dropped, what it lacks is filled in and flagged.
Migrated(e) ==
  [e EXCEPT !.number = Given(@, Dash), !.text = Given(@, Dash),
            !.section = Matched(@),
            !.flagged = @ \/ e.number = Empty \/ e.text = Empty \/ Unmatched(e.section)]

\* What _prepare_import_rows makes of a row of a file.
Read(e, soft) == IF soft THEN Softened(e) ELSE e
Passes(e, soft) == Acceptable(Read(e, soft), ~soft, FALSE)
Shown(e, soft) == IF Passes(e, soft) THEN Prepared(Read(e, soft)) ELSE [refused |-> e]

Written(rows) ==
  [id \in DOMAIN logs \cup (made + 1 .. made + Len(rows)) |->
     IF id > made THEN rows[id - made] ELSE logs[id]]

\* insert_work_logs: the rows of one request in one transaction
Insert(rows) ==
  /\ made + Len(rows) <= MaxLogs
  /\ logs' = Written(rows) /\ made' = made + Len(rows)

\* update_work_log, delete_work_log and assign_section of the repository
Rewrite(id, row) == id \in DOMAIN logs /\ logs' = [logs EXCEPT ![id] = row]
Erase(id) == id \in DOMAIN logs /\ logs' = Restrict(logs, DOMAIN logs \ {id})
PutIn(ids, section) ==
  logs' = [id \in DOMAIN logs |->
             IF id \in ids THEN [logs[id] EXCEPT !.section = section, !.flagged = FALSE]
             ELSE logs[id]]

\* collect_references: names the dictionary has not seen become active; one that
\* was switched off stays off.
Collected(rows) ==
  LET new == {r.source : r \in ToSet(rows)} \ DOMAIN book
  IN  [n \in DOMAIN book \cup new |-> IF n \in new THEN TRUE ELSE book[n]]

-----------------------------------------------------------------------------

\* WORK_LOG: a form has no flag and needs a term.
Create(e) ==
  /\ Acceptable(e, StrictForms, TRUE)
  /\ Insert(<<Prepared([e EXCEPT !.flagged = FALSE])>>)
  /\ UNCHANGED <<book, pending, today>>

\* WORK_LOGS: all rows or none.
CreateMany(rows) ==
  /\ \A e \in ToSet(rows) : Acceptable(e, StrictForms, FALSE)
  /\ Insert([i \in DOMAIN rows |-> Prepared(rows[i])])
  /\ UNCHANGED <<book, pending, today>>

\* UPDATE_WORK_LOG: the form replaces the whole entry.
Update(id, e) ==
  /\ Acceptable(e, StrictForms, TRUE)
  /\ Rewrite(id, Prepared([e EXCEPT !.flagged = FALSE]))
  /\ UNCHANGED <<made, book, pending, today>>

Delete(id) ==
  /\ Erase(id)
  /\ UNCHANGED <<made, book, pending, today>>

\* ASSIGN_SECTION: strict whatever the setting; ids that are gone are passed over.
AssignSection(ids, section) ==
  /\ section # Empty /\ Listed(section)
  /\ PutIn(ids, section)
  /\ UNCHANGED <<made, book, pending, today>>

\* preview_work_log_import; for a workbook the rows that wait are those already
\* matched against the sections of now.
Preview(rows, soft, workbook) ==
  /\ workbook => soft
  /\ LET read == IF workbook THEN [i \in DOMAIN rows |-> Migrated(rows[i])] ELSE rows
     IN  pending' = [rows |-> read, soft |-> soft,
                     shown |-> [i \in DOMAIN read |-> Shown(read[i], soft)]]
  /\ UNCHANGED <<logs, made, book, today>>

Forget ==
  /\ pending # NoPreview /\ pending' = NoPreview
  /\ UNCHANGED <<logs, made, book, today>>

\* import_work_logs
Import(rows, soft) ==
  /\ \A e \in ToSet(rows) : Passes(e, soft)
  /\ LET ready == [i \in DOMAIN rows |-> Shown(rows[i], soft)]
     IN  /\ Insert(ready)
         /\ book' = IF soft /\ ~StrictForms THEN Collected(ready) ELSE book

ImportUnseen(rows, soft) == Import(rows, soft) /\ UNCHANGED <<pending, today>>

\* Mutant: the rows that still pass are imported.
ConfirmWhatPasses ==
  /\ pending # NoPreview /\ pending' = NoPreview
  /\ LET left == SelectSeq(pending.rows, LAMBDA e : Passes(e, pending.soft))
     IN  IF left # <<>> THEN Import(left, pending.soft) ELSE UNCHANGED <<logs, made, book>>
  /\ UNCHANGED today

\* confirm_work_log_import: the preview is taken out, its rows are checked again by
\* the dictionary and the day of now, and one refused row refuses them all.
Confirm ==
  /\ pending # NoPreview /\ pending' = NoPreview
  /\ IF \A e \in ToSet(pending.rows) : Passes(e, pending.soft)
     THEN Import(pending.rows, pending.soft)
     ELSE UNCHANGED <<logs, made, book>>
  /\ UNCHANGED today

\* TOGGLE_REFERENCE of a file without the reference tables of version 2
Toggle(name) ==
  /\ name \in DOMAIN book /\ book' = [book EXCEPT ![name] = ~@]
  /\ UNCHANGED <<logs, made, pending, today>>

Midnight ==
  /\ today < EndDay /\ today' = today + 1
  /\ UNCHANGED <<logs, made, book, pending>>

NextJournal ==
  \/ \E e \in Entries : Create(e)
  \/ \E rows \in Sheets : CreateMany(rows)
  \/ \E id \in DOMAIN logs, e \in Entries : Update(id, e)
  \/ \E id \in DOMAIN logs : Delete(id)
  \/ \E ids \in SUBSET (1 .. made) \ {{}}, s \in Sections : AssignSection(ids, s)
  \/ \E rows \in Sheets, soft, workbook \in BOOLEAN : Preview(rows, soft, workbook)
  \/ Forget
  \/ \E rows \in Sheets, soft \in BOOLEAN : ImportUnseen(rows, soft)
  \/ Confirm
  \/ \E n \in Switched : Toggle(n)
  \/ Midnight

JournalSpec == InitJournal /\ [][NextJournal]_journalVars

-----------------------------------------------------------------------------

\* Mutant: the handover of a day is what was entered for that day.
HandoverOfToday(day) == {id \in DOMAIN logs : logs[id].day = day /\ logs[id].status # Done}

\* handover_logs as shift_report_xlsx asks for it: with the backlog of the days
\* before. What has status Done is on the other sheet, of its own day.
Handover(day) == {id \in DOMAIN logs : logs[id].day <= day /\ logs[id].status # Done}

\* An entry that is handed over today is handed over tomorrow as well, until a
\* person deletes it or changes its day, its status or its steps; and an entry
\* that waits for its review waits until it is written anew, deleted, or gets a
\* section of the dictionary. Files that are imported and midnight do neither. And
\* a PNR is done, whichever way it came, exactly when no step of it is left for the
\* handover text to name.
NothingSlipsAway ==
  [][/\ \A id \in DOMAIN logs :
       /\ id \in Handover(today) =>
            \/ id \in Handover(today)'
            \/ id \notin DOMAIN logs'
            \/ \E e \in Entries : Update(id, e)
       /\ logs[id].flagged =>
            \/ id \notin DOMAIN logs'
            \/ logs'[id].flagged
            \/ \E e \in Entries : Update(id, e)
            \/ logs'[id].section \in ActiveNames
     /\ \A id \in DOMAIN logs' : logs'[id].source = Pnr =>
          (logs'[id].status = Done <=> Remaining(logs'[id]) = {})]_journalVars

\* A preview that showed no refused row is written as it was shown, all of it, or
\* not at all, whatever happened to the dictionary in between; only rows without
\* a date take the day on which they are confirmed instead of the day shown.
ImportedAsShown ==
  [][Confirm /\ (\A r \in ToSet(pending.shown) : "refused" \notin DOMAIN r) =>
       \/ logs' = logs
       \/ logs' = Written([i \in DOMAIN pending.shown |->
                     IF pending.rows[i].day # NoDate THEN pending.shown[i]
                     ELSE [pending.shown[i] EXCEPT !.day = today]])]_journalVars
=============================================================================
