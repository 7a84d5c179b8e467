----------------------------- MODULE PilotMigration -----------------------------
(***************************************************************************)
(* The pilot of the migration: a fixed number of receipt rows is chosen    *)
(* from the candidate so that every kind of difficulty is among them, then *)
(* a database with one card per imported identity is built in one          *)
(* transaction and validated against the expected numbers.                 *)
(*                                                                         *)
(*   sheet    receipt rows of the candidate in the order of the workbook,  *)
(*            with the order of their hashes                               *)
(*   step     selecting, then writing, linking, committed, valid;          *)
(*            refused by the selector, or unbuildable                      *)
(*   chosen   the decision about each row that was taken                   *)
(*   target   the card of each linked row                                  *)
(*   stock    cards by id: the row each was written from                   *)
(*   isolated rows in quarantine                                           *)
(*   audits   audit entries per action                                     *)
(*   stamp    the numbers in the marker                                    *)
(*                                                                         *)
(* The numbers of the code, 200 rows and the quotas among them, are the    *)
(* constant Need, so that small sheets meet them.                          *)
(***************************************************************************)
EXTENDS Integers, Sequences, FiniteSetsExt

CONSTANTS
  Sheets200,  \* the sheets a pilot is selected from: [rows, rank]
  Need,       \* how many rows of each kind are taken
  Key,        \* the match key of the S/N of a row
  ZeroFirst,  \* S/N with a leading zero
  Vendors,    \* approved spellings of vendors: spelling -> vendor
  Models,     \* approved models: <<vendor, model>> -> model
  Empty, NoRow

Decisions == {"IMPORT", "QUARANTINE", "MANUAL_REVIEW", "EXACT_DUPLICATE",
  "CONFLICT_HISTORY_ONLY", "QUANTITY_POSITION_DEFERRED", "SOURCE_CORRUPTED_REJECTED"}
LinkedDecisions == {"IMPORT", "EXACT_DUPLICATE", "CONFLICT_HISTORY_ONLY"}

\* The rows of a sheet are numbered, no two have one hash, and an S/N with a match key is
\* not empty; a pilot has an S/N with a leading zero (_load_receipts, _select).
ASSUME SheetsAreRanked ==
  \A s \in Sheets200 :
    /\ Len(s.rows) \in Nat /\ DOMAIN s.rows = 1 .. Len(s.rows)
    /\ s.rank \in [DOMAIN s.rows -> Nat]
    /\ \A r, q \in DOMAIN s.rows : s.rank[r] = s.rank[q] => r = q
    /\ \A r \in DOMAIN s.rows :
         s.rows[r].status = "TEXT_EXACT" /\ s.rows[r].serial = Empty => Key[Empty] = Empty
ASSUME ZeroIsNeeded == Need.zero \in Nat \ {0}
ASSUME NoRowIsNone ==
  /\ NoRow \notin Nat /\ NoRow \notin Decisions \cup {"CONFLICT", "CORRUPTED"}
  /\ NoRow \notin [taken : Nat, cards : Nat, isolated : Nat, counts : [Decisions -> Nat]]

VARIABLES sheet, step, chosen, target, stock, isolated, audits, stamp
pilotVars == <<sheet, step, chosen, target, stock, isolated, audits, stamp>>

Line(r) == sheet.rows[r]
AllRows == DOMAIN sheet.rows

-----------------------------------------------------------------------------
(* What is known of a row. *)

\* parse_excel_receipt_date: a whole day in a date format, or an ISO text.
Proven(cell) ==
  \/ cell.type = "n" /\ cell.dated /\ cell.value \in 1 .. 100000
  \/ cell.type = "s" /\ cell.iso

\* _load_receipts: spellings without an approved alias stay and are reported.
Vendor(row) == IF row.vendor \in DOMAIN Vendors THEN Vendors[row.vendor] ELSE row.vendor
Model(row) ==
  IF <<Vendor(row), row.model>> \in DOMAIN Models THEN Models[<<Vendor(row), row.model>>] ELSE row.model
Named(row) ==
  \/ row.kind = "equipment" /\ Empty \notin {Vendor(row), Model(row)}
  \/ row.kind = "component" /\ Vendor(row) # Empty /\ (Model(row) # Empty \/ row.part # Empty)
Resolved(row) ==
  /\ row.vendor \in DOMAIN Vendors /\ <<Vendor(row), row.model>> \in DOMAIN Models
  /\ row.supplied /\ Named(row)

\* Rows that may be taken for a piece of equipment, and for a card.
MatchOf(row) == IF row.status = "TEXT_EXACT" THEN Key[row.serial] ELSE Empty
SafeText(row) == MatchOf(row) # Empty /\ ~row.notSerial /\ ~row.manual
Eligible(row) == SafeText(row) /\ row.units = 1 /\ Resolved(row) /\ Proven(row.date)

GroupOf(r) == {s \in AllRows : MatchOf(Line(s)) = MatchOf(Line(r))}
Groups == {GroupOf(r) : r \in {s \in AllRows : MatchOf(Line(s)) # Empty}}
Several == {g \in Groups : Cardinality(g) > 1}
Variants(g, value(_)) == {value(Line(r)) : r \in g} \ {Empty}

\* _has_identity_conflict and the shelves of _conflict_types
Contradictory(g) ==
  \/ Cardinality(Variants(g, Vendor)) > 1
  \/ Cardinality(Variants(g, Model)) > 1
  \/ Cardinality(Variants(g, LAMBDA row : row.item)) > 1
ManyShelves(g) == Cardinality(Variants(g, LAMBDA row : row.shelf)) > 1

\* What the workbook says of a row; a review of the S/N is not part of it.
Columns == {"serial", "status", "manual", "units", "kind", "vendor", "model", "supplied",
  "part", "item", "shelf", "warned", "date"}
Payload(r) == [f \in Columns |-> Line(r)[f]]
AllAlike(g) == Cardinality({Payload(r) : r \in g}) = 1

ConflictGroups == {g \in Several : Contradictory(g) /\ Eligible(Line(Min(g)))}
ExactGroups == {g \in Several : AllAlike(g) /\ \E r \in g : Eligible(Line(r))}
HistoryGroups ==
  {g \in Several : ~Contradictory(g) /\ ~AllAlike(g) /\ \E r \in g : Eligible(Line(r))}

\* _ranked and _group_rank: the order of the hashes.
Rank(r) == sheet.rank[r]
First(S, n) == {r \in S : Cardinality({s \in S : Rank(s) < Rank(r)}) < n}
GroupRank(g) == Min({Rank(r) : r \in g})
FirstGroups(G, n) == {g \in G : Cardinality({h \in G : GroupRank(h) < GroupRank(g)}) < n}

\* Mutant: rows of groups stand alone too.
Matched == {r \in AllRows : MatchOf(Line(r)) # Empty}
Singles == {r \in AllRows : MatchOf(Line(r)) # Empty /\ Cardinality(GroupOf(r)) = 1}
UniqueEligible == {r \in Singles : Eligible(Line(r))}
Ordinary(r) == r \in UniqueEligible /\ ~Line(r).warned /\ Line(r).kind # Empty

-----------------------------------------------------------------------------
(* The selection: _select *)

Taken == {r \in AllRows : chosen[r] # NoRow}
Imports == {r \in AllRows : chosen[r] = "IMPORT"}

InitPilot ==
  /\ sheet \in Sheets200
  /\ step = "groups" /\ chosen = [r \in AllRows |-> NoRow]
  /\ target = [r \in AllRows |-> NoRow] /\ stock = <<>> /\ isolated = {}
  /\ audits = [a \in Decisions \cup {"LINKED"} |-> 0] /\ stamp = NoRow

Now(at, next) == step = at /\ step' = next
Untouched == UNCHANGED <<sheet, target, stock, isolated, audits, stamp>>

\* Adds decisions; a row that has another one ends the selection.
Take(at, next, decided) ==
  /\ Now(at, next) /\ Untouched
  /\ \A r \in DOMAIN decided : chosen[r] \in {NoRow, decided[r]}
  /\ chosen' = [r \in AllRows |-> IF r \in DOMAIN decided THEN decided[r] ELSE chosen[r]]
Clash(at, decided) ==
  /\ Now(at, "refused") /\ UNCHANGED chosen /\ Untouched
  /\ \E r \in DOMAIN decided : chosen[r] \notin {NoRow, decided[r]}
Adding(at, next, decided) == Take(at, next, decided) \/ Clash(at, decided)
Lacking(at, lacks) == Now(at, "refused") /\ lacks /\ UNCHANGED chosen /\ Untouched

TooFewGroups ==
  \/ Cardinality(ConflictGroups) < Need.conflict
  \/ Cardinality(ExactGroups) < Need.exact \/ Cardinality(HistoryGroups) < Need.history

Damaged == {r \in AllRows : Line(r).status = "SOURCE_CORRUPTED"}
Numeric == First({r \in AllRows : Line(r).status = "NUMERIC_FORMAT_UNPROVEN"}, Need.numeric)
Positions == First({r \in AllRows : Line(r).notSerial}, Need.quantity)

\* Rows that never become cards: damaged, numeric, and positions counted by quantity.
TakeDamaged ==
  LET lacks == \/ TooFewGroups \/ Cardinality(Damaged) # Need.damaged
               \/ Cardinality(Numeric) # Need.numeric \/ Cardinality(Positions) # Need.quantity
      decided == [r \in Damaged \cup Numeric \cup Positions |->
                    CASE r \in Positions -> "QUANTITY_POSITION_DEFERRED"
                      [] r \in Damaged \ Positions -> "SOURCE_CORRUPTED_REJECTED"
                      [] OTHER -> "QUARANTINE"]
  IN  \/ Lacking("groups", lacks \/ Positions \cap (Damaged \cup Numeric) # {})
      \/ /\ step = "groups" /\ ~lacks /\ Positions \cap (Damaged \cup Numeric) = {}
         /\ Adding("groups", "conflicts", decided)

\* One group for each special difficulty, then the first of the others.
Special(G, with(_)) == FirstGroups({g \in G : with(g)}, 1)
R220(g) == Model(Line(Min(g))) = "r220" /\ \E r \in g : Vendor(Line(r)) = "yadro"
Xfusion(g) == \E r \in g : Vendor(Line(r)) = "xfusion"
Specials ==
  Special(ConflictGroups, R220) \cup Special(ConflictGroups, ManyShelves)
    \cup Special(ConflictGroups, Xfusion)
ChosenConflicts ==
  Specials \cup FirstGroups(ConflictGroups \ Specials, Need.conflict - Cardinality(Specials))
Second(g) == Min(g \ {Min(g)})

TakeConflicts ==
  LET lacks == {} \in {Special(ConflictGroups, R220), Special(ConflictGroups, ManyShelves),
                        Special(ConflictGroups, Xfusion)}
      first == {Min(g) : g \in ChosenConflicts}
      second == {Second(g) : g \in ChosenConflicts}
  IN  \/ Lacking("conflicts", lacks)
      \/ /\ step = "conflicts" /\ ~lacks
         /\ Adding("conflicts", "exact",
              [r \in first \cup second |-> IF r \in first THEN "IMPORT" ELSE "CONFLICT_HISTORY_ONLY"])

\* The first row that may become a card, and the first other row of the group.
Primary(g) == Min({r \in g : Eligible(Line(r))})
Another(g) == Min(g \ {Primary(g)})
Pairs(G, decision) ==
  [r \in {Primary(g) : g \in G} \cup {Another(g) : g \in G} |->
     IF r \in {Primary(g) : g \in G} THEN "IMPORT" ELSE decision]

TakeExact == Adding("exact", "history", Pairs(FirstGroups(ExactGroups, Need.exact), "EXACT_DUPLICATE"))
TakeHistory ==
  Adding("history", "unknown", Pairs(FirstGroups(HistoryGroups, Need.history), "CONFLICT_HISTORY_ONLY"))

\* Rows whose reference values nobody approved.
Unknown ==
  First({r \in Singles : SafeText(Line(r)) /\ (Line(r).kind = Empty \/ ~Resolved(Line(r)))}, Need.manual)
TakeUnknown ==
  \/ Lacking("unknown", Cardinality(Unknown) # Need.manual)
  \/ /\ step = "unknown" /\ Cardinality(Unknown) = Need.manual
     /\ Adding("unknown", "vendors", [r \in Unknown |-> "MANUAL_REVIEW"])

\* Vendors that must be among the rows taken, and the best rows of the first vendors.
OfVendor(S, v) == {r \in S : Vendor(Line(r)) = v}
MissingVendors == {v \in Need.named : OfVendor(Taken, v) = {}}
BestOf(v) == First(OfVendor(UniqueEligible, v), 1)
TakeVendors ==
  LET named == UNION {BestOf(v) : v \in MissingVendors}
      diverse == First(UNION {BestOf(Vendor(Line(r))) : r \in UniqueEligible}, Need.vendors)
      lacks == \E v \in MissingVendors : BestOf(v) = {}
  IN  \/ Lacking("vendors", lacks)
      \/ step = "vendors" /\ ~lacks /\ Adding("vendors", "quota1", [r \in named \cup diverse |-> "IMPORT"])

\* fulfill: imports of a kind until there are enough of it.
OfKind(q, S) ==
  {r \in S : CASE q = "zero" -> Line(r).serial \in ZeroFirst
               [] q = "component" -> Line(r).kind = "component"
               [] q = "shelfless" -> Line(r).shelf = Empty
               [] OTHER -> Ordinary(r)}
Quotas == <<"zero", "component", "shelfless", "ordinary">>
Fulfill(i) ==
  LET at == <<"quota1", "quota2", "quota3", "quota4">>[i]
      next == <<"quota2", "quota3", "quota4", "fill">>[i]
      has == Cardinality({MatchOf(Line(r)) : r \in OfKind(Quotas[i], Imports)})
      more == First(OfKind(Quotas[i], UniqueEligible) \ Imports, Need[Quotas[i]] - has)
      lacks == has + Cardinality(more) < Need[Quotas[i]]
  IN  Lacking(at, lacks) \/ (step = at /\ ~lacks /\ Adding(at, next, [r \in more |-> "IMPORT"]))

Expected ==
  [d \in Decisions |->
     CASE d = "IMPORT" -> Need.imports
       [] d = "QUARANTINE" -> Need.numeric
       [] d = "MANUAL_REVIEW" -> Need.manual
       [] d = "EXACT_DUPLICATE" -> Need.exact
       [] d = "CONFLICT_HISTORY_ONLY" -> Need.conflict + Need.history
       [] d = "QUANTITY_POSITION_DEFERRED" -> Need.quantity
       [] OTHER -> Need.damaged]
SizeOfPilot == FoldSet(LAMBDA d, n : n + Expected[d], 0, Decisions)
Count(d) == Cardinality({r \in AllRows : chosen[r] = d})

\* The rest of the cards, in the order of the hashes.
Fill ==
  Adding("fill", "selected",
         [r \in First(UniqueEligible \ Imports, Need.imports - Cardinality(Imports)) |-> "IMPORT"])

\* The numbers of _select and select_pilot_receipts
Distributed ==
  /\ Cardinality(Taken) = SizeOfPilot /\ \A d \in Decisions : Count(d) = Expected[d]
  /\ \A r \in Imports : Proven(Line(r).date)
Accept ==
  /\ step = "selected" /\ step' = IF Distributed THEN "writing" ELSE "refused"
  /\ UNCHANGED chosen /\ Untouched

-----------------------------------------------------------------------------
(* The database: _create_pilot_file *)

InOrder(S) ==
  [i \in 1 .. Cardinality(S) |->
     CHOOSE r \in S : Cardinality({s \in S : Rank(s) < Rank(r)}) = i - 1]
CardFor(r) == {c \in DOMAIN stock : MatchOf(Line(stock[c])) = MatchOf(Line(r))}
Found(serial) == {c \in DOMAIN stock : Line(stock[c]).serial = serial}

\* What MigrationPilotReceiptWriter and the receipt repository demand of a row.
Writable(r, before) ==
  /\ Line(r).status = "TEXT_EXACT" /\ MatchOf(Line(r)) # Empty /\ Line(r).serial # Empty
  /\ Line(r).units = 1 /\ Named(Line(r)) /\ Proven(Line(r).date)
  /\ \A s \in before : Line(s).serial # Line(r).serial /\ MatchOf(Line(s)) # MatchOf(Line(r))

\* One card for every imported row.
WriteCards ==
  /\ step = "writing"
  /\ IF \A r \in Imports : Writable(r, {s \in Imports : Rank(s) < Rank(r)})
     THEN /\ step' = "linking" /\ stock' = InOrder(Imports)
          /\ audits' = [audits EXCEPT !["IMPORT"] = @ + Len(stock'), !["LINKED"] = @ + Len(stock')]
     ELSE step' = "unbuildable" /\ UNCHANGED <<stock, audits>>
  /\ UNCHANGED <<sheet, chosen, target, isolated, stamp>>

ToLink == {r \in Taken : chosen[r] \in LinkedDecisions}
ToIsolate == Taken \ ToLink
LeadingImport == First({r \in Imports : Line(r).serial \in ZeroFirst}, 1)

\* The linked rows find the card of their identity, the others are isolated; then the
\* probes read the new cards, and the marker takes the numbers.
LinkRows ==
  /\ step = "linking"
  /\ LET probed == LeadingImport # {} /\ \A r \in LeadingImport : Cardinality(Found(Line(r).serial)) = 1
         repeated == ToLink \ Imports
     IN  IF probed /\ \A r \in ToLink : CardFor(r) # {}
         THEN /\ step' = "committed"
              /\ target' = [r \in AllRows |-> IF r \in ToLink THEN Min(CardFor(r)) ELSE NoRow]
              /\ isolated' = ToIsolate
              /\ audits' = [d \in DOMAIN audits |->
                   CASE d = "LINKED" -> audits[d] + Cardinality(repeated)
                     [] d \in LinkedDecisions \ {"IMPORT"} -> audits[d] + Count(d)
                     [] d = "QUARANTINE" -> audits[d] + Cardinality(ToIsolate)
                     [] OTHER -> audits[d]]
              /\ stamp' = [taken |-> Cardinality(Taken), cards |-> Count("IMPORT"),
                           isolated |-> Cardinality(ToIsolate),
                           counts |-> [d \in Decisions |-> Count(d)]]
         ELSE step' = "unbuildable" /\ UNCHANGED <<target, isolated, audits, stamp>>
  /\ UNCHANGED <<sheet, chosen, stock>>

\* validate_pilot_database
CountsAgree ==
  /\ Cardinality(Taken) = SizeOfPilot /\ stamp.counts = Expected
  /\ Len(stock) = Expected["IMPORT"] /\ stamp.cards = Len(stock)
  /\ stamp.taken = Cardinality(Taken) /\ stamp.isolated = Cardinality(isolated)
LinksSafe == \A r \in Taken : (target[r] # NoRow) <=> (chosen[r] \in LinkedDecisions)
MatchesSeparate ==
  \A r \in Taken : chosen[r] \in LinkedDecisions => Line(r).status = "TEXT_EXACT" /\ MatchOf(Line(r)) # Empty
AuditsMatch ==
  /\ audits["IMPORT"] = Expected["IMPORT"]
  /\ audits["LINKED"] =
       Expected["IMPORT"] + Expected["EXACT_DUPLICATE"] + Expected["CONFLICT_HISTORY_ONLY"]
  /\ \A d \in {"EXACT_DUPLICATE", "CONFLICT_HISTORY_ONLY"} : audits[d] = Expected[d]
  /\ audits["QUARANTINE"] = SizeOfPilot - audits["LINKED"]
PilotValid == CountsAgree /\ LinksSafe /\ MatchesSeparate /\ AuditsMatch

\* validate_migration_pilot_database: what the server asks before it shows the pilot.
ReviewStarts ==
  /\ stamp # NoRow /\ stamp.taken = Cardinality(Taken)
  /\ stamp.cards = Len(stock) /\ stamp.isolated = Cardinality(isolated)

Validate ==
  /\ step = "committed"
  /\ step' = IF PilotValid /\ ReviewStarts THEN "valid" ELSE "unbuildable"
  /\ UNCHANGED <<sheet, chosen, target, stock, isolated, audits, stamp>>

NextPilot ==
  \/ TakeDamaged \/ TakeConflicts \/ TakeExact \/ TakeHistory \/ TakeUnknown \/ TakeVendors
  \/ \E i \in 1 .. 4 : Fulfill(i)
  \/ Fill \/ Accept \/ WriteCards \/ LinkRows \/ Validate

-----------------------------------------------------------------------------
(* The read-only review of a pilot: its list and the card of a row. *)

\* _filter_bucket: a position counted by quantity is under no filter.
Buckets == {"IMPORT", "QUARANTINE", "CONFLICT", "CORRUPTED"}
Bucket(r) ==
  CASE chosen[r] = "IMPORT" -> "IMPORT"
    [] chosen[r] \in {"QUARANTINE", "MANUAL_REVIEW"} -> "QUARANTINE"
    [] chosen[r] \in {"CONFLICT_HISTORY_ONLY", "EXACT_DUPLICATE"} -> "CONFLICT"
    [] chosen[r] = "SOURCE_CORRUPTED_REJECTED" -> "CORRUPTED"
    [] OTHER -> IF Line(r).status = "SOURCE_CORRUPTED" THEN "CORRUPTED" ELSE chosen[r]

list_rows(filter) == {r \in Taken : filter = NoRow \/ Bucket(r) = filter}
has_card(r) == target[r] # NoRow

\* get_card: the identity of the row and the card it points at must have the same S/N;
\* the sources are the rows with the match key, linked or not.
CardOpens(r) ==
  /\ chosen[r] \in LinkedDecisions /\ Line(r).serial # Empty /\ has_card(r)
  /\ \E p \in Imports : /\ target[p] = target[r] /\ MatchOf(Line(p)) = MatchOf(Line(r))
                       /\ Line(p).serial = Line(stock[target[r]]).serial
SourceRows(r) == {s \in Taken : MatchOf(Line(s)) = MatchOf(Line(r))}

-----------------------------------------------------------------------------
(* Properties. *)

\* What the review shows of a pilot is all of it: the filters part the rows, but for the
\* positions counted by quantity; the list offers a card exactly for the rows whose card
\* opens; every card is offered; and a card names all rows linked to it, of which one was
\* imported (list_rows, get_card).
PilotIsShown ==
  /\ \A b, c \in Buckets : b # c => list_rows(b) \cap list_rows(c) = {}
  /\ list_rows(NoRow) \ UNION {list_rows(b) : b \in Buckets}
       = {r \in Taken : chosen[r] = "QUANTITY_POSITION_DEFERRED" /\ Line(r).status # "SOURCE_CORRUPTED"}
  /\ \A r \in Taken : has_card(r) <=> CardOpens(r)
  /\ \A c \in DOMAIN stock :
       LET linked == {r \in Taken : target[r] = c}
       IN  /\ Cardinality(linked \cap list_rows("IMPORT")) = 1
           /\ \A r \in linked : linked \subseteq SourceRows(r)

\* Whatever the rows and the order of their hashes, a selection that is accepted can be
\* built and passes both validations: the selector never takes two rows of one identity
\* for cards, nor links a row to an identity that has none (_select, _create_pilot_file,
\* validate_pilot_database); and its review shows what was built.
SelectedIsBuilt == step # "unbuildable" /\ (step = "valid" => PilotIsShown)
=============================================================================
