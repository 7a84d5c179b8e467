----------------------------- MODULE FullMigration -----------------------------
(***************************************************************************)
(* The offline build of the full historical warehouse: every row of the    *)
(* receipt sheet and of the issue sheet is classified by what its S/N cell *)
(* proves, and ends as a card, as history of a card, as deferred evidence  *)
(* or in quarantine. One transaction writes the whole book.                *)
(*                                                                         *)
(*   book        the two sheets, rows in their order                       *)
(*   at          building, committed, valid or refused                     *)
(*   cards       identities with the receipt each owns, by id              *)
(*   issues      issues with the one allocation each has, by id            *)
(*   ledger      the reconciliation entry of every row                     *)
(*   relations   which card was installed in which                         *)
(*   tally       rows per sheet and final status, counted on the way       *)
(*   marker      the totals written just before the commit                 *)
(*                                                                         *)
(* Equal rows of a sheet are rows with the same S/N and the same           *)
(* raw_payload. Audit events, warnings and evidence tables are left out.   *)
(***************************************************************************)
EXTENDS Integers, Sequences, FiniteSetsExt, SequencesExt

CONSTANTS
  Books,       \* the books that may be built: [RECEIPT, ISSUE] -> rows
  Texts,       \* contents of text cells
  Tokens,      \* raw tokens of numeric cells
  Match,       \* the match key of a text, Blank when nothing is left of it
  Form,        \* of a token: "integer", "exponent" or "broken"
  Digits,      \* the digits of a token that is not broken
  Zeroed,      \* texts and digits that begin with a zero
  Fields,      \* attributes that two rows of one S/N may disagree about
  TestSerials, \* S/N of the production file, which must not come back
  Blank, None

ASSUME CellsAreRead ==
  /\ DOMAIN Match = Texts /\ DOMAIN Digits = Tokens
  /\ Form \in [Tokens -> {"integer", "exponent", "broken"}]

Sheets == {"RECEIPT", "ISSUE"}
Statuses == {"IMPORTED", "NUMERIC_PROVISIONAL_IMPORTED", "LINKED_TO_EXISTING_IDENTITY",
  "EXACT_DUPLICATE", "CONFLICT_HISTORY_ONLY", "QUANTITY_DEFERRED", "QUARANTINED",
  "SOURCE_CORRUPTED_REJECTED", "OPENING_STATE_CREATED", "NUMERIC_PROVISIONAL_LINKED",
  "UNRESOLVED_ISSUE"}

\* Totals of a build, and rows of each sheet by final status.
Tallies == [Sheets -> [Statuses -> Nat]]
Totals == [cards : Nat, issues : Nat, tally : Tallies, openings : Nat, quarantine : Nat]

\* Lists of rows; a date is a day or 0; nothing is neither an id nor totals.
ASSUME BooksAreSheets ==
  /\ None \notin Nat /\ None \notin Totals
  /\ \A b \in Books :
       /\ b["RECEIPT"] \in Seq(Range(b["RECEIPT"])) /\ b["ISSUE"] \in Seq(Range(b["ISSUE"]))
       /\ \A r \in DOMAIN b["RECEIPT"] : b["RECEIPT"][r].date \in Nat

VARIABLES book, at, cards, issues, ledger, relations, tally, marker
tables == <<cards, issues, ledger, relations, tally, marker>>
fullVars == <<book, at, tables>>

Rows(sheet) == DOMAIN book[sheet]
Unread == [status |-> "UNREAD", card |-> None, issue |-> None, quarantined |-> FALSE]
Entry(status, card, issue) ==
  [status |-> status, card |-> card, issue |-> issue, quarantined |-> FALSE]
Isolated(status) == [Entry(status, None, None) EXCEPT !.quarantined = TRUE]

EmptyTables ==
  /\ cards = <<>> /\ issues = <<>> /\ relations = {} /\ marker = None
  /\ ledger = [s \in Sheets |-> [r \in Rows(s) |-> Unread]]
  /\ tally = [s \in Sheets |-> [c \in Statuses |-> 0]]

InitFull == book \in Books /\ at = "building" /\ EmptyTables

-----------------------------------------------------------------------------
(* What a cell proves. *)

\* _preserve_text: a text stays as it is, unless nothing of it can be matched.
OfText(text) == IF Match[text] = Blank THEN "EMPTY" ELSE "TEXT_EXACT"

\* _preserve_numeric: digits are never guessed, a format of zeros is a proposal.
OfNumber(token, zeros) ==
  CASE Form[token] = "broken" -> "SOURCE_CORRUPTED"
    [] Form[token] = "integer" /\ zeros -> "NUMERIC_FORMAT_RECOVERED"
    [] OTHER -> "NUMERIC_FORMAT_UNPROVEN"

\* preserve_serial_cell
Preservation(cell) ==
  CASE cell.type = "formula" -> "FORMULA_UNSAFE"
    [] cell.type = "text" -> OfText(cell.value)
    [] cell.type = "number" -> OfNumber(cell.value, cell.zeros)
    [] cell.type = "empty" -> "EMPTY"
    [] OTHER -> "UNSUPPORTED_CELL_TYPE"

Keyed == {"TEXT_EXACT", "NUMERIC_FORMAT_UNPROVEN"}

\* _identity_key and _target_key: exact texts meet by match key, numbers by token only.
KeyOf(cell) ==
  CASE Preservation(cell) = "TEXT_EXACT" -> <<"TEXT_EXACT", Match[cell.value]>>
    [] Preservation(cell) = "NUMERIC_FORMAT_UNPROVEN" ->
         <<"NUMERIC_FORMAT_UNPROVEN", cell.value>>
    [] OTHER -> Blank

\* display_serial_value of a keyed cell
Shown(cell) ==
  IF Preservation(cell) = "TEXT_EXACT" THEN cell.value ELSE Digits[cell.value]

Provisional(cell) == Preservation(cell) = "NUMERIC_FORMAT_UNPROVEN"

\* _quantity: exactly one; an issue without a quantity is one unit.
OneUnit(sheet, row) == row.quantity = "1" \/ (sheet = "ISSUE" /\ row.quantity = "")

\* The rows that stand for one piece of equipment.
Serialized(sheet, row) ==
  Preservation(row.cell) \in Keyed /\ ~row.bulk /\ OneUnit(sheet, row)

\* What becomes of the other rows of a sheet.
Deferral(sheet, row) ==
  IF Preservation(row.cell) = "SOURCE_CORRUPTED"
  THEN Isolated(IF sheet = "RECEIPT" THEN "SOURCE_CORRUPTED_REJECTED" ELSE "QUARANTINED")
  ELSE IF Preservation(row.cell) \in Keyed \cup {"EMPTY"} THEN Entry("QUANTITY_DEFERRED", None, None)
  ELSE IF sheet = "RECEIPT" THEN Isolated("QUARANTINED") ELSE Entry("UNRESOLVED_ISSUE", None, None)

-----------------------------------------------------------------------------
(* The receipt rows of one identity. *)

Group(key) ==
  {r \in Rows("RECEIPT") :
     LET row == book["RECEIPT"][r] IN Serialized("RECEIPT", row) /\ KeyOf(row.cell) = key}

\* Mutant: the last row of the sheet, whatever its date.
LastRow(group) == CHOOSE r \in group : \A s \in group : s <= r

\* _current_identity_row: the latest proven date, then the last row. Date 0 is none.
CurrentRow(group) ==
  LET date(r) == book["RECEIPT"][r].date
  IN  CHOOSE r \in group : \A s \in group :
        date(s) < date(r) \/ (date(s) = date(r) /\ s <= r)

\* _identity_conflicts: attributes nobody left blank, and spellings of the S/N.
Disagree(group) ==
  LET row(r) == book["RECEIPT"][r]
  IN  \/ \E f \in Fields : Cardinality({row(r).attrs[f] : r \in group} \ {Blank}) > 1
      \/ Cardinality({row(r).cell.value : r \in group}) > 1

Receipted(cell) == IF Provisional(cell) THEN "NUMERIC_PROVISIONAL_IMPORTED" ELSE "IMPORTED"

\* The final status of a row of a group.
GroupStatus(r, group) ==
  LET row == book["RECEIPT"][r]
      current == book["RECEIPT"][CurrentRow(group)]
      differs == row.attrs # current.attrs \/ row.cell.value # current.cell.value
  IN  CASE r = CurrentRow(group) -> Receipted(row.cell)
        [] r # CurrentRow(group) /\ row = current -> "EXACT_DUPLICATE"
        [] row # current /\ Disagree(group) /\ differs -> "CONFLICT_HISTORY_ONLY"
        [] OTHER -> "LINKED_TO_EXISTING_IDENTITY"

-----------------------------------------------------------------------------
(* The build. *)

Counted(sheet, entries) ==
  [tally EXCEPT ![sheet] =
     [c \in Statuses |-> @[c] + Cardinality({e \in DOMAIN entries : entries[e].status = c})]]

\* Writes the entries of some rows of a sheet: a function from rows to entries.
Written(sheet, entries) ==
  /\ ledger' = [ledger EXCEPT ![sheet] =
                  [r \in Rows(sheet) |-> IF r \in DOMAIN entries THEN entries[r] ELSE @[r]]]
  /\ tally' = Counted(sheet, entries)

ToRead(sheet) == {r \in Rows(sheet) : ledger[sheet][r].status = "UNREAD"}
ToGroup == {r \in ToRead("RECEIPT") : Serialized("RECEIPT", book["RECEIPT"][r])}

\* The stock receipt of an identity, and the identity itself.
Receipt(cell, opening) == [serial |-> Shown(cell), opening |-> opening]
BuiltCard(key, receipt, current, rows) ==
  [key |-> key, receipt |-> receipt, current |-> current, rows |-> rows]

\* The issue of a row, with the allocation of one unit to the card's receipt.
Issue(card, row) == [card |-> card, row |-> row]

\* Mutant: cards opened for an issue are not remembered.
KnownFromReceipts(key) == \E c \in DOMAIN cards : cards[c].key = key /\ ~cards[c].receipt.opening

Known(key) == \E c \in DOMAIN cards : cards[c].key = key
CardOf(key) == CHOOSE c \in DOMAIN cards : cards[c].key = key

\* One group of receipt rows, the one that begins first: a receipt and its identity.
ImportGroup(r) ==
  /\ at = "building" /\ r \in ToGroup /\ r = Min(ToGroup)
  /\ LET group == Group(KeyOf(book["RECEIPT"][r].cell))
         current == CurrentRow(group)
     IN  /\ cards' = Append(cards, BuiltCard(KeyOf(book["RECEIPT"][r].cell),
                       Receipt(book["RECEIPT"][current].cell, FALSE), current, Cardinality(group)))
         /\ Written("RECEIPT",
              [g \in group |-> Entry(GroupStatus(g, group), Len(cards) + 1, None)])
  /\ UNCHANGED <<book, at, issues, relations, marker>>

\* A receipt row that is no single piece of equipment, after all the groups.
DeferReceipt(r) ==
  /\ at = "building" /\ ToGroup = {} /\ r \in ToRead("RECEIPT") /\ r = Min(ToRead("RECEIPT"))
  /\ Written("RECEIPT", [x \in {r} |-> Deferral("RECEIPT", book["RECEIPT"][r])])
  /\ UNCHANGED <<book, at, cards, issues, relations, marker>>

NextIssue(r) ==
  /\ at = "building" /\ ToRead("RECEIPT") = {}
  /\ r \in ToRead("ISSUE") /\ r = Min(ToRead("ISSUE"))

DeferIssue(r) ==
  /\ NextIssue(r) /\ ~Serialized("ISSUE", book["ISSUE"][r])
  /\ Written("ISSUE", [x \in {r} |-> Deferral("ISSUE", book["ISSUE"][r])])
  /\ UNCHANGED <<book, at, cards, issues, relations, marker>>

\* consumed_identities
Consumed(c) == \E i \in DOMAIN issues : issues[i].card = c

\* issue_signatures
Seen(c, row) == \E r \in Rows("ISSUE") : ledger["ISSUE"][r].card = c /\ book["ISSUE"][r] = row

\* A second issue of a card is kept as history and issues nothing.
RepeatIssue(r) ==
  /\ NextIssue(r)
  /\ LET row == book["ISSUE"][r]
         key == KeyOf(row.cell)
         c == CardOf(key)
     IN  /\ Serialized("ISSUE", row) /\ Known(key) /\ Consumed(c)
         /\ Written("ISSUE", [x \in {r} |->
              Entry(IF Seen(c, row) THEN "EXACT_DUPLICATE" ELSE "CONFLICT_HISTORY_ONLY", c, None)])
  /\ UNCHANGED <<book, at, cards, issues, relations, marker>>

\* potential_keys: issue rows with the key, those that are deferred included.
PotentialRows(key) == Cardinality({r \in Rows("ISSUE") : KeyOf(book["ISSUE"][r].cell) = key})

\* The first issue of a card. A card without a receipt row is opened for it; the
\* target is looked up among the cards there are by now.
ImportIssue(r) ==
  /\ NextIssue(r)
  /\ LET row == book["ISSUE"][r]
         key == KeyOf(row.cell)
         opening == ~Known(key)
         c == IF opening THEN Len(cards) + 1 ELSE CardOf(key)
         target == KeyOf(row.target)
         status == CASE Provisional(row.cell) -> "NUMERIC_PROVISIONAL_LINKED"
                     [] ~Provisional(row.cell) /\ opening -> "OPENING_STATE_CREATED"
                     [] OTHER -> "IMPORTED"
     IN  /\ Serialized("ISSUE", row) /\ (opening \/ ~Consumed(c))
         /\ cards' = IF opening
                     THEN Append(cards, BuiltCard(key, Receipt(row.cell, TRUE), r, PotentialRows(key)))
                     ELSE cards
         /\ issues' = Append(issues, Issue(c, r))
         /\ Written("ISSUE", [x \in {r} |-> Entry(status, c, Len(issues) + 1)])
         /\ relations' =
              IF row.target.type = "empty" THEN relations
              ELSE relations \cup
                {[row |-> r, card |-> c,
                  target |-> IF \E t \in DOMAIN cards' : cards'[t].key = target
                             THEN CHOOSE t \in DOMAIN cards' : cards'[t].key = target
                             ELSE None]}
  /\ UNCHANGED <<book, at, marker>>

-----------------------------------------------------------------------------
(* The end of the transaction and the validation of the file. *)

AllRead == at = "building" /\ ToRead("RECEIPT") = {} /\ ToRead("ISSUE") = {}

\* A S/N of the production file is the shown or the preserved S/N of a card.
CellOf(c) ==
  IF cards[c].receipt.opening THEN book["ISSUE"][cards[c].current].cell
                      ELSE book["RECEIPT"][cards[c].current].cell
Leaked == \E c \in DOMAIN cards : {cards[c].receipt.serial, CellOf(c).value} \cap TestSerials # {}

Entries == UNION {[sheet : {s}, row : Rows(s)] : s \in Sheets}
EntryAt(e) == ledger[e.sheet][e.row]
RowAt(e) == book[e.sheet][e.row]
LinkedTo(c) == {e \in Entries : EntryAt(e).card = c}

\* The identities count their rows again, the marker takes the totals.
Commit ==
  /\ AllRead /\ ~Leaked /\ at' = "committed"
  /\ cards' = [c \in DOMAIN cards |->
                [cards[c] EXCEPT !.rows = IF LinkedTo(c) = {} THEN @ ELSE Cardinality(LinkedTo(c))]]
  /\ marker' = [cards |-> Len(cards), issues |-> Len(issues), tally |-> tally,
                openings |-> Cardinality({c \in DOMAIN cards : cards[c].receipt.opening}),
                quarantine |-> Cardinality({e \in Entries : EntryAt(e).quarantined})]
  /\ UNCHANGED <<book, issues, ledger, relations, tally>>

\* The transaction is rolled back, nothing of the book is left in the file.
Refuse ==
  /\ AllRead /\ Leaked /\ at' = "refused" /\ UNCHANGED book
  /\ cards' = <<>> /\ issues' = <<>> /\ relations' = {} /\ marker' = None
  /\ ledger' = [s \in Sheets |-> [r \in Rows(s) |-> Unread]]
  /\ tally' = [s \in Sheets |-> [c \in Statuses |-> 0]]

\* The probe after the commit: the first exact S/N with a leading zero is found once.
Leading == {c \in DOMAIN cards : cards[c].key[1] = "TEXT_EXACT" /\ cards[c].receipt.serial \in Zeroed}
Probe ==
  /\ Leading # {}
  /\ \A c \in DOMAIN cards : cards[c].receipt.serial = cards[Min(Leading)].receipt.serial => c = Min(Leading)

\* validate_full_database
CountsMatch ==
  /\ \A s \in Sheets, c \in Statuses :
       marker.tally[s][c] = Cardinality({r \in Rows(s) : ledger[s][r].status = c})
  /\ marker.cards = Len(cards) /\ marker.issues = Len(issues)
DamageIsolated ==
  \A e \in Entries :
    /\ Preservation(RowAt(e).cell) = "SOURCE_CORRUPTED" => EntryAt(e).card = None
    /\ EntryAt(e).quarantined => EntryAt(e).card = None /\ EntryAt(e).issue = None
NumbersApart ==
  \A e \in Entries :
    EntryAt(e).card # None /\ Provisional(RowAt(e).cell) =>
      cards[EntryAt(e).card].key[1] = "NUMERIC_FORMAT_UNPROVEN"
NoNegativeBalance ==
  \A c \in DOMAIN cards : Cardinality({i \in DOMAIN issues : issues[i].card = c}) <= 1
Provenance ==
  \A i \in DOMAIN issues : \E r \in Rows("ISSUE") : ledger["ISSUE"][r].issue = i
Validated == CountsMatch /\ DamageIsolated /\ NumbersApart /\ NoNegativeBalance /\ Provenance

Check ==
  /\ at = "committed"
  /\ at' = IF Probe /\ Validated THEN "valid" ELSE "refused"
  /\ UNCHANGED <<book, tables>>

NextFull ==
  \/ \E r \in Rows("RECEIPT") : ImportGroup(r) \/ DeferReceipt(r)
  \/ \E r \in Rows("ISSUE") : DeferIssue(r) \/ RepeatIssue(r) \/ ImportIssue(r)
  \/ Commit \/ Refuse \/ Check


-----------------------------------------------------------------------------
(* Properties. *)

Built == at \in {"committed", "valid"}
Stand(e) == Serialized(e.sheet, RowAt(e))

\* A committed build passes the validation that follows it: the classification never
\* produces what validate_full_database refuses, whatever the order of the rows.
BuiltPassesValidation == at = "committed" => Validated

\* The cards of a finished build are the keys that some row for one unit carries, one
\* card each, and a card is issued when some issue row carries its key: what there is
\* and what is left in stock does not depend on the order of the sheets
\* (_process_receipts, _process_issues).
CardsAreTheKeys ==
  Built =>
    /\ \A c, d \in DOMAIN cards : cards[c].key = cards[d].key => c = d
    /\ {cards[c].key : c \in DOMAIN cards} = {KeyOf(RowAt(e).cell) : e \in {x \in Entries : Stand(x)}}
    /\ {cards[issues[i].card].key : i \in DOMAIN issues} =
         {KeyOf(RowAt(e).cell) : e \in {x \in Entries : Stand(x) /\ x.sheet = "ISSUE"}}

\* Every row is told apart by what it says, in any order of the rows. A card with receipt
\* rows shows the one with the latest proven date, and one without a date only when none
\* has one. A row that is dropped as a duplicate has an equal row of the same card that is
\* not. A row that is only linked contradicts neither the card's S/N nor an attribute that
\* both name: a contradiction is recorded (_current_identity_row, _process_receipts).
RowsTellTheTruth ==
  /\ \A c \in DOMAIN cards : ~cards[c].receipt.opening =>
       LET of == {r \in Rows("RECEIPT") : ledger["RECEIPT"][r].card = c}
       IN  /\ {r \in of : ledger["RECEIPT"][r].status \in
                           {"IMPORTED", "NUMERIC_PROVISIONAL_IMPORTED"}} = {cards[c].current}
           /\ \A r \in of : book["RECEIPT"][r].date <= book["RECEIPT"][cards[c].current].date
  /\ \A e \in Entries : EntryAt(e).status = "EXACT_DUPLICATE" =>
       \E o \in Entries :
         /\ o.sheet = e.sheet /\ RowAt(o) = RowAt(e) /\ EntryAt(o).card = EntryAt(e).card
         /\ EntryAt(o).status # "EXACT_DUPLICATE"
  /\ \A r \in Rows("RECEIPT") :
       ledger["RECEIPT"][r].status = "LINKED_TO_EXISTING_IDENTITY" =>
         LET row == book["RECEIPT"][r]
             card == book["RECEIPT"][cards[ledger["RECEIPT"][r].card].current]
         IN  /\ row.cell.value = card.cell.value
             /\ \A f \in Fields :
                  Blank \in {row.attrs[f], card.attrs[f]} \/ row.attrs[f] = card.attrs[f]
=============================================================================
