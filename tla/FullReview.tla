------------------------------- MODULE FullReview -------------------------------
(***************************************************************************)
(* The read-only review of a full historical warehouse: the check at       *)
(* start-up, the list of its source rows with its filters and totals, the  *)
(* card of a row, and the guard of inventory numbers. Each is a query of   *)
(* its own over the tables that FullMigration writes. Totals of the real   *)
(* sheets (EXPECTED_RECEIPT_ROWS, EXPECTED_ISSUE_ROWS) are the lengths of  *)
(* the two sheets; the name, the mode and the journals of the file, the    *)
(* text query, the facets and the pages of the list are left out, and so   *)
(* are conflicts that a row brings from the candidate.                     *)
(***************************************************************************)
EXTENDS FullMigration

\* validate_full_migration_database: a candidate under review holds exactly what its
\* marker says, a promoted base holds at least that (receipts and issues written since).
Opens(candidate, receipts, issued) ==
  /\ marker # None
  /\ Cardinality({e \in Entries : EntryAt(e).status # "UNREAD"}) = Len(book["RECEIPT"]) + Len(book["ISSUE"])
  /\ Len(cards) = marker.cards
  /\ IF candidate THEN receipts = Len(cards) /\ issued = marker.issues
                  ELSE receipts >= Len(cards) /\ issued >= marker.issues

\* conflicts: what the group of a receipt row disagrees about is written to each of its rows.
Flagged(e) ==
  e.sheet = "RECEIPT" /\ Stand(e) /\ Disagree(Group(KeyOf(RowAt(e).cell)))

\* _FILTERS, those over what is kept of a row here
Filtered(filter) ==
  {e \in Entries :
     CASE filter = "TEXT_EXACT" -> Preservation(RowAt(e).cell) = "TEXT_EXACT"
       [] filter = "NUMERIC_PROVISIONAL" -> Provisional(RowAt(e).cell)
       [] filter = "SOURCE_CORRUPTED" -> Preservation(RowAt(e).cell) = "SOURCE_CORRUPTED"
       [] filter = "CONFLICT" -> EntryAt(e).status = "CONFLICT_HISTORY_ONLY" \/ Flagged(e)
       [] filter = "OPENING_STATE" -> EntryAt(e).card # None /\ cards[EntryAt(e).card].receipt.opening
       [] filter = "UNRESOLVED_ISSUE" -> EntryAt(e).status = "UNRESOLVED_ISSUE"
       [] filter = "QUARANTINE" -> EntryAt(e).quarantined}

Opening(c) == cards[c].receipt.opening
IdentityOf(c) == cards[c].key[1]

\* list_rows: the counts beside the list, each a query over one table
Summary ==
  [source_rows |-> Cardinality(Entries),
   imported_cards |-> Len(cards),
   imported_receipts |-> Cardinality({c \in DOMAIN cards : ~Opening(c)}),
   imported_issues |-> Len(issues),
   provisional_numeric |-> Cardinality({c \in DOMAIN cards : IdentityOf(c) = "NUMERIC_FORMAT_UNPROVEN"}),
   quarantine |-> Cardinality({e \in Entries : EntryAt(e).quarantined}),
   exact_duplicates |-> Cardinality({e \in Entries : EntryAt(e).status = "EXACT_DUPLICATE"}),
   conflicts |-> Cardinality(Filtered("CONFLICT")),
   opening_states |-> Cardinality({c \in DOMAIN cards : Opening(c)}),
   unresolved_issues |-> Cardinality({e \in Filtered("UNRESOLVED_ISSUE") : e.sheet = "ISSUE"}),
   deferred_quantity |-> Cardinality({e \in Entries : EntryAt(e).status = "QUANTITY_DEFERRED"})]

HasCard(e) == EntryAt(e).card # None

\* get_card: the identity of the row, its other rows, what it was installed in, and the
\* history of its receipt, named for where it comes from
ReviewCard(e) ==
  LET c == EntryAt(e).card
      spent == {i \in DOMAIN issues : issues[i].card = c}
  IN  [serial |-> cards[c].receipt.serial,
       sources |-> LinkedTo(c),
       relationships |-> {r \in relations : r.card = c},
       history |-> <<IF Opening(c) THEN "opening state" ELSE "historical receipt">>
                     \o [i \in 1 .. Cardinality(spent) |-> "historical issue"],
       balance |-> 1 - Cardinality(spent)]

\* assert_full_inventory_assignment_allowed
NumberAllowed(serial) ==
  ~ \E c \in DOMAIN cards :
      IdentityOf(c) = "NUMERIC_FORMAT_UNPROVEN" /\ serial \in {cards[c].receipt.serial, CellOf(c).value}

-----------------------------------------------------------------------------
(* Properties. *)

\* Every source row is found in the review once: behind a card, in quarantine, among the
\* unresolved issues or with a deferred quantity; and the totals say how many of each.
NothingIsMissing ==
  LET Places(e) == {p \in {"card", "quarantine", "unresolved", "deferred"} :
        CASE p = "card" -> HasCard(e)
          [] p = "quarantine" -> e \in Filtered("QUARANTINE")
          [] p = "unresolved" -> e \in Filtered("UNRESOLVED_ISSUE")
          [] p = "deferred" -> EntryAt(e).status = "QUANTITY_DEFERRED"}
      s == Summary
  IN  /\ \A e \in Entries : Cardinality(Places(e)) = 1
      /\ s.source_rows = Cardinality({e \in Entries : HasCard(e)})
                           + s.quarantine + s.unresolved_issues + s.deferred_quantity
      /\ s.imported_cards = s.imported_receipts + s.opening_states
      /\ s.imported_receipts + s.imported_issues + s.exact_duplicates
           <= Cardinality({e \in Entries : HasCard(e)})
      /\ s.opening_states <= s.imported_issues

\* The card that a row opens is about that row: it lists it, it lists as many rows as the
\* identity counts, its history ends at its balance, an opening state is spent by the issue
\* it was opened for, and a row of the other sheet that was issued finds the issue there.
CardsAreOfTheRow ==
  \A e \in {x \in Entries : HasCard(x)} :
    LET shown == ReviewCard(e)
        c == EntryAt(e).card
    IN  /\ e \in shown.sources /\ Cardinality(shown.sources) = cards[c].rows
        /\ shown.balance \in {0, 1} /\ Len(shown.history) = 2 - shown.balance
        /\ Opening(c) => shown.balance = 0 /\ \A s \in shown.sources : s.sheet = "ISSUE"
        /\ EntryAt(e).issue # None => shown.balance = 0
        /\ shown.relationships # {} => \E s \in shown.sources : EntryAt(s).issue # None

\* A build that its own validation accepts opens in the review and after the promotion;
\* the review shows each of its rows and what became of it; and no card whose S/N is a
\* guess at a number is given an inventory number, while a card with a proven S/N is
\* refused one only when a row gives the same digits as a guess.
ReviewShowsTheBook ==
  at = "valid" =>
    /\ Opens(TRUE, Len(cards), Len(issues)) /\ Opens(FALSE, Len(cards), Len(issues))
    /\ NothingIsMissing /\ CardsAreOfTheRow
    /\ \A c \in DOMAIN cards :
         ~NumberAllowed(cards[c].receipt.serial) <=>
           \E e \in Entries : /\ Stand(e) /\ Provisional(RowAt(e).cell)
                             /\ cards[c].receipt.serial \in {Shown(RowAt(e).cell), RowAt(e).cell.value}

\* What a build leaves is what its sheets say: one card for each key, and each row
\* classified by the rows beside it, whatever their order; the validation of the build has
\* nothing to refuse, and the review of the build shows all of it.
BookIsTheSheets ==
  BuiltPassesValidation /\ CardsAreTheKeys /\ RowsTellTheTruth /\ ReviewShowsTheBook
=============================================================================
