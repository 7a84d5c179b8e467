---------------------------- MODULE StockTables ----------------------------
(***************************************************************************)
(* The warehouse tables of the operational SQLite file as one value (an    *)
(* "image"), and what one repository call does to it.                      *)
(*                                                                         *)
(*   cards    stock_receipts: one row per card, by id                      *)
(*   lastCard the AUTOINCREMENT counter of stock_receipts                  *)
(*   issues   stock_issues in the order of their ids; parts[c] is the      *)
(*            quantity of the stock_issue_allocations row (issue, card c), *)
(*            0 where there is none                                        *)
(*   taken    SUM(a.quantity) GROUP BY receipt_id, the aggregate every     *)
(*            availability query of the code joins in                      *)
(*   legacy   equipment.inventory_number of the cards that came from the   *)
(*            first version of the program                                 *)
(*                                                                         *)
(* An operation is a predicate that says when the call does not raise, and *)
(* an image-valued operator that says what it leaves behind.               *)
(* Quantities are whole numbers (the code keeps REAL values and compares   *)
(* them with a tolerance of 1e-9); identifiers are compared by equality    *)
(* (the code trims them and folds their case).                             *)
(***************************************************************************)
EXTENDS Integers, FiniteSets, Sequences, FiniteSetsExt

CONSTANTS
  Serials, NoSerial,         \* values of serial_number, and the empty text
  Inventories, NoInventory,  \* values of inventory_number, and the empty text
  Items, NoItem,             \* a cable's (item_name, cable_type), and none
  Places, NoPlace,           \* values of shelf (or project), and the empty text
  LegacyIds, NoLegacy,       \* ids of equipment rows, and NULL
  MaxCards,                  \* bound: ids ever given to cards
  MaxIssues,                 \* bound: rows ever written to stock_issues
  MaxQuantity                \* bound: quantity of a card or an issue

ASSUME BoundsAssumption ==
  /\ MaxCards \in Nat
  /\ MaxIssues \in Nat
  /\ MaxQuantity \in Nat \ {0}

ASSUME MarkersAssumption ==
  /\ NoSerial \notin Serials
  /\ NoInventory \notin Inventories
  /\ NoItem \notin Items
  /\ NoPlace \notin Places
  /\ NoLegacy \notin LegacyIds

CardIds == 1..MaxCards
Quantities == 1..MaxQuantity

\* receipt_date: 0 is the empty date of a migrated card, larger is later.
Dates == 0..2
NoDate == 0

Kinds == {"equipment", "component", "cable"}

Card == [serial    : Serials \cup {NoSerial},
         inventory : Inventories \cup {NoInventory},
         kind      : Kinds,
         item      : Items \cup {NoItem},
         place     : Places \cup {NoPlace},
         quantity  : Quantities,
         date      : Dates,
         legacy    : LegacyIds \cup {NoLegacy}]

IssueStatuses == {"matched", "unmatched"}

Issue == [serial   : Serials \cup {NoSerial},
          item     : Items \cup {NoItem},
          target   : Serials \cup {NoSerial},
          quantity : Quantities,
          status   : IssueStatuses,
          parts    : [CardIds -> Nat]]

\* A row of a write-off request after prepare_issue / prepare_cable_issue.
IssueRow == [serial   : Serials \cup {NoSerial},
             item     : Items \cup {NoItem},
             place    : Places \cup {NoPlace},
             target   : Serials \cup {NoSerial},
             task     : BOOLEAN,
             quantity : Quantities]

\* The form of update_position_card: one type, and an item exactly for a cable.
Edit == {e \in [kind : Kinds, item : Items \cup {NoItem}, place : Places \cup {NoPlace}] :
           (e.kind = "cable") = (e.item # NoItem)}

WellFormed(d) ==
  /\ DOMAIN d = {"cards", "lastCard", "issues", "taken", "legacy"}
  /\ d.lastCard \in 0..MaxCards
  /\ DOMAIN d.cards \subseteq 1..d.lastCard
  /\ d.cards \in [DOMAIN d.cards -> Card]
  /\ d.issues \in Seq(Issue)
  /\ d.taken \in [CardIds -> Nat]
  /\ d.legacy \in [LegacyIds -> Inventories \cup {NoInventory}]

-----------------------------------------------------------------------------
(* Queries. *)

\* SUM over the rows that f gives a number for.
Total(f) == MapThenSumSet(LAMBDA x : f[x], DOMAIN f)

WithSerial(d, s) == {c \in DOMAIN d.cards : s # NoSerial /\ d.cards[c].serial = s}

WithInventory(d, i) ==
  {c \in DOMAIN d.cards : i # NoInventory /\ d.cards[c].inventory = i}

Available(d, c) == d.cards[c].quantity - d.taken[c]

\* ORDER BY receipt_date, id: an empty date sorts before every other.
Older(d, c1, c2) ==
  \/ d.cards[c1].date < d.cards[c2].date
  \/ d.cards[c1].date = d.cards[c2].date /\ c1 < c2

AvailableBySerial(d, s) == {c \in WithSerial(d, s) : Available(d, c) > 0}

\* project, datacenter and shelf narrow the lots only when the row gives them.
AvailableCableLots(d, row) ==
  {c \in DOMAIN d.cards : /\ d.cards[c].item = row.item
                          /\ row.place \in {NoPlace, d.cards[c].place}
                          /\ Available(d, c) > 0}

InStock(d, lots) == Total([c \in lots |-> Available(d, c)])

\* The allocation rows the FIFO loop inserts for quantity q: a lot is touched
\* only when every older one is emptied, and the shares add up to q.
FifoShares(d, lots, q) ==
  {f \in [lots -> 0..q] :
     /\ Total(f) = q
     /\ \A c \in lots : f[c] <= Available(d, c)
     /\ \A c1, c2 \in lots :
          Older(d, c1, c2) /\ f[c2] > 0 => f[c1] = Available(d, c1)}

-----------------------------------------------------------------------------
(* Cards in. *)

CanReceive(d, card) ==
  /\ d.lastCard < MaxCards
  /\ WithSerial(d, card.serial) = {}
  /\ WithInventory(d, card.inventory) = {}

AddCard(d, card) ==
  [d EXCEPT !.lastCard = @ + 1,
            !.cards = [c \in DOMAIN d.cards \cup {d.lastCard + 1} |->
                         IF c = d.lastCard + 1 THEN card ELSE d.cards[c]]]

\* validate_unique: against the table and against the rows before it.
CanReceiveAll(d, rows) ==
  /\ d.lastCard + Len(rows) <= MaxCards
  /\ \A i \in 1..Len(rows) :
       /\ WithSerial(d, rows[i].serial) = {}
       /\ WithInventory(d, rows[i].inventory) = {}
       /\ \A j \in 1..(i - 1) :
            /\ rows[i].serial # NoSerial => rows[j].serial # rows[i].serial
            /\ rows[i].inventory # NoInventory => rows[j].inventory # rows[i].inventory

AddCards(d, rows) ==
  [d EXCEPT !.lastCard = @ + Len(rows),
            !.cards = [c \in DOMAIN d.cards \cup (d.lastCard + 1)..(d.lastCard + Len(rows)) |->
                         IF c > d.lastCard THEN rows[c - d.lastCard] ELSE d.cards[c]]]

-----------------------------------------------------------------------------
(* Corrections of a card. *)

SetCard(d, c, card) == [d EXCEPT !.cards = [@ EXCEPT ![c] = card]]

CanFillDate(d, c) == c \in DOMAIN d.cards /\ d.cards[c].date = NoDate
FillDate(d, c, date) == SetCard(d, c, [d.cards[c] EXCEPT !.date = date])

CanFillPlace(d, c) == c \in DOMAIN d.cards /\ d.cards[c].place = NoPlace
FillPlace(d, c, place) == SetCard(d, c, [d.cards[c] EXCEPT !.place = place])

\* Mutant: no look at the other cards.
CanCorrectSerialUnchecked(d, c, s) ==
  /\ c \in DOMAIN d.cards
  /\ s # NoSerial
  /\ s # d.cards[c].serial

CanCorrectSerial(d, c, s) ==
  /\ c \in DOMAIN d.cards
  /\ s # NoSerial
  /\ s # d.cards[c].serial
  /\ WithSerial(d, s) \subseteq {c}
CorrectSerial(d, c, s) == SetCard(d, c, [d.cards[c] EXCEPT !.serial = s])

\* Mutant: the oldest of several cards is taken.
CanUpdateAny(d, s) == WithSerial(d, s) # {}

\* update_position_card refuses an S/N that several cards share.
CanUpdate(d, s) == Cardinality(WithSerial(d, s)) = 1

\* The form sends every field: type, cable item and place are written together.
UpdateCard(d, s, edit) ==
  LET c == CHOOSE x \in WithSerial(d, s) : \A y \in WithSerial(d, s) : x <= y
  IN SetCard(d, c, [d.cards[c] EXCEPT !.kind = edit.kind, !.item = edit.item,
                                      !.place = edit.place])

\* Mutant: write-offs of the card are not looked for.
CanDeleteWithHistory(d, c, linked) ==
  /\ c \in DOMAIN d.cards
  /\ d.cards[c].serial # NoSerial
  /\ WithSerial(d, d.cards[c].serial) \ {c} # {}
  /\ c \notin linked

\* linked: cards named by a delivery line or by a migration provenance row.
CanDeleteDuplicate(d, c, linked) ==
  /\ c \in DOMAIN d.cards
  /\ d.cards[c].serial # NoSerial
  /\ WithSerial(d, d.cards[c].serial) \ {c} # {}
  /\ \A i \in DOMAIN d.issues : d.issues[i].parts[c] = 0
  /\ c \notin linked
DeleteCard(d, c) ==
  [d EXCEPT !.cards = [x \in DOMAIN d.cards \ {c} |-> d.cards[x]]]

-----------------------------------------------------------------------------
(* Write-offs. *)

\* candidates[0]: the oldest card of the S/N that still has stock.
FirstCandidate(d, s) ==
  CHOOSE c \in AvailableBySerial(d, s) :
    \A x \in AvailableBySerial(d, s) \ {c} : Older(d, c, x)

IsTargetEquipment(d, s) == \E c \in WithSerial(d, s) : d.cards[c].kind = "equipment"

\* create_issue returns instead of raising.
CanIssue(d, row) ==
  LET lots == AvailableBySerial(d, row.serial) IN
  /\ row.serial # NoSerial
  /\ row.item = NoItem
  /\ lots # {}
  /\ d.cards[FirstCandidate(d, row.serial)].kind # "cable"
  /\ row.task
  /\ row.target # row.serial
  /\ d.cards[FirstCandidate(d, row.serial)].kind = "component"
       => row.target # NoSerial /\ IsTargetEquipment(d, row.target)
  /\ InStock(d, lots) >= row.quantity

CanIssueCable(d, row) ==
  /\ row.serial = NoSerial
  /\ row.item # NoItem
  /\ InStock(d, AvailableCableLots(d, row)) >= row.quantity

\* is_unmatched_issue for a row create_issue refused: an S/N no card carries,
\* or a cable no card describes.
IsUnmatched(d, row) ==
  \/ /\ row.serial # NoSerial
     /\ row.item = NoItem
     /\ WithSerial(d, row.serial) = {}
  \/ /\ row.serial = NoSerial
     /\ row.item # NoItem
     /\ \A c \in DOMAIN d.cards : d.cards[c].item # row.item

IssueOf(row, status, parts) ==
  [serial |-> row.serial, item |-> row.item, target |-> row.target,
   quantity |-> row.quantity, status |-> status, parts |-> parts]

PartsOf(shares) == [c \in CardIds |-> IF c \in DOMAIN shares THEN shares[c] ELSE 0]

\* Mutant: only the latest write-off is in the aggregate.
AddIssueLatestOnly(d, row, shares) ==
  [d EXCEPT !.issues = Append(@, IssueOf(row, "matched", PartsOf(shares))),
            !.taken = PartsOf(shares)]

\* INSERT INTO stock_issues and one stock_issue_allocations row per share.
AddIssue(d, row, shares) ==
  [d EXCEPT !.issues = Append(@, IssueOf(row, "matched", PartsOf(shares))),
            !.taken = [c \in CardIds |-> @[c] + PartsOf(shares)[c]]]

AddUnmatchedIssue(d, row) ==
  [d EXCEPT !.issues = Append(@, IssueOf(row, "unmatched", [c \in CardIds |-> 0]))]
=============================================================================
