------------------------- MODULE MCWarehouseLedger -------------------------
(* Small instances of WarehouseLedger for TLC. *)
EXTENDS LedgerViews

CONSTANTS s1, s2, s3, i1, cat6, shelfA, shelfB, eq1

MCItems == {cat6}

Position(serial, kind, date) ==
  [serial |-> serial, kind |-> kind, date |-> date, inventory |-> NoInventory,
   item |-> NoItem, place |-> NoPlace, quantity |-> 1, legacy |-> NoLegacy]

Lot(place, quantity, date) ==
  [serial |-> NoSerial, kind |-> "cable", date |-> date, inventory |-> NoInventory,
   item |-> cat6, place |-> place, quantity |-> quantity, legacy |-> NoLegacy]

Row(serial, target, task) ==
  [serial |-> serial, item |-> NoItem, place |-> NoPlace, quantity |-> 1,
   target |-> target, task |-> task]

LotRow(place, quantity) ==
  [serial |-> NoSerial, item |-> cat6, place |-> place, quantity |-> quantity,
   target |-> NoSerial, task |-> FALSE]

\* A component by mistake, and a piece of equipment that is a cable.
CardEdits ==
  {[kind |-> "component", item |-> NoItem, place |-> NoPlace],
   [kind |-> "cable", item |-> cat6, place |-> shelfA]}

NoLegacyNumbers == [e \in LegacyIds |-> NoInventory]

-----------------------------------------------------------------------------
(* A fresh database: equipment and components come and go one by one. *)

EmptyTables == {<<>>}

FreshArrivals ==
  {Position(s1, "equipment", 1), Position(s2, "component", 1),
   [Position(s2, "equipment", 2) EXCEPT !.inventory = i1]}

FreshRows ==
  {Row(s1, NoSerial, TRUE), Row(s2, s1, TRUE), Row(s2, NoSerial, TRUE),
   Row(s1, s1, TRUE), Row(s1, NoSerial, FALSE)}

-----------------------------------------------------------------------------
(* A promoted database: two historical cards share an S/N, one of them came
   as two pieces with no date; the other fields are open too. *)

PromotedTables ==
  {<<[Position(s1, "equipment", NoDate) EXCEPT !.quantity = 2, !.legacy = eq1],
     Position(s1, "equipment", 1)>>,
   <<Position(s1, "equipment", NoDate), Position(s1, "component", NoDate),
     Position(s2, "equipment", 1)>>}

PromotedArrivals == {Position(s2, "component", 1)}

PromotedRows ==
  {[Row(s1, NoSerial, TRUE) EXCEPT !.quantity = 2], Row(s1, s2, TRUE),
   Row(s2, NoSerial, TRUE)}

-----------------------------------------------------------------------------
(* Cable lots in two places, written off by quantity. The third lot arrives
   late and is the last in the order of write-offs among lots of one date. *)

CableTables == {<<Lot(shelfA, 1, 2), Lot(shelfB, 2, 1)>>}

CableLots == {Lot(NoPlace, 2, 1)}

CableRequests == {LotRow(NoPlace, 3), LotRow(shelfB, 1)}

-----------------------------------------------------------------------------
(* The three databases, with the requests of all of them. *)

SingleTables == EmptyTables \cup PromotedTables \cup CableTables

SingleRequests == FreshRows \cup PromotedRows

-----------------------------------------------------------------------------
(* Files of write-offs: duplicate rows, an unknown S/N, a component before and
   after its target, a cable row, a missing task. *)

FileTables ==
  {<<Position(s1, "equipment", 1), Position(s2, "component", 1)>>,
   <<Position(s1, "equipment", 1), Lot(shelfA, 2, 1)>>}

Files ==
  {<<Row(s2, NoSerial, TRUE)>>,
   <<Row(s1, NoSerial, TRUE), Row(s1, NoSerial, TRUE)>>,
   <<Row(s2, s1, TRUE), Row(s1, NoSerial, TRUE)>>,
   <<Row(s1, NoSerial, TRUE), Row(s3, NoSerial, TRUE)>>,
   <<Row(s3, NoSerial, TRUE), Row(s1, NoSerial, FALSE)>>,
   <<LotRow(NoPlace, 1), Row(s1, NoSerial, TRUE)>>}

\* The second row of the first asks for more than the first one leaves.
CablesInFiles ==
  {<<LotRow(NoPlace, 1), LotRow(shelfA, 2)>>, <<LotRow(NoPlace, 1)>>}

FileArrivals == {Position(s3, "equipment", 2)}

NoRows == {}

-----------------------------------------------------------------------------
(* A behaviour is made of single requests, of the edits and write-offs of      *)
(* cards that are there, or of files between which a card arrives or is        *)
(* corrected.                                                                  *)

VARIABLE part

MCTables == SingleTables \cup FileTables
MCArrivals == FreshArrivals \cup FileArrivals

NewCards == {db'.cards[c] : c \in DOMAIN db'.cards \ DOMAIN db.cards}

MCInit ==
  /\ Init
  /\ \/ part = "single" /\ db.cards \in SingleTables
     \/ part = "edited" /\ db.cards \in PromotedTables \cup FileTables
     \/ part = "files" /\ db.cards \in FileTables

Edited == \E s \in Serials, edit \in Edits : UpdatePositionCard(s, edit)

\* Two S/N are enough, the second shelf is for cable, and one other card is put
\* on a shelf.
Placed == {c \in DOMAIN db'.cards : db'.cards[c].kind # "cable" /\ db'.cards[c].place # NoPlace}

SingleStep ==
  /\ SingleRequest
  /\ ~Edited
  /\ NewCards \subseteq FreshArrivals \cup CableLots
  /\ Cardinality(Placed) <= 1 /\ WithSerial(db', s3) = {}
  /\ \A c \in DOMAIN db'.cards : db'.cards[c].place = shelfB => db'.cards[c].kind = "cable"

Dated == {c \in DOMAIN db'.cards : db'.cards[c].date # db.cards[c].date}

EditStep ==
  /\ SingleRequest
  /\ NewCards = {} /\ Dated = {}
  /\ \A c \in DOMAIN db'.cards : db'.cards[c].place # shelfB

FileStep ==
  \/ SingleRequest /\ ~Edited /\ NewCards \subseteq FileArrivals /\ db'.issues = db.issues
  \/ \E file \in IssueFiles, mode \in BOOLEAN :
       BeginImport(file, mode) \/ BeginConfirm(file, mode)
  \/ \E file \in CableFiles : BeginCables(file)
  \/ RequestStep
  \/ Crash

MCNext ==
  /\ UNCHANGED part
  /\ \/ part = "single" /\ SingleStep
     \/ part = "edited" /\ EditStep
     \/ part = "files" /\ FileStep

MCSpec == MCInit /\ [][MCNext]_<<vars, part>> /\ Fairness
=============================================================================
