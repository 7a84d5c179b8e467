--------------------------- MODULE LegacyEquipment ---------------------------
(***************************************************************************)
(* The two books of the warehouse and the inventory number, which both     *)
(* carry. The first version of the program counts `equipment` rows; the    *)
(* present one counts cards (stock_receipts) and their allocations. A      *)
(* legacy operation by hand copies its row to a card of its own in the     *)
(* same transaction. The two imports do not: the rows of a file of         *)
(* equipment get their cards when the database is next opened, and a file  *)
(* of receipts or issues leaves a card as it was until the next operation  *)
(* by hand on its row, whatever the card has written off meanwhile.        *)
(*                                                                         *)
(*   equip    equipment rows by id                                         *)
(*   cards    stock_receipts by id; legacy is the row a card mirrors       *)
(*   taken    sum of the allocations of a card                             *)
(*   linked   cards a delivery line refers to                              *)
(*   unique   the unique S/N index exists (not on promoted files)          *)
(*   behind   history: rows with a card that a file of operations changed  *)
(*            and that were not copied to it since                         *)
(*   drained  history: rows with a card that a file of operations ever     *)
(*            took from                                                    *)
(*   plans    previewed files of inventory numbers, in the server's memory *)
(*   batch    the transaction of the confirmed file, while it is open; the *)
(*            others are one step each                                     *)
(*                                                                         *)
(* One request at a time holds the server's lock and has one transaction.  *)
(***************************************************************************)
EXTENDS Integers, FiniteSets, Sequences, Functions, FiniteSetsExt

CONSTANTS
  Serials, NoSerial,    \* values of serial_number, and the empty text
  Numbers, NoNumber,    \* values of inventory_number, and the empty text
  MaxEquipment,         \* bound: equipment rows
  MaxCards,             \* bound: ids ever given to cards
  MaxQuantity,          \* bound: quantity of a row or a card
  MaxRequest,           \* bound: quantity of one request or line of a file
  MaxPlans,             \* bound: previews pending at a time
  StartTables,          \* states of the file when the run starts
  EquipmentFiles,       \* files of equipment rows the import is given
  OperationFiles,       \* files of receipts or of issues the import is given
  NumberFiles           \* files of inventory numbers the import is given

ASSUME RegisterBounds ==
  /\ MaxEquipment \in Nat /\ MaxCards \in Nat /\ MaxPlans \in Nat
  /\ MaxQuantity \in Nat \ {0} /\ MaxRequest \in 1..MaxQuantity
  /\ NoSerial \notin Serials /\ NoNumber \notin Numbers

VARIABLES db, plans, batch
vars == <<db, plans, batch>>

NoBatch == <<>>
Idle == batch = NoBatch

CardIds == 1..MaxCards
Unlinked == 0
Quantities == 1..MaxRequest

EquipmentRow == [serial : Serials, number : Numbers \cup {NoNumber},
                 quantity : 0..MaxQuantity]
CardRow == [serial : Serials \cup {NoSerial}, number : Numbers \cup {NoNumber},
            quantity : 0..MaxQuantity, legacy : {Unlinked} \cup 1..MaxEquipment]

\* A row of a file of receipts or issues.
OperationRow == [number : Numbers, quantity : Quantities]

\* A row of a file of inventory numbers.
NumberRow == [serial : Serials \cup {NoSerial}, number : Numbers \cup {NoNumber}]

Outcomes == {"VALIDATION_ERROR", "NOT_FOUND", "UNCHANGED", "ALREADY_ASSIGNED",
             "DUPLICATE_INVENTORY_NUMBER", "SUCCESS"}

-----------------------------------------------------------------------------
(* Queries. *)

WithSerial(d, s) == {c \in DOMAIN d.cards : s # NoSerial /\ d.cards[c].serial = s}
WithNumber(d, n) == {c \in DOMAIN d.cards : n # NoNumber /\ d.cards[c].number = n}
RowsWithNumber(d, n) == {e \in DOMAIN d.equip : n # NoNumber /\ d.equip[e].number = n}
CardsOf(d, e) == {c \in DOMAIN d.cards : d.cards[c].legacy = e}
Available(d, c) == d.cards[c].quantity - d.taken[c]

NumberOfRow(d, e) == IF e \in DOMAIN d.equip THEN d.equip[e].number ELSE NoNumber

-----------------------------------------------------------------------------
(* The card of an equipment row: _sync_legacy_stock_receipt. *)

PutCard(d, card) ==
  [d EXCEPT !.lastCard = @ + 1,
            !.cards = [c \in DOMAIN d.cards \cup {d.lastCard + 1} |->
                         IF c = d.lastCard + 1 THEN card ELSE d.cards[c]]]

\* The unique columns and indexes INSERT OR IGNORE runs into.
InsertIgnored(d, e) ==
  \/ CardsOf(d, e) # {}
  \/ d.unique /\ WithSerial(d, d.equip[e].serial) # {}
  \/ WithNumber(d, d.equip[e].number) # {}

MirrorOf(d, e) ==
  [serial |-> d.equip[e].serial, number |-> d.equip[e].number,
   quantity |-> d.equip[e].quantity, legacy |-> e]

InsertMirror(d, e) ==
  IF d.equip[e].quantity > 0 /\ ~InsertIgnored(d, e)
  THEN PutCard(d, MirrorOf(d, e))
  ELSE d

Emptied(d, e) ==
  {c \in CardsOf(d, e) : d.equip[e].quantity = 0 /\ d.taken[c] = 0}

DropEmptied(d, e) ==
  [d EXCEPT !.cards = [c \in DOMAIN d.cards \ Emptied(d, e) |-> d.cards[c]]]

CopyQuantity(d, e) ==
  [d EXCEPT !.cards = [c \in DOMAIN d.cards |->
                         IF c \in CardsOf(d, e)
                         THEN [d.cards[c] EXCEPT !.quantity = d.equip[e].quantity]
                         ELSE d.cards[c]],
            !.behind = @ \ {e}]

Sync(d, e) == CopyQuantity(DropEmptied(InsertMirror(d, e), e), e)

\* The DELETE raises on a card a delivery line refers to.
SyncAllowed(d, e) ==
  /\ Emptied(d, e) \cap d.linked = {}
  /\ InsertMirror(d, e).lastCard <= MaxCards

-----------------------------------------------------------------------------
(* The first version's operations. *)

RowUnused(d, row) ==
  \A e \in DOMAIN d.equip : /\ d.equip[e].serial # row.serial
                           /\ d.equip[e].number # row.number

WithRows(d, rows) == [d EXCEPT !.equip = @ \o rows]
WithQuantity(d, e, q) == [d EXCEPT !.equip = [@ EXCEPT ![e].quantity = q]]

AddEquipment ==
  \E row \in EquipmentRow :
    LET d == WithRows(db, <<row>>) IN
    /\ Idle
    /\ row.number # NoNumber /\ row.quantity <= MaxRequest
    /\ Len(db.equip) < MaxEquipment
    /\ RowUnused(db, row)
    /\ SyncAllowed(d, Len(d.equip))
    /\ db' = Sync(d, Len(d.equip))
    /\ UNCHANGED <<plans, batch>>

\* The file is written as a whole; its rows get no card here.
ImportEquipment ==
  \E file \in EquipmentFiles :
    /\ Idle
    /\ Len(db.equip) + Len(file) <= MaxEquipment
    /\ \A i \in 1..Len(file) :
         /\ RowUnused(db, file[i])
         /\ \A j \in 1..(i - 1) : /\ file[i].serial # file[j].serial
                                 /\ file[i].number # file[j].number
    /\ db' = WithRows(db, file)
    /\ UNCHANGED <<plans, batch>>

ReceiveEquipment ==
  \E e \in DOMAIN db.equip, n \in Quantities :
    LET d == WithQuantity(db, e, db.equip[e].quantity + n) IN
    /\ Idle
    /\ d.equip[e].quantity <= MaxQuantity
    /\ SyncAllowed(d, e)
    /\ db' = Sync(d, e)
    /\ UNCHANGED <<plans, batch>>

\* Mutant: write-offs recorded by the present version are not looked at.
InStockByRow(d, e) == d.equip[e].quantity

\* What the row has, but no more than its card still has.
InStock(d, e) ==
  LET q == d.equip[e].quantity IN
  IF \E c \in CardsOf(d, e) : Available(d, c) < q
  THEN Available(d, CHOOSE c \in CardsOf(d, e) : TRUE)
  ELSE q

IssueEquipment ==
  \E e \in DOMAIN db.equip, n \in Quantities :
    LET d == WithQuantity(db, e, db.equip[e].quantity - n) IN
    /\ Idle
    /\ n <= InStock(db, e)
    /\ SyncAllowed(d, e)
    /\ db' = Sync(d, e)
    /\ UNCHANGED <<plans, batch>>

\* What a file of one type of operation makes of a row: the quantities of all
\* its lines with the row's number, one after the other.
AfterFile(d, f, e) ==
  LET lines == {i \in DOMAIN f.rows : f.rows[i].number = d.equip[e].number}
      q == MapThenSumSet(LAMBDA i : f.rows[i].quantity, lines)
  IN IF f.type = "RECEIPT" THEN d.equip[e].quantity + q ELSE d.equip[e].quantity - q

\* The file is written as a whole, or refused for a number no row has or an
\* issue of more than the row has left. Cards are neither asked nor changed.
ImportOperations ==
  \E f \in OperationFiles :
    LET After(e) == AfterFile(db, f, e)
        carded == {e \in DOMAIN db.equip : CardsOf(db, e) # {}}
    IN /\ Idle
       /\ \A i \in DOMAIN f.rows : RowsWithNumber(db, f.rows[i].number) # {}
       /\ \A e \in DOMAIN db.equip : After(e) \in 0..MaxQuantity
       /\ db' = [db EXCEPT
              !.equip = [e \in DOMAIN @ |-> [@[e] EXCEPT !.quantity = After(e)]],
              !.behind = @ \cup {e \in carded : After(e) # db.equip[e].quantity},
              !.drained = @ \cup {e \in carded : After(e) < db.equip[e].quantity}]
       /\ UNCHANGED <<plans, batch>>

\* The place is not modelled: a move is what it does to the card.
MoveEquipment ==
  \E e \in DOMAIN db.equip :
    /\ Idle
    /\ SyncAllowed(db, e)
    /\ db' = Sync(db, e)
    /\ UNCHANGED <<plans, batch>>

\* initialize(): run by every process that opens the file, a command line one
\* beside the server included; a promoted file is left as it is.
RowsWithoutCard(d) ==
  {e \in DOMAIN d.equip : d.equip[e].quantity > 0 /\ ~InsertIgnored(d, e)}

\* Rows never have an S/N or a number in common, so that none of them keeps
\* another one out.
OpenDatabase ==
  LET ids == (db.lastCard + 1)..(db.lastCard + Cardinality(RowsWithoutCard(db)))
  IN /\ Idle
     /\ db.unique
     /\ db.lastCard + Cardinality(RowsWithoutCard(db)) <= MaxCards
     /\ \E row \in Bijection(ids, RowsWithoutCard(db)) :
          /\ \A i, j \in ids : i < j => row[i] < row[j]
          /\ db' = [db EXCEPT
                 !.lastCard = @ + Cardinality(RowsWithoutCard(db)),
                 !.cards = [c \in DOMAIN @ \cup ids |->
                              IF c \in ids THEN MirrorOf(db, row[c]) ELSE @[c]]]
     /\ UNCHANGED <<plans, batch>>

-----------------------------------------------------------------------------
(* The present version's operations on cards. *)

ReceiveCard ==
  \E s \in Serials \cup {NoSerial}, n \in Numbers \cup {NoNumber},
     q \in Quantities, byDelivery \in BOOLEAN :
    LET d == PutCard(db, [serial |-> s, number |-> n, quantity |-> q,
                          legacy |-> Unlinked]) IN
    /\ Idle
    /\ d.lastCard <= MaxCards
    /\ byDelivery => s # NoSerial
    /\ WithSerial(db, s) = {}
    /\ WithNumber(db, n) = {}
    /\ db' = IF byDelivery THEN [d EXCEPT !.linked = @ \cup {d.lastCard}] ELSE d
    /\ UNCHANGED <<plans, batch>>

\* A delivery line whose S/N is already in stock: the number fills an empty one.
AcceptIntoCard ==
  \E c \in DOMAIN db.cards, n \in Numbers \cup {NoNumber} :
    /\ Idle
    /\ db.cards[c].serial # NoSerial
    /\ c \notin db.linked
    /\ db.cards[c].number = NoNumber => WithNumber(db, n) = {}
    /\ db' = [db EXCEPT !.linked = @ \cup {c},
                        !.cards[c].number = IF @ = NoNumber THEN n ELSE @]
    /\ UNCHANGED <<plans, batch>>

\* The order of the lots (StockTables!FifoShares) makes no difference here.
WriteOff ==
  \E s \in Serials, c \in CardIds, q \in Quantities :
    /\ Idle
    /\ c \in WithSerial(db, s)
    /\ q <= Available(db, c)
    /\ db' = [db EXCEPT !.taken[c] = @ + q]
    /\ UNCHANGED <<plans, batch>>

CorrectSerial ==
  \E c \in DOMAIN db.cards, s \in Serials :
    /\ Idle
    /\ s # db.cards[c].serial
    /\ WithSerial(db, s) = {}
    /\ db' = [db EXCEPT !.cards = [@ EXCEPT ![c].serial = s]]
    /\ UNCHANGED <<plans, batch>>

DeleteDuplicate ==
  \E c \in DOMAIN db.cards :
    /\ Idle
    /\ WithSerial(db, db.cards[c].serial) \ {c} # {}
    /\ db.taken[c] = 0
    /\ c \notin db.linked
    /\ db' = [db EXCEPT !.cards = [x \in DOMAIN @ \ {c} |-> @[x]]]
    /\ UNCHANGED <<plans, batch>>

-----------------------------------------------------------------------------
(* Giving a card its inventory number. *)

TheCard(d, s) == CHOOSE c \in WithSerial(d, s) : TRUE

\* Another position has n: another card, or an equipment row not c's own.
ForeignOwner(d, c, n) ==
  \/ WithNumber(d, n) \ {c} # {}
  \/ RowsWithNumber(d, n) \ {d.cards[c].legacy} # {}

\* Mutant: the equipment table is not asked.
CanAssignCardsOnly(d, s, n) ==
  /\ Cardinality(WithSerial(d, s)) = 1
  /\ LET c == TheCard(d, s) IN
       /\ d.cards[c].number = NoNumber
       /\ NumberOfRow(d, d.cards[c].legacy) \in {NoNumber, n}
       /\ WithNumber(d, n) = {}

\* assign_inventory_number_in_transaction returns with updated = True.
CanAssign(d, s, n) ==
  /\ Cardinality(WithSerial(d, s)) = 1
  /\ LET c == TheCard(d, s) IN
       /\ d.cards[c].number = NoNumber
       /\ NumberOfRow(d, d.cards[c].legacy) \in {NoNumber, n}
       /\ ~ForeignOwner(d, c, n)

Assign(d, s, n) ==
  LET c == TheCard(d, s)
      e == d.cards[c].legacy
  IN [d EXCEPT !.cards = [@ EXCEPT ![c].number = n],
               !.equip = [x \in DOMAIN @ |-> IF x = e THEN [@[x] EXCEPT !.number = n]
                                             ELSE @[x]]]

AssignNumber ==
  \E s \in Serials, n \in Numbers :
    /\ Idle
    /\ CanAssign(db, s, n)
    /\ db' = Assign(db, s, n)
    /\ UNCHANGED <<plans, batch>>

-----------------------------------------------------------------------------
(* Files of inventory numbers: _analyze_inventory_number_rows. *)

Malformed(file, i) ==
  \/ file[i].serial = NoSerial
  \/ file[i].number = NoNumber
  \/ \E j \in DOMAIN file \ {i} : file[j].serial = file[i].serial

Verdict(status, current, card) ==
  [status |-> status, current |-> current, card |-> card]

NoCard == 0

\* A row against the tables alone.
LookUp(d, file, i) ==
  LET s == file[i].serial
      n == file[i].number
      c == TheCard(d, s)
      own == NumberOfRow(d, d.cards[c].legacy)
  IN CASE Malformed(file, i) \/ Cardinality(WithSerial(d, s)) > 1 ->
            Verdict("VALIDATION_ERROR", NoNumber, NoCard)
       [] ~Malformed(file, i) /\ WithSerial(d, s) = {} ->
            Verdict("NOT_FOUND", NoNumber, NoCard)
       [] OTHER ->
            IF d.cards[c].number # NoNumber
            THEN Verdict(IF d.cards[c].number = n THEN "UNCHANGED"
                         ELSE "ALREADY_ASSIGNED", d.cards[c].number, c)
            ELSE IF own \notin {NoNumber, n}
            THEN Verdict("ALREADY_ASSIGNED", own, c)
            ELSE Verdict(IF ForeignOwner(d, c, n) THEN "DUPLICATE_INVENTORY_NUMBER"
                         ELSE "SUCCESS", NoNumber, c)

\* Then the rows that would succeed against each other.
Analyze(d, file) ==
  LET first == [i \in DOMAIN file |-> LookUp(d, file, i)]
      Planned(i) == first[i].status = "SUCCESS"
  IN [i \in DOMAIN file |->
        IF Planned(i) /\ \E j \in DOMAIN file \ {i} :
                           Planned(j) /\ file[j].number = file[i].number
        THEN [first[i] EXCEPT !.status = "DUPLICATE_INVENTORY_NUMBER"]
        ELSE first[i]]

HasErrors(seen) == \E i \in DOMAIN seen : seen[i].status = "VALIDATION_ERROR"

PreviewNumbers ==
  \E file \in NumberFiles :
    /\ Idle
    /\ Cardinality(plans) < MaxPlans
    /\ plans' = plans \cup {[file |-> file, seen |-> Analyze(db, file)]}
    /\ UNCHANGED <<db, batch>>

\* Mutant: the analysis made for the preview is applied as it is.
StillMatchesUnchecked(d, p) == TRUE

\* Status, present number and card of every row: _inventory_preview_matches.
StillMatches(d, p) == Analyze(d, p.file) = p.seen

Confirmable(d, p) == ~HasErrors(Analyze(d, p.file)) /\ StillMatches(d, p)

\* The preview is used up whether its rows are applied or refused. at is the
\* next row, tables what the transaction sees.
ConfirmNumbers ==
  \E p \in plans :
    /\ Idle
    /\ plans' = plans \ {p}
    /\ batch' = IF Confirmable(db, p)
                THEN [file |-> p.file, shown |-> p.seen, now |-> Analyze(db, p.file),
                      at |-> 1, tables |-> db]
                ELSE NoBatch
    /\ UNCHANGED db

ToAssign(b) == b.at <= Len(b.file) /\ b.now[b.at].status = "SUCCESS"

Assignable(b) == CanAssign(b.tables, b.file[b.at].serial, b.file[b.at].number)

SkipRow ==
  /\ ~Idle /\ batch.at <= Len(batch.file) /\ ~ToAssign(batch)
  /\ batch' = [batch EXCEPT !.at = @ + 1]
  /\ UNCHANGED <<db, plans>>

AssignRow ==
  /\ ~Idle /\ ToAssign(batch) /\ Assignable(batch)
  /\ batch' = [batch EXCEPT !.at = @ + 1,
                 !.tables = Assign(@, batch.file[batch.at].serial,
                                   batch.file[batch.at].number)]
  /\ UNCHANGED <<db, plans>>

CommitNumbers ==
  /\ ~Idle /\ batch.at > Len(batch.file)
  /\ db' = batch.tables
  /\ batch' = NoBatch
  /\ UNCHANGED plans

\* A row or SQLite raises: rolled back.
RollBack ==
  /\ ~Idle
  /\ batch' = NoBatch
  /\ UNCHANGED <<db, plans>>

\* Evicted or expired.
ForgetPlan == \E p \in plans : plans' = plans \ {p} /\ UNCHANGED <<db, batch>>

\* The server process ends, in the middle of a transaction or between two.
ServerEnds ==
  /\ plans' = {}
  /\ batch' = NoBatch
  /\ UNCHANGED db

-----------------------------------------------------------------------------
ASSUME StartAssumption ==
  \A d \in StartTables :
    /\ DOMAIN d = {"equip", "cards", "lastCard", "taken", "linked", "unique",
                   "behind", "drained"}
    /\ d.behind = {} /\ d.drained = {}
    /\ d.equip \in Seq(EquipmentRow)
    /\ d.lastCard \in 0..MaxCards
    /\ DOMAIN d.cards \subseteq 1..d.lastCard
    /\ \A c \in DOMAIN d.cards : d.cards[c] \in CardRow
    /\ d.taken = [c \in CardIds |-> 0]
    /\ \A c \in DOMAIN d.cards : d.cards[c].legacy # Unlinked =>
         /\ d.cards[c].legacy \in DOMAIN d.equip
         /\ d.cards[c].quantity = d.equip[d.cards[c].legacy].quantity
         /\ CardsOf(d, d.cards[c].legacy) = {c}

ASSUME FilesAssumption == EquipmentFiles \subseteq Seq(EquipmentRow)
ASSUME OperationFilesAssumption ==
  OperationFiles \subseteq
    [type : {"RECEIPT", "ISSUE"}, rows : Seq(OperationRow) \ {<<>>}]
ASSUME NumberFilesAssumption == NumberFiles \subseteq Seq(NumberRow)

Init == db \in StartTables /\ plans = {} /\ batch = NoBatch

Next ==
  \/ AddEquipment \/ ImportEquipment \/ ReceiveEquipment \/ IssueEquipment
  \/ ImportOperations \/ MoveEquipment \/ OpenDatabase
  \/ ReceiveCard \/ AcceptIntoCard \/ WriteOff \/ CorrectSerial \/ DeleteDuplicate
  \/ AssignNumber \/ PreviewNumbers \/ ForgetPlan \/ ConfirmNumbers
  \/ SkipRow \/ AssignRow \/ CommitNumbers \/ RollBack \/ ServerEnds

Spec == Init /\ [][Next]_vars

-----------------------------------------------------------------------------
(* Properties. *)

TablesOK(d) ==
  /\ d.equip \in Seq(EquipmentRow) /\ Len(d.equip) <= MaxEquipment
  /\ d.lastCard \in 0..MaxCards
  /\ DOMAIN d.cards \subseteq 1..d.lastCard
  /\ \A c \in DOMAIN d.cards : d.cards[c] \in CardRow
  /\ d.taken \in [CardIds -> Nat]
  /\ d.linked \subseteq DOMAIN d.cards
  /\ d.behind \subseteq DOMAIN d.equip /\ d.drained \subseteq DOMAIN d.equip

\* The tables are well-formed, and a plan has one verdict per row.
TypeOK ==
  /\ TablesOK(db)
  /\ \A p \in plans : /\ DOMAIN p.seen = DOMAIN p.file
                      /\ \A i \in DOMAIN p.seen : p.seen[i].status \in Outcomes
  /\ Idle \/ TablesOK(batch.tables)

\* Whatever the two versions of the program do in turn, a card with write-offs
\* is still there, and no more is written off than it holds: the legacy issue,
\* which shrinks the card, looks at the allocations first (inventory.py:226-238),
\* and the DELETE spares cards with allocations. A file of issues looks at the
\* row alone (inventory.py:371-382), and the next operation by hand shrinks the
\* card to it: of the rows such a file took from, only the first half is true.
CardCoversWriteOffs ==
  \A c \in CardIds : db.taken[c] > 0 =>
    /\ c \in DOMAIN db.cards
    /\ db.cards[c].legacy \notin db.drained => db.taken[c] <= db.cards[c].quantity

\* A card that mirrors a row is the only one, and holds what the row holds from
\* each operation by hand to the next file of operations; before it is copied
\* again, it never holds more than the row unless such a file took from it.
OwnCardAgrees ==
  \A c \in DOMAIN db.cards : db.cards[c].legacy # Unlinked =>
    LET e == db.cards[c].legacy
    IN /\ CardsOf(db, e) = {c}
       /\ e \notin db.behind => db.cards[c].quantity = db.equip[e].quantity
       /\ e \notin db.drained => db.cards[c].quantity <= db.equip[e].quantity

\* The cards stand for the stock, whichever version of the program wrote last.
CardsStandForStock == CardCoversWriteOffs /\ OwnCardAgrees

\* Positions that carry n; a row and a card that mirrors it, or has its S/N, are
\* one position.
Positions(d, n) ==
  WithNumber(d, n) \cup
  {-e : e \in {x \in RowsWithNumber(d, n) :
                 \A c \in WithNumber(d, n) : /\ d.cards[c].legacy # x
                                            /\ d.cards[c].serial # d.equip[x].serial}}

Shared(d) == {n \in Numbers : Cardinality(Positions(d, n)) > 1}

Keeps(old, new) ==
  \A i \in DOMAIN old \cap DOMAIN new :
    old[i].number # NoNumber => new[i].number = old[i].number

\* An inventory number, once on a card or a row, is never replaced or removed
\* while the card or the row exists; and assigning one, by the form or by a
\* file, never gives it to two positions, in whichever of the two tables the
\* other one is (INVENTORY_NUMBER_IMPORT_ARCHITECTURE.md).
NumbersStayApart ==
  [][/\ Keeps(db.cards, db'.cards)
     /\ Keeps(db.equip, db'.equip)
     /\ AssignNumber \/ CommitNumbers => Shared(db') \subseteq Shared(db)]_vars

\* Confirming changes the numbers the preview announced, of the very cards it
\* showed, and no other card; if the tables changed meanwhile, nothing.
ConfirmDoesWhatItShowed ==
  [][batch # NoBatch /\ db' # db =>
       LET Shown(i, c) == batch.shown[i].status = "SUCCESS" /\ batch.shown[i].card = c
       IN \A c \in DOMAIN db.cards :
            db'.cards[c] =
              IF \E i \in DOMAIN batch.shown : Shown(i, c)
              THEN [db.cards[c] EXCEPT !.number =
                      batch.file[CHOOSE i \in DOMAIN batch.shown : Shown(i, c)].number]
              ELSE db.cards[c]]_vars

=============================================================================
