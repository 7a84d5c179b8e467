------------------------------ MODULE Deliveries ------------------------------
(***************************************************************************)
(* Delivery documents and their acceptance. A file is previewed, confirmed *)
(* as a document whose lines carry the states the preview found, and then  *)
(* accepted line by line: a line becomes a new card (stock_receipts) or is *)
(* linked to the card its S/N already has.                                 *)
(*                                                                         *)
(*   db        the committed tables: cards by id and the last id given,    *)
(*             lines (delivery_lines) and docs (deliveries.status) by id   *)
(*   previews  previews waiting for their confirmation, in memory          *)
(*   batch     the transaction of accept_delivery_batch, while it is open; *)
(*             every other request is one step                             *)
(*                                                                         *)
(* One request at a time holds the server's lock and has one transaction.  *)
(***************************************************************************)
EXTENDS Integers, FiniteSets, Sequences, Functions

CONSTANTS
  Serials, NoSerial,    \* values of serial_number, and the empty text
  Numbers, NoNumber,    \* values of inventory_number, and the empty text
  MaxCards,             \* bound: ids ever given to cards
  MaxLines,             \* bound: delivery lines
  MaxDocs,              \* bound: delivery documents
  MaxPreviews,          \* bound: previews pending at a time
  StartCards,           \* sequences of cards the run may start with
  Files,                \* delivery files: sequences of rows
  Givens                \* what a request may carry in `values`

ASSUME DeliveryBounds ==
  /\ MaxCards \in Nat /\ MaxLines \in Nat /\ MaxDocs \in Nat /\ MaxPreviews \in Nat
  /\ NoSerial \notin Serials /\ NoNumber \notin Numbers

VARIABLES db, previews, batch
vars == <<db, previews, batch>>

NoCard == 0
NoBatch == <<>>
Idle == batch = NoBatch

\* delivery_lines.state, in the order of its CHECK: expected, accepted, already
\* in stock, repeated in the file, error.
Waiting == "waiting"
Accepted == "accepted"
Existing == "existing"
Duplicate == "duplicate"
Wrong == "error"
LineStates == {Waiting, Accepted, Existing, Duplicate, Wrong}

\* deliveries.status as the program sets it.
DocWaiting == "expected"
DocPartly == "partly accepted"
DocAccepted == "accepted"
DocClosed == "closed"
DocStates == {DocWaiting, DocPartly, DocAccepted, DocClosed}

SerialText == Serials \cup {NoSerial}
NumberText == Numbers \cup {NoNumber}
Card == [serial : SerialText, number : NumberText]

\* A row after _expand_rows: one S/N. bad: its quantity is wrong or does not
\* agree with the number of S/N.
FileRow == [serial : SerialText, number : NumberText, bad : BOOLEAN]

\* The part of `values` the model keeps; empty means not given.
Given == [serial : SerialText, number : NumberText]

ASSUME DeliveryInputs ==
  /\ \A cards \in StartCards : cards \in Seq(Card) /\ Len(cards) <= MaxCards
  /\ \A file \in Files : file \in Seq(FileRow)
  /\ \A given \in Givens : given \in Given

-----------------------------------------------------------------------------
(* Queries. *)

WithSerial(d, s) == {c \in DOMAIN d.cards : s # NoSerial /\ d.cards[c].serial = s}
WithNumber(d, n) == {c \in DOMAIN d.cards : n # NoNumber /\ d.cards[c].number = n}

\* Mutant: the card of an S/N is any of those that share it.
AnyCardOfSerial(d, s) == WithSerial(d, s)

\* existing_stock_by_serial_in_db takes the first row; the index on the S/N
\* and the table itself both deliver rows of one S/N by id.
CardOfSerial(d, s) ==
  {c \in WithSerial(d, s) : \A other \in WithSerial(d, s) : c <= other}

LinesOf(d, doc) == {l \in DOMAIN d.lines : d.lines[l].doc = doc}

LinesWithSerial(d, doc, s) == {l \in LinesOf(d, doc) : d.lines[l].serial = s}

FirstLine(d, doc, s) ==
  {l \in LinesWithSerial(d, doc, s) : \A other \in LinesWithSerial(d, doc, s) : l <= other}

IsLinked(line) == line.state = Accepted \/ line.card # NoCard

IsProcessed(line) ==
  \/ line.state = Accepted
  \/ line.state = Existing /\ line.card # NoCard

StatusOf(d, doc) ==
  LET processed == {l \in LinesOf(d, doc) : IsProcessed(d.lines[l])}
      waiting   == {l \in LinesOf(d, doc) : d.lines[l].state = Waiting} IN
  IF processed = {} THEN DocWaiting
  ELSE IF waiting # {} THEN DocPartly
  ELSE DocAccepted

\* Mutant: the document is not looked at again.
RefreshedNot(d, doc) == d

\* refresh_status_in_db.
Refreshed(d, doc) ==
  IF d.docs[doc] = DocClosed THEN d ELSE [d EXCEPT !.docs[doc] = StatusOf(d, doc)]

Open(d, doc) == doc \in DOMAIN d.docs /\ d.docs[doc] # DocClosed

-----------------------------------------------------------------------------
(* _accept_line. *)

PutCard(d, card) ==
  [d EXCEPT !.lastCard = @ + 1,
            !.cards = [c \in DOMAIN d.cards \cup {d.lastCard + 1} |->
                         IF c = d.lastCard + 1 THEN card ELSE d.cards[c]]]

\* merged = {**line, **values}: what is given wins over the line.
MergedSerial(line, given) == IF given.serial # NoSerial THEN given.serial ELSE line.serial
MergedNumber(line, given) == IF given.number # NoNumber THEN given.number ELSE line.number

Linked(d, l, c, state) == [d EXCEPT !.lines[l].card = c, !.lines[l].state = state]

Filled(d, c, n) ==
  IF d.cards[c].number = NoNumber THEN [d EXCEPT !.cards[c].number = n] ELSE d

\* No other line refers to the card; a number filled in must not be in use
\* (the unique index raises).
CanLink(d, l, c, given) ==
  /\ \A other \in DOMAIN d.lines \ {l} : d.lines[other].card # c
  /\ \/ d.cards[c].number # NoNumber
     \/ WithNumber(d, MergedNumber(d.lines[l], given)) = {}

\* insert_one_in_transaction.
CanCreate(d, l, given) ==
  /\ WithSerial(d, MergedSerial(d.lines[l], given)) = {}
  /\ WithNumber(d, MergedNumber(d.lines[l], given)) = {}

LinkToExisting(d, l, c, given) ==
  Linked(Filled(d, c, MergedNumber(d.lines[l], given)), l, c, Existing)

CreateAndLink(d, l, given) ==
  Linked(PutCard(d, [serial |-> MergedSerial(d.lines[l], given),
                     number |-> MergedNumber(d.lines[l], given)]),
         l, d.lastCard + 1, Accepted)

CanAccept(d, l) == ~IsLinked(d.lines[l]) /\ d.lines[l].serial # NoSerial

\* The tables after the line is accepted; none when it raises.
AcceptResults(d, l, given) ==
  IF ~CanAccept(d, l) THEN {}
  ELSE {LinkToExisting(d, l, c, given) :
          c \in {o \in CardOfSerial(d, d.lines[l].serial) : CanLink(d, l, o, given)}}
       \cup {e \in {CreateAndLink(d, l, given)} :
               WithSerial(d, d.lines[l].serial) = {} /\ CanCreate(d, l, given)}

-----------------------------------------------------------------------------
(* The document: preview_delivery_import, confirm_delivery_import. *)

RowState(file, i) ==
  IF file[i].serial = NoSerial THEN Wrong
  ELSE IF \E j \in 1..i-1 : file[j].serial = file[i].serial THEN Duplicate
  ELSE IF file[i].bad THEN Wrong
  ELSE IF WithSerial(db, file[i].serial) # {} THEN Existing
  ELSE Waiting

Preview(file) ==
  /\ Idle
  /\ Cardinality(previews) < MaxPreviews
  /\ previews' = previews \cup
       {[i \in DOMAIN file |->
           [serial |-> file[i].serial, number |-> file[i].number,
            state |-> RowState(file, i)]]}
  /\ UNCHANGED <<db, batch>>

\* A preview expires or makes room for another one.
ForgetPreview ==
  /\ \E preview \in previews : previews' = previews \ {preview}
  /\ UNCHANGED <<db, batch>>

NewLine(doc, row, state) ==
  [doc |-> doc, serial |-> row.serial, number |-> row.number, state |-> state,
   card |-> NoCard]

\* The states are stored as previewed; nothing is analysed again.
ConfirmDocument(preview) ==
  /\ Idle
  /\ preview \in previews
  /\ Len(db.docs) < MaxDocs
  /\ Len(db.lines) + Len(preview) <= MaxLines
  /\ previews' = previews \ {preview}
  /\ db' = [db EXCEPT
       !.docs = Append(@, DocWaiting),
       !.lines = @ \o [i \in DOMAIN preview |->
                         NewLine(Len(db.docs) + 1, preview[i], preview[i].state)]]
  /\ UNCHANGED batch

CloseDelivery(doc) ==
  /\ Idle
  /\ doc \in DOMAIN db.docs
  /\ db' = [db EXCEPT !.docs[doc] = DocClosed]
  /\ UNCHANGED <<previews, batch>>

\* update_delivery_line_metadata; the delivery may be closed.
UpdateLines(doc, ids, n, onlyEmpty) ==
  /\ Idle
  /\ db' = [db EXCEPT !.lines = [l \in DOMAIN db.lines |->
       IF /\ l \in ids \cap LinesOf(db, doc)
          /\ ~IsLinked(db.lines[l])
          /\ ~(onlyEmpty /\ db.lines[l].number # NoNumber)
       THEN [db.lines[l] EXCEPT !.number = n] ELSE db.lines[l]]]
  /\ UNCHANGED <<previews, batch>>

-----------------------------------------------------------------------------
(* Acceptance. *)

\* accept_delivery_serial: the first line of the S/N, whatever its state.
AcceptSerial(doc, s, given) ==
  /\ Idle
  /\ Open(db, doc)
  /\ db.lastCard < MaxCards
  /\ \E l \in FirstLine(db, doc, s) : \E e \in AcceptResults(db, l, given) :
       db' = Refreshed(e, doc)
  /\ UNCHANGED <<previews, batch>>

WithUnplanned(d, doc, s, n) ==
  [d EXCEPT !.lines = Append(@, NewLine(doc, [serial |-> s, number |-> n], Waiting))]

\* accept_unplanned_delivery_serial: the line is added and accepted at once.
AcceptUnplanned(doc, s, given) ==
  /\ Idle
  /\ Open(db, doc)
  /\ s # NoSerial
  /\ db.lastCard < MaxCards
  /\ Len(db.lines) < MaxLines
  /\ LinesWithSerial(db, doc, s) = {}
  /\ WithSerial(db, s) = {}
  /\ \E e \in AcceptResults(WithUnplanned(db, doc, s, given.number),
                            Len(db.lines) + 1, given) :
       db' = Refreshed(e, doc)
  /\ UNCHANGED <<previews, batch>>

\* accept_delivery_batch opens its transaction.
BeginBatch(doc, ids, given) ==
  /\ Idle
  /\ Open(db, doc)
  /\ db.lastCard + Len(ids) <= MaxCards
  /\ batch' = [doc |-> doc, ids |-> ids, given |-> given, at |-> 1, tables |-> db]
  /\ UNCHANGED <<db, previews>>

InBatch == batch # NoBatch

RowResults ==
  LET l == batch.ids[batch.at] IN
  IF l \in LinesOf(batch.tables, batch.doc)
  THEN AcceptResults(batch.tables, l, batch.given)
  ELSE {}

AcceptRow ==
  /\ InBatch
  /\ batch.at <= Len(batch.ids)
  /\ \E e \in RowResults :
       batch' = [batch EXCEPT !.tables = e, !.at = batch.at + 1]
  /\ UNCHANGED <<db, previews>>

\* Mutant: what was accepted before the row that raises stays.
RefuseRowKeepsRest ==
  /\ InBatch
  /\ batch.at <= Len(batch.ids)
  /\ RowResults = {}
  /\ db' = Refreshed(batch.tables, batch.doc)
  /\ batch' = NoBatch
  /\ UNCHANGED previews

\* A row that raises takes the whole batch back.
RefuseRow ==
  /\ InBatch
  /\ batch.at <= Len(batch.ids)
  /\ RowResults = {}
  /\ batch' = NoBatch
  /\ UNCHANGED <<db, previews>>

CommitBatch ==
  /\ InBatch
  /\ batch.at > Len(batch.ids)
  /\ db' = Refreshed(batch.tables, batch.doc)
  /\ batch' = NoBatch
  /\ UNCHANGED previews

\* The process dies: the journal is rolled back, previews are gone.
Crash ==
  /\ InBatch \/ previews # {}
  /\ batch' = NoBatch
  /\ previews' = {}
  /\ UNCHANGED db

-----------------------------------------------------------------------------
(* Requests of the rest of the warehouse on the same cards. *)

ReceiveCard(s, n) ==
  /\ Idle
  /\ db.lastCard < MaxCards
  /\ WithSerial(db, s) = {} /\ WithNumber(db, n) = {}
  /\ db' = PutCard(db, [serial |-> s, number |-> n])
  /\ UNCHANGED <<previews, batch>>

\* correct_duplicate_serial; delivery lines keep the S/N they had.
CorrectSerial(c, s) ==
  /\ Idle
  /\ c \in DOMAIN db.cards
  /\ s # NoSerial /\ s # db.cards[c].serial
  /\ WithSerial(db, s) = {}
  /\ db' = [db EXCEPT !.cards[c].serial = s]
  /\ UNCHANGED <<previews, batch>>

\* Mutant: a card is deleted without a look at the delivery lines.
DeleteLinkedToo(c) ==
  /\ Idle
  /\ c \in DOMAIN db.cards
  /\ WithSerial(db, db.cards[c].serial) \ {c} # {}
  /\ db' = [db EXCEPT !.cards = Restrict(@, DOMAIN db.cards \ {c})]
  /\ UNCHANGED <<previews, batch>>

DeleteDuplicate(c) ==
  /\ Idle
  /\ c \in DOMAIN db.cards
  /\ WithSerial(db, db.cards[c].serial) \ {c} # {}
  /\ \A l \in DOMAIN db.lines : db.lines[l].card # c
  /\ db' = [db EXCEPT !.cards = Restrict(@, DOMAIN db.cards \ {c})]
  /\ UNCHANGED <<previews, batch>>

-----------------------------------------------------------------------------
Init ==
  /\ \E cards \in StartCards :
       db = [cards |-> cards, lastCard |-> Len(cards), lines |-> <<>>, docs |-> <<>>]
  /\ previews = {}
  /\ batch = NoBatch

UpToTwo(S) == {<<a>> : a \in S} \cup (S \X S)

BatchStep == AcceptRow \/ RefuseRow \/ CommitBatch

Next ==
  \/ \E file \in Files : Preview(file)
  \/ ForgetPreview
  \/ \E preview \in previews : ConfirmDocument(preview)
  \/ \E doc \in DOMAIN db.docs : CloseDelivery(doc)
  \/ \E doc \in DOMAIN db.docs, ids \in SUBSET DOMAIN db.lines, n \in NumberText,
        onlyEmpty \in BOOLEAN : UpdateLines(doc, ids, n, onlyEmpty)
  \/ \E doc \in DOMAIN db.docs, s \in Serials, given \in Givens : AcceptSerial(doc, s, given)
  \/ \E doc \in DOMAIN db.docs, s \in Serials, given \in Givens : AcceptUnplanned(doc, s, given)
  \/ \E doc \in DOMAIN db.docs, ids \in UpToTwo(DOMAIN db.lines), given \in Givens :
       BeginBatch(doc, ids, given)
  \/ BatchStep
  \/ Crash
  \/ \E s \in SerialText, n \in NumberText : ReceiveCard(s, n)
  \/ \E c \in DOMAIN db.cards, s \in Serials : CorrectSerial(c, s)
  \/ \E c \in DOMAIN db.cards : DeleteDuplicate(c)

Spec == Init /\ [][Next]_vars

-----------------------------------------------------------------------------
(* Properties. *)

LineRow == [doc : 1..MaxDocs, serial : SerialText, number : NumberText,
            state : LineStates, card : {NoCard} \cup 1..MaxCards]

IsTables(d) ==
  /\ DOMAIN d.cards \subseteq 1..d.lastCard
  /\ d.lastCard \in 0..MaxCards
  /\ \A c \in DOMAIN d.cards : d.cards[c] \in Card
  /\ d.lines \in Seq(LineRow) /\ Len(d.lines) <= MaxLines
  /\ d.docs \in Seq(DocStates) /\ Len(d.docs) <= MaxDocs
  /\ \A l \in DOMAIN d.lines : d.lines[l].doc \in DOMAIN d.docs

\* The shape of the tables, of the previews and of the open batch.
TypeOK ==
  /\ IsTables(db)
  /\ Cardinality(previews) <= MaxPreviews
  /\ InBatch => /\ IsTables(batch.tables)
                /\ batch.doc \in DOMAIN db.docs
                /\ batch.at \in 1..Len(batch.ids) + 1

\* The status of a document that is not closed is the one its lines call for,
\* after every request: no edit, correction or acceptance elsewhere leaves it
\* stale (refresh_status_in_db runs only at the end of an acceptance).
StatusFollowsLines ==
  \A doc \in DOMAIN db.docs :
    db.docs[doc] # DocClosed => db.docs[doc] = StatusOf(db, doc)

LinksSoundIn(d) ==
  \A l \in DOMAIN d.lines :
    /\ d.lines[l].state = Accepted => d.lines[l].card # NoCard
    /\ d.lines[l].card # NoCard =>
         /\ d.lines[l].card \in DOMAIN d.cards
         /\ d.lines[l].state \in {Accepted, Existing}
         /\ \A other \in DOMAIN d.lines \ {l} : d.lines[other].card # d.lines[l].card

\* A line that is accepted or linked has a card of its own, and the card is
\* there, inside the open batch too; deleting duplicates and correcting S/N
\* never leaves a line without its card (delivery_lines.receipt_id).
LinksSound == LinksSoundIn(db) /\ (InBatch => LinksSoundIn(batch.tables))

\* The lines a step links.
NewlyLinked ==
  {l \in DOMAIN db'.lines :
     /\ IsLinked(db'.lines[l])
     /\ l \in DOMAIN db.lines => ~IsLinked(db.lines[l])}

\* Acceptance is whole and happens once. docs/DELIVERY_ACCEPTANCE_ARCHITECTURE.md:
\* a batch runs in one transaction; what it commits links every line asked for and
\* no other. docs/USER_GUIDE.md: an S/N that is accepted is not accepted again;
\* while a linked card carries the S/N of a line, the line is not accepted in any
\* delivery, not even by way of a twin of that card.
AcceptedWholeAndOnce ==
  [][/\ InBatch /\ db' # db => NewlyLinked = Range(batch.ids)
     /\ \A l \in NewlyLinked, other \in DOMAIN db.lines :
          db.lines[other].card # NoCard =>
            db.cards[db.lines[other].card].serial # db'.lines[l].serial]_vars

=============================================================================
