--------------------------- MODULE DeliveriesProofs ---------------------------
(***************************************************************************)
(* What comes in from documents: for every value of the constants.         *)
(*                                                                         *)
(* A line that is accepted or linked has a card of its own, and the status *)
(* of an open document is the one its lines call for. Between the first    *)
(* row of a batch and its end the status of the one document is behind its *)
(* lines; the invariant leaves that document out.                          *)
(***************************************************************************)
EXTENDS Deliveries, TLAPS

\* No document has this id.
NoDoc == 0

LineShape == [doc : Nat, serial : SerialText, number : NumberText,
              state : LineStates, card : Nat]

Shape(d) ==
  /\ DOMAIN d = {"cards", "lastCard", "lines", "docs"}
  /\ d.lastCard \in Nat
  /\ DOMAIN d.cards \subseteq 1..d.lastCard
  /\ d.lines \in Seq(LineShape)
  /\ d.docs \in Seq(DocStates)
  /\ \A l \in DOMAIN d.lines : d.lines[l].doc \in DOMAIN d.docs

\* Every document but x has the status its lines call for.
StatusBut(d, x) ==
  \A doc \in DOMAIN d.docs :
    doc # x /\ d.docs[doc] # DocClosed => d.docs[doc] = StatusOf(d, doc)

Good(d, x) == Shape(d) /\ LinksSoundIn(d) /\ StatusBut(d, x)

Analyzed == [serial : SerialText, number : NumberText,
             state : {Waiting, Existing, Duplicate, Wrong}]

IInv ==
  /\ Good(db, NoDoc)
  /\ \A preview \in previews : preview \in Seq(Analyzed)
  /\ batch # NoBatch =>
       /\ DOMAIN batch = {"doc", "ids", "given", "at", "tables"}
       /\ batch.doc \in DOMAIN batch.tables.docs
       /\ Good(batch.tables, batch.doc)

-----------------------------------------------------------------------------
(* The status of a document depends on its own lines. *)

LEMMA LineFacts ==
  ASSUME NEW d, Shape(d), NEW l \in DOMAIN d.lines
  PROVE  /\ d.lines[l] \in LineShape
         /\ DOMAIN d.lines[l] = {"doc", "serial", "number", "state", "card"}
         /\ d.lines[l].doc \in DOMAIN d.docs
         /\ d.lines[l].card \in Nat
<1>1. d.lines[l] \in LineShape
  BY DEF Shape
<1> QED
  BY <1>1 DEF Shape, LineShape

LEMMA SameStatus ==
  ASSUME NEW d, NEW e, NEW doc,
         LinesOf(e, doc) = LinesOf(d, doc),
         \A l \in LinesOf(d, doc) : e.lines[l] = d.lines[l]
  PROVE  StatusOf(e, doc) = StatusOf(d, doc)
<1>1. {l \in LinesOf(e, doc) : IsProcessed(e.lines[l])}
        = {l \in LinesOf(d, doc) : IsProcessed(d.lines[l])}
  OBVIOUS
<1>2. {l \in LinesOf(e, doc) : e.lines[l].state = Waiting}
        = {l \in LinesOf(d, doc) : d.lines[l].state = Waiting}
  OBVIOUS
<1> QED
  BY <1>1, <1>2 DEF StatusOf

-----------------------------------------------------------------------------
(* Changes of the tables. *)

\* The cards change, the lines do not: the cards lines refer to must stay.
LEMMA CardsChangeKeeps ==
  ASSUME NEW d, NEW e, NEW x, Good(d, x),
         DOMAIN e = DOMAIN d, e.lines = d.lines, e.docs = d.docs,
         e.lastCard \in Nat, DOMAIN e.cards \subseteq 1..e.lastCard,
         \A l \in DOMAIN d.lines : d.lines[l].card \in DOMAIN d.cards =>
           d.lines[l].card \in DOMAIN e.cards
  PROVE  Good(e, x)
<1>1. Shape(e)
  BY DEF Good, Shape
<1>2. LinksSoundIn(e)
  BY DEF Good, LinksSoundIn
<1>3. \A doc : StatusOf(e, doc) = StatusOf(d, doc)
  BY DEF StatusOf, LinesOf
<1>4. StatusBut(e, x)
  BY <1>3 DEF Good, StatusBut
<1> QED
  BY <1>1, <1>2, <1>4 DEF Good

LEMMA PutCardKeeps ==
  ASSUME NEW d, NEW x, Good(d, x), NEW card
  PROVE  /\ Good(PutCard(d, card), x)
         /\ PutCard(d, card).lines = d.lines
         /\ PutCard(d, card).docs = d.docs
         /\ d.lastCard + 1 \in DOMAIN PutCard(d, card).cards
         /\ d.lastCard + 1 \in Nat \ {0}
         /\ \A l \in DOMAIN d.lines : d.lines[l].card # d.lastCard + 1
<1> DEFINE p == PutCard(d, card)
<1>1. /\ DOMAIN p = DOMAIN d
      /\ p.lines = d.lines /\ p.docs = d.docs
      /\ p.lastCard = d.lastCard + 1
      /\ DOMAIN p.cards = DOMAIN d.cards \cup {d.lastCard + 1}
      /\ d.lastCard \in Nat /\ DOMAIN d.cards \subseteq 1..d.lastCard
  BY DEF PutCard, Good, Shape
<1> HIDE DEF p
<1>2. Good(p, x)
  BY <1>1, CardsChangeKeeps
<1>3. \A l \in DOMAIN d.lines : d.lines[l].card # d.lastCard + 1
  BY <1>1 DEF Good, LinksSoundIn, NoCard
<1> QED
  BY <1>1, <1>2, <1>3 DEF p

LEMMA FilledKeeps ==
  ASSUME NEW d, NEW x, Good(d, x), NEW c, NEW n
  PROVE  /\ Good(Filled(d, c, n), x)
         /\ Filled(d, c, n).lines = d.lines
         /\ Filled(d, c, n).docs = d.docs
         /\ DOMAIN Filled(d, c, n).cards = DOMAIN d.cards
<1> DEFINE p == Filled(d, c, n)
<1>1. /\ DOMAIN p = DOMAIN d
      /\ p.lines = d.lines /\ p.docs = d.docs /\ p.lastCard = d.lastCard
      /\ DOMAIN p.cards = DOMAIN d.cards
      /\ d.lastCard \in Nat /\ DOMAIN d.cards \subseteq 1..d.lastCard
  BY DEF Filled, Good, Shape
<1> HIDE DEF p
<1>2. Good(p, x)
  BY <1>1, CardsChangeKeeps
<1> QED
  BY <1>1, <1>2 DEF p

\* Lines of document x only change their state or card.
LEMMA LinkKeeps ==
  ASSUME NEW d, NEW x, Good(d, x), NEW l \in LinesOf(d, x),
         NEW c \in DOMAIN d.cards, NEW state \in {Accepted, Existing},
         \A other \in DOMAIN d.lines \ {l} : d.lines[other].card # c
  PROVE  /\ Good(Linked(d, l, c, state), x)
         /\ Linked(d, l, c, state).docs = d.docs
<1> DEFINE p == Linked(d, l, c, state)
<1>0. l \in DOMAIN d.lines /\ d.lines[l].doc = x
  BY DEF LinesOf
<1>1. /\ Shape(d) /\ c \in Nat \ {0} /\ c # NoCard
      /\ Len(d.lines) \in Nat /\ DOMAIN d.lines = 1..Len(d.lines)
  <2>1. Shape(d)
    BY DEF Good
  <2> QED
    BY <2>1 DEF Shape, NoCard
<1>2. /\ DOMAIN p = DOMAIN d
      /\ p.cards = d.cards /\ p.docs = d.docs /\ p.lastCard = d.lastCard
      /\ DOMAIN p.lines = DOMAIN d.lines
      /\ \A o \in DOMAIN d.lines \ {l} : p.lines[o] = d.lines[o]
      /\ p.lines = [o \in 1..Len(d.lines) |-> p.lines[o]]
  BY <1>0, <1>1 DEF Linked, Shape
<1>3. /\ DOMAIN p.lines[l] = {"doc", "serial", "number", "state", "card"}
      /\ p.lines[l].doc = x /\ p.lines[l].card = c /\ p.lines[l].state = state
      /\ p.lines[l] \in LineShape
  <2>1. /\ d.lines[l] \in LineShape
        /\ DOMAIN d.lines[l] = {"doc", "serial", "number", "state", "card"}
    BY <1>0, <1>1, LineFacts
  <2>2. p.lines[l] = [d.lines[l] EXCEPT !.card = c, !.state = state]
    BY <1>0, <1>1, <2>1 DEF Linked, Shape
  <2>3. state \in LineStates
    BY DEF LineStates
  <2> HIDE DEF p
  <2> QED
    BY <1>0, <1>1, <2>1, <2>2, <2>3 DEF LineShape
<1> HIDE DEF p
<1>4. Shape(p)
  <2>1. \A o \in 1..Len(d.lines) : p.lines[o] \in LineShape
    BY <1>1, <1>2, <1>3, LineFacts
  <2>2. p.lines \in Seq(LineShape)
    BY <1>1, <1>2, <2>1
  <2>3. \A o \in DOMAIN d.lines : p.lines[o].doc = d.lines[o].doc
    BY <1>0, <1>2, <1>3
  <2> QED
    BY <1>1, <1>2, <2>2, <2>3 DEF Shape
<1>5. LinksSoundIn(p)
  <2>1. SUFFICES ASSUME NEW o \in DOMAIN d.lines
        PROVE  /\ p.lines[o].state = Accepted => p.lines[o].card # NoCard
               /\ p.lines[o].card # NoCard =>
                    /\ p.lines[o].card \in DOMAIN d.cards
                    /\ p.lines[o].state \in {Accepted, Existing}
                    /\ \A other \in DOMAIN d.lines \ {o} : p.lines[other].card # p.lines[o].card
    BY <1>2 DEF LinksSoundIn
  <2>2. CASE o = l
    BY <1>1, <1>2, <1>3, <2>2
  <2>3. CASE o # l
    <3>1. p.lines[o] = d.lines[o] /\ d.lines[o].card # c
      BY <1>2, <2>3
    <3>2. /\ d.lines[o].state = Accepted => d.lines[o].card # NoCard
          /\ d.lines[o].card # NoCard =>
               /\ d.lines[o].card \in DOMAIN d.cards
               /\ d.lines[o].state \in {Accepted, Existing}
               /\ \A other \in DOMAIN d.lines \ {o} : d.lines[other].card # d.lines[o].card
      BY DEF Good, LinksSoundIn
    <3>3. ASSUME NEW other \in DOMAIN d.lines \ {o}, d.lines[o].card # NoCard
          PROVE  p.lines[other].card # d.lines[o].card
      <4>1. CASE other = l
        BY <1>3, <3>1, <4>1
      <4>2. CASE other # l
        BY <1>2, <3>2, <3>3, <4>2
      <4> QED
        BY <4>1, <4>2
    <3> QED
      BY <3>1, <3>2, <3>3
  <2> QED
    BY <2>2, <2>3
<1>6. StatusBut(p, x)
  <2>1. SUFFICES ASSUME NEW doc \in DOMAIN d.docs, doc # x
                 PROVE  StatusOf(p, doc) = StatusOf(d, doc)
    BY <1>2 DEF Good, StatusBut
  <2>2. LinesOf(p, doc) = LinesOf(d, doc)
    BY <1>0, <1>2, <1>3, <2>1 DEF LinesOf
  <2>3. \A o \in LinesOf(d, doc) : p.lines[o] = d.lines[o]
    BY <1>0, <1>2, <2>1 DEF LinesOf
  <2> QED
    BY <2>2, <2>3, SameStatus
<1> QED
  BY <1>2, <1>4, <1>5, <1>6 DEF Good, p

-----------------------------------------------------------------------------
(* A line is accepted, or the request raises. *)

LEMMA AcceptKeeps ==
  ASSUME NEW d, NEW x, Good(d, x), NEW l \in LinesOf(d, x), NEW given,
         NEW e \in AcceptResults(d, l, given)
  PROVE  Good(e, x) /\ e.docs = d.docs
<1>1. CanAccept(d, l)
  BY DEF AcceptResults
<1> DEFINE n == MergedNumber(d.lines[l], given)
           s == MergedSerial(d.lines[l], given)
<1>2. CASE \E c \in CardOfSerial(d, d.lines[l].serial) :
             CanLink(d, l, c, given) /\ e = LinkToExisting(d, l, c, given)
  <2>1. PICK c \in CardOfSerial(d, d.lines[l].serial) :
          CanLink(d, l, c, given) /\ e = LinkToExisting(d, l, c, given)
    BY <1>2
  <2> DEFINE f == Filled(d, c, n)
  <2>2. c \in DOMAIN d.cards
    BY DEF CardOfSerial, WithSerial
  <2>3. Good(f, x) /\ f.lines = d.lines /\ f.docs = d.docs /\ DOMAIN f.cards = DOMAIN d.cards
    BY FilledKeeps
  <2>4. e = Linked(f, l, c, Existing)
    BY <2>1 DEF LinkToExisting
  <2>5. \A other \in DOMAIN f.lines \ {l} : f.lines[other].card # c
    BY <2>1, <2>3 DEF CanLink
  <2> HIDE DEF f
  <2>6. l \in LinesOf(f, x)
    BY <2>3 DEF LinesOf
  <2> QED
    BY <2>2, <2>3, <2>4, <2>5, <2>6, LinkKeeps
<1>3. CASE e = CreateAndLink(d, l, given)
  <2> DEFINE f == PutCard(d, [serial |-> s, number |-> n])
             c == d.lastCard + 1
  <2>1. /\ Good(f, x) /\ f.lines = d.lines /\ f.docs = d.docs
        /\ c \in DOMAIN f.cards
        /\ \A other \in DOMAIN d.lines : d.lines[other].card # c
    BY PutCardKeeps
  <2>2. e = Linked(f, l, c, Accepted)
    BY <1>3 DEF CreateAndLink
  <2> HIDE DEF f, c
  <2>3. l \in LinesOf(f, x)
    BY <2>1 DEF LinesOf
  <2> QED
    BY <2>1, <2>2, <2>3, LinkKeeps
<1> QED
  BY <1>1, <1>2, <1>3 DEF AcceptResults

\* refresh_status_in_db brings the document up to its lines.
LEMMA RefreshKeeps ==
  ASSUME NEW d, NEW doc \in DOMAIN d.docs, Good(d, doc)
  PROVE  Good(Refreshed(d, doc), NoDoc)
<1>1. CASE d.docs[doc] = DocClosed
  BY <1>1 DEF Refreshed, Good, StatusBut
<1>2. CASE d.docs[doc] # DocClosed
  <2> DEFINE status == StatusOf(d, doc)
             p == [d EXCEPT !.docs[doc] = status]
  <2>1. Shape(d) /\ DOMAIN d.docs = 1..Len(d.docs) /\ Len(d.docs) \in Nat
    BY DEF Good, Shape
  <2>2. status \in DocStates
    BY DEF StatusOf, DocStates
  <2> HIDE DEF status
  <2>3. /\ DOMAIN p = DOMAIN d
        /\ p.cards = d.cards /\ p.lines = d.lines /\ p.lastCard = d.lastCard
        /\ p.docs = [d.docs EXCEPT ![doc] = status]
    BY <2>1 DEF Shape
  <2> HIDE DEF p
  <2>4. /\ p.docs \in Seq(DocStates) /\ DOMAIN p.docs = DOMAIN d.docs
        /\ p.docs[doc] = status
        /\ \A o \in DOMAIN d.docs \ {doc} : p.docs[o] = d.docs[o]
    BY <2>1, <2>2, <2>3 DEF Shape
  <2>5. Shape(p)
    BY <2>1, <2>3, <2>4 DEF Shape
  <2>6. LinksSoundIn(p)
    BY <2>3 DEF Good, LinksSoundIn
  <2>7. \A o : StatusOf(p, o) = StatusOf(d, o)
    BY <2>3 DEF StatusOf, LinesOf
  <2>8. StatusBut(p, NoDoc)
    BY <2>4, <2>7 DEF Good, StatusBut, status
  <2> QED
    BY <1>2, <2>5, <2>6, <2>8 DEF Good, Refreshed, p, status
<1> QED
  BY <1>1, <1>2

\* Lines are appended to an open or a new document, none of them processed.
LEMMA AppendKeeps ==
  ASSUME NEW d, Good(d, NoDoc), NEW doc \in Nat \ {0}, NEW docs \in Seq(DocStates),
         \/ docs = d.docs /\ doc \in DOMAIN d.docs
         \/ docs = Append(d.docs, DocWaiting) /\ doc = Len(d.docs) + 1,
         NEW new \in Seq(LineShape),
         \A i \in DOMAIN new :
           /\ new[i].doc = doc
           /\ new[i].card = NoCard
           /\ new[i].state \in {Waiting, Existing, Duplicate, Wrong},
         NEW e, DOMAIN e = DOMAIN d, e.cards = d.cards, e.lastCard = d.lastCard,
         e.docs = docs, e.lines = d.lines \o new
  PROVE  Good(e, doc) /\ (doc \notin DOMAIN d.docs => Good(e, NoDoc))
<1>1. /\ Shape(d) /\ DOMAIN d.docs = 1..Len(d.docs) /\ Len(d.docs) \in Nat
      /\ DOMAIN d.lines = 1..Len(d.lines) /\ Len(d.lines) \in Nat
      /\ DOMAIN new = 1..Len(new) /\ Len(new) \in Nat
      /\ d.lines \in Seq(LineShape) /\ d.docs \in Seq(DocStates)
  BY DEF Good, Shape
<1>2. /\ e.lines \in Seq(LineShape)
      /\ DOMAIN e.lines = 1..Len(d.lines) + Len(new)
      /\ \A o \in DOMAIN d.lines : e.lines[o] = d.lines[o]
      /\ \A o \in DOMAIN e.lines \ DOMAIN d.lines :
           o - Len(d.lines) \in DOMAIN new /\ e.lines[o] = new[o - Len(d.lines)]
  BY <1>1
<1>3. \A o \in DOMAIN e.lines \ DOMAIN d.lines :
        /\ e.lines[o].doc = doc
        /\ e.lines[o].card = NoCard
        /\ e.lines[o].state \in {Waiting, Existing, Duplicate, Wrong}
  BY <1>2
<1>4. /\ DOMAIN d.docs \subseteq DOMAIN e.docs
      /\ doc \in DOMAIN e.docs
      /\ DOMAIN e.docs = DOMAIN d.docs \cup {doc}
      /\ \A o \in DOMAIN d.docs : e.docs[o] = d.docs[o]
      /\ doc \notin DOMAIN d.docs => e.docs[doc] = DocWaiting
  <2>1. CASE docs = d.docs /\ doc \in DOMAIN d.docs
    BY <2>1
  <2>2. CASE docs = Append(d.docs, DocWaiting) /\ doc = Len(d.docs) + 1
    <3>1. DocWaiting \in DocStates
      BY DEF DocStates
    <3>2. /\ Len(docs) = Len(d.docs) + 1
          /\ DOMAIN docs = 1..Len(d.docs) + 1
          /\ docs[Len(d.docs) + 1] = DocWaiting
          /\ \A o \in 1..Len(d.docs) : docs[o] = d.docs[o]
      BY <1>1, <2>2, <3>1
    <3>3. DOMAIN docs = DOMAIN d.docs \cup {doc} /\ doc \notin DOMAIN d.docs
      BY <1>1, <2>2, <3>2
    <3> QED
      BY <1>1, <2>2, <3>2, <3>3
  <2> QED
    BY <2>1, <2>2
<1>5. DOMAIN d.lines \subseteq DOMAIN e.lines
  BY <1>1, <1>2
<1>6. Shape(e)
  BY <1>1, <1>2, <1>3, <1>4 DEF Shape
<1>7. LinksSoundIn(e)
  <2>1. SUFFICES ASSUME NEW o \in DOMAIN e.lines
        PROVE  /\ e.lines[o].state = Accepted => e.lines[o].card # NoCard
               /\ e.lines[o].card # NoCard =>
                    /\ e.lines[o].card \in DOMAIN d.cards
                    /\ e.lines[o].state \in {Accepted, Existing}
                    /\ \A other \in DOMAIN e.lines \ {o} : e.lines[other].card # e.lines[o].card
    BY DEF LinksSoundIn
  <2>2. CASE o \in DOMAIN d.lines
    <3>1. e.lines[o] = d.lines[o]
      BY <1>2, <2>2
    <3>2. /\ d.lines[o].state = Accepted => d.lines[o].card # NoCard
          /\ d.lines[o].card # NoCard =>
               /\ d.lines[o].card \in DOMAIN d.cards
               /\ d.lines[o].state \in {Accepted, Existing}
               /\ \A other \in DOMAIN d.lines \ {o} : d.lines[other].card # d.lines[o].card
      BY <2>2 DEF Good, LinksSoundIn
    <3>3. ASSUME NEW other \in DOMAIN e.lines \ {o}, d.lines[o].card # NoCard
          PROVE  e.lines[other].card # d.lines[o].card
      <4>1. CASE other \in DOMAIN d.lines
        BY <1>2, <3>2, <3>3, <4>1
      <4>2. CASE other \notin DOMAIN d.lines
        BY <1>3, <3>3, <4>2
      <4> QED
        BY <4>1, <4>2
    <3> QED
      BY <3>1, <3>2, <3>3
  <2>3. CASE o \notin DOMAIN d.lines
    BY <1>3, <2>3 DEF Accepted, Waiting, Existing, Duplicate, Wrong
  <2> QED
    BY <2>2, <2>3
<1>8. ASSUME NEW o \in DOMAIN d.docs, o # doc
      PROVE  StatusOf(e, o) = StatusOf(d, o)
  <2>1. LinesOf(e, o) = LinesOf(d, o)
    BY <1>2, <1>3, <1>5, <1>8 DEF LinesOf
  <2>2. \A l \in LinesOf(d, o) : e.lines[l] = d.lines[l]
    BY <1>2 DEF LinesOf
  <2> QED
    BY <2>1, <2>2, SameStatus
<1>9. StatusBut(e, doc)
  <2>1. SUFFICES ASSUME NEW o \in DOMAIN e.docs, o # doc, e.docs[o] # DocClosed
                 PROVE  e.docs[o] = StatusOf(e, o)
    BY DEF StatusBut
  <2>2. o \in DOMAIN d.docs /\ e.docs[o] = d.docs[o] /\ o # NoDoc
    BY <1>1, <1>4, <2>1 DEF NoDoc
  <2> QED
    BY <1>8, <2>1, <2>2 DEF Good, StatusBut
<1>10. ASSUME doc \notin DOMAIN d.docs
       PROVE  StatusOf(e, doc) = DocWaiting
  <2>1. ASSUME NEW o \in LinesOf(e, doc)
        PROVE  ~IsProcessed(e.lines[o])
    <3>1. o \in DOMAIN e.lines /\ e.lines[o].doc = doc
      BY <2>1 DEF LinesOf
    <3>2. o \notin DOMAIN d.lines
      BY <1>1, <1>2, <1>10, <3>1 DEF Shape
    <3> QED
      BY <1>3, <3>1, <3>2 DEF IsProcessed, Accepted, Waiting, Existing, Duplicate, Wrong
  <2>2. {o \in LinesOf(e, doc) : IsProcessed(e.lines[o])} = {}
    BY <2>1
  <2> QED
    BY <2>2 DEF StatusOf
<1>11. ASSUME doc \notin DOMAIN d.docs
       PROVE  StatusBut(e, NoDoc)
  BY <1>4, <1>9, <1>10, <1>11 DEF StatusBut
<1> QED
  BY <1>6, <1>7, <1>9, <1>11 DEF Good

LEMMA NoDocIsNoDocument ==
  ASSUME NEW d, NEW x, Good(d, NoDoc)
  PROVE  Good(d, x)
<1>1. DOMAIN d.docs = 1..Len(d.docs) /\ Len(d.docs) \in Nat
  BY DEF Good, Shape
<1>2. \A doc \in DOMAIN d.docs : doc # NoDoc
  BY <1>1 DEF NoDoc
<1> QED
  BY <1>2 DEF Good, StatusBut

-----------------------------------------------------------------------------
(* The requests. *)

LEMMA PreviewSteps ==
  ASSUME IInv
  PROVE  /\ \A file \in Files : Preview(file) => IInv'
         /\ ForgetPreview => IInv'
<1>1. ASSUME NEW file \in Files, Preview(file)
      PROVE  IInv'
  <2> DEFINE new == [i \in DOMAIN file |->
                       [serial |-> file[i].serial, number |-> file[i].number,
                        state |-> RowState(file, i)]]
  <2>1. file \in Seq(FileRow) /\ DOMAIN file = 1..Len(file) /\ Len(file) \in Nat
    BY DeliveryInputs
  <2>2. \A i \in DOMAIN file : RowState(file, i) \in {Waiting, Existing, Duplicate, Wrong}
    <3>1. ASSUME NEW i \in DOMAIN file
          PROVE  RowState(file, i) = Wrong \/ RowState(file, i) = Duplicate
                   \/ RowState(file, i) = Existing \/ RowState(file, i) = Waiting
      BY Zenon DEF RowState
    <3> QED
      BY <3>1
  <2>3. \A i \in DOMAIN file : file[i].serial \in SerialText /\ file[i].number \in NumberText
    <3>1. \A i \in DOMAIN file : file[i] \in FileRow
      BY ONLY <2>1
    <3> QED
      BY <3>1 DEF FileRow
  <2>4. new \in Seq(Analyzed)
    BY <2>1, <2>2, <2>3 DEF Analyzed
  <2>5. previews' = previews \cup {new} /\ db' = db /\ batch' = batch
    BY <1>1 DEF Preview
  <2> HIDE DEF new
  <2> QED
    BY <2>4, <2>5 DEF IInv
<1>2. ForgetPreview => IInv'
  BY DEF ForgetPreview, IInv
<1> QED
  BY <1>1, <1>2

LEMMA ConfirmStep ==
  ASSUME IInv, NEW preview \in previews, ConfirmDocument(preview)
  PROVE  IInv'
<1> DEFINE doc == Len(db.docs) + 1
           new == [i \in DOMAIN preview |-> NewLine(doc, preview[i], preview[i].state)]
<1>1. /\ Good(db, NoDoc) /\ DOMAIN db = {"cards", "lastCard", "lines", "docs"}
      /\ db.docs \in Seq(DocStates) /\ db.lines \in Seq(LineShape)
      /\ Len(db.docs) \in Nat /\ DOMAIN db.docs = 1..Len(db.docs)
  BY DEF IInv, Good, Shape
<1>2. /\ preview \in Seq(Analyzed)
      /\ DOMAIN preview = 1..Len(preview) /\ Len(preview) \in Nat
  BY DEF IInv
<1>3. doc \in Nat \ {0} /\ doc \notin DOMAIN db.docs
  BY <1>1
<1>4. \A i \in DOMAIN preview :
        /\ preview[i].serial \in SerialText /\ preview[i].number \in NumberText
        /\ preview[i].state \in {Waiting, Existing, Duplicate, Wrong}
        /\ preview[i].state \in LineStates
  <2>1. \A i \in DOMAIN preview : preview[i] \in Analyzed
    BY <1>2
  <2> QED
    BY <2>1 DEF Analyzed, LineStates
<1> HIDE DEF doc
<1>5. \A i \in DOMAIN preview :
        /\ new[i] \in LineShape /\ new[i].doc = doc /\ new[i].card = NoCard
        /\ new[i].state \in {Waiting, Existing, Duplicate, Wrong}
  BY <1>3, <1>4 DEF NewLine, LineShape, NoCard
<1>6. new \in Seq(LineShape) /\ DOMAIN new = DOMAIN preview
  BY <1>2, <1>5
<1>7. /\ DOMAIN db' = DOMAIN db /\ db'.cards = db.cards /\ db'.lastCard = db.lastCard
      /\ db'.docs = Append(db.docs, DocWaiting) /\ db'.lines = db.lines \o new
      /\ previews' = previews \ {preview} /\ batch' = batch /\ batch = NoBatch
  BY <1>1 DEF ConfirmDocument, doc, Idle
<1> HIDE DEF new
<1>8. Append(db.docs, DocWaiting) \in Seq(DocStates)
  BY <1>1 DEF DocStates
<1>9. Good(db', NoDoc)
  BY <1>1, <1>3, <1>5, <1>6, <1>7, <1>8, AppendKeeps DEF doc
<1> QED
  BY <1>7, <1>9 DEF IInv

LEMMA CloseStep ==
  ASSUME IInv, NEW doc \in DOMAIN db.docs, CloseDelivery(doc)
  PROVE  IInv'
<1>1. /\ Shape(db) /\ Good(db, NoDoc) /\ db.docs \in Seq(DocStates)
      /\ DOMAIN db = {"cards", "lastCard", "lines", "docs"}
  BY DEF IInv, Good, Shape
<1>2. /\ DOMAIN db' = DOMAIN db /\ db'.cards = db.cards /\ db'.lastCard = db.lastCard
      /\ db'.lines = db.lines /\ db'.docs = [db.docs EXCEPT ![doc] = DocClosed]
      /\ previews' = previews /\ batch' = batch /\ batch = NoBatch
  BY <1>1 DEF CloseDelivery, Idle
<1>3. DocClosed \in DocStates
  BY DEF DocStates
<1>4. /\ db'.docs \in Seq(DocStates) /\ DOMAIN db'.docs = DOMAIN db.docs
      /\ db'.docs[doc] = DocClosed
      /\ \A o \in DOMAIN db.docs \ {doc} : db'.docs[o] = db.docs[o]
  BY <1>1, <1>2, <1>3
<1>5. Shape(db')
  BY <1>1, <1>2, <1>4 DEF Shape
<1>6. LinksSoundIn(db')
  BY <1>1, <1>2 DEF Good, LinksSoundIn
<1>7. \A o : StatusOf(db', o) = StatusOf(db, o)
  BY <1>2 DEF StatusOf, LinesOf
<1>8. StatusBut(db', NoDoc)
  BY <1>1, <1>4, <1>7 DEF Good, StatusBut
<1> QED
  BY <1>2, <1>5, <1>6, <1>8 DEF IInv, Good

LEMMA UpdateStep ==
  ASSUME IInv, NEW doc, NEW ids, NEW n \in NumberText, NEW onlyEmpty,
         UpdateLines(doc, ids, n, onlyEmpty)
  PROVE  IInv'
<1>1. /\ Shape(db) /\ Good(db, NoDoc) /\ db.lines \in Seq(LineShape)
      /\ DOMAIN db = {"cards", "lastCard", "lines", "docs"}
      /\ Len(db.lines) \in Nat /\ DOMAIN db.lines = 1..Len(db.lines)
  BY DEF IInv, Good, Shape
<1> DEFINE edit(l) == /\ l \in ids \cap LinesOf(db, doc)
                      /\ ~IsLinked(db.lines[l])
                      /\ ~(onlyEmpty /\ db.lines[l].number # NoNumber)
<1>2. /\ DOMAIN db' = DOMAIN db /\ db'.cards = db.cards /\ db'.lastCard = db.lastCard
      /\ db'.docs = db.docs
      /\ db'.lines = [l \in DOMAIN db.lines |->
                        IF edit(l) THEN [db.lines[l] EXCEPT !.number = n] ELSE db.lines[l]]
      /\ previews' = previews /\ batch' = batch /\ batch = NoBatch
  BY <1>1 DEF UpdateLines, Idle
<1> HIDE DEF edit
<1>3. ASSUME NEW l \in DOMAIN db.lines
      PROVE  /\ db'.lines[l] \in LineShape
             /\ db'.lines[l].doc = db.lines[l].doc
             /\ db'.lines[l].state = db.lines[l].state
             /\ db'.lines[l].card = db.lines[l].card
  <2>1. db.lines[l] \in LineShape
    BY <1>1
  <2>2. db'.lines[l] = db.lines[l] \/ db'.lines[l] = [db.lines[l] EXCEPT !.number = n]
    BY <1>2
  <2> QED
    BY <2>1, <2>2 DEF LineShape
<1>4. db'.lines \in Seq(LineShape) /\ DOMAIN db'.lines = DOMAIN db.lines
  <2>1. DOMAIN db'.lines = DOMAIN db.lines /\ db'.lines = [l \in 1..Len(db.lines) |-> db'.lines[l]]
    BY <1>1, <1>2
  <2> QED
    BY <1>1, <1>3, <2>1
<1>5. Shape(db')
  BY <1>1, <1>2, <1>3, <1>4 DEF Shape
<1>6. LinksSoundIn(db')
  BY <1>1, <1>2, <1>3, <1>4 DEF Good, LinksSoundIn
<1>7. ASSUME NEW o PROVE StatusOf(db', o) = StatusOf(db, o)
  <2>1. LinesOf(db', o) = LinesOf(db, o)
    BY <1>3, <1>4 DEF LinesOf
  <2>2. \A l \in LinesOf(db, o) :
          /\ IsProcessed(db'.lines[l]) = IsProcessed(db.lines[l])
          /\ db'.lines[l].state = db.lines[l].state
    BY <1>3 DEF LinesOf, IsProcessed
  <2>3. /\ {l \in LinesOf(db', o) : IsProcessed(db'.lines[l])}
             = {l \in LinesOf(db, o) : IsProcessed(db.lines[l])}
        /\ {l \in LinesOf(db', o) : db'.lines[l].state = Waiting}
             = {l \in LinesOf(db, o) : db.lines[l].state = Waiting}
    BY <2>1, <2>2
  <2> QED
    BY <2>3 DEF StatusOf
<1>8. StatusBut(db', NoDoc)
  BY <1>1, <1>2, <1>7 DEF Good, StatusBut
<1> QED
  BY <1>2, <1>5, <1>6, <1>8 DEF IInv, Good

\* The line accept_unplanned_delivery_serial adds before it accepts it.
LEMMA UnplannedLine ==
  ASSUME Good(db, NoDoc), NEW doc \in DOMAIN db.docs, NEW s \in Serials, NEW given \in Givens
  PROVE  LET u == WithUnplanned(db, doc, s, given.number)
             l == Len(db.lines) + 1 IN
         /\ Good(u, doc) /\ l \in LinesOf(u, doc)
         /\ u.cards = db.cards /\ u.docs = db.docs
         /\ l \notin DOMAIN db.lines /\ DOMAIN u.lines = DOMAIN db.lines \cup {l}
         /\ \A o \in DOMAIN db.lines : u.lines[o] = db.lines[o]
         /\ u.lines[l].card = NoCard
<1> DEFINE l == Len(db.lines) + 1
           line == NewLine(doc, [serial |-> s, number |-> given.number], Waiting)
           u == WithUnplanned(db, doc, s, given.number)
<1>1. /\ DOMAIN db = {"cards", "lastCard", "lines", "docs"}
      /\ db.lines \in Seq(LineShape) /\ db.docs \in Seq(DocStates)
      /\ Len(db.lines) \in Nat /\ DOMAIN db.lines = 1..Len(db.lines)
      /\ doc \in Nat \ {0}
  BY DEF Good, Shape
<1>2. /\ line \in LineShape /\ line.doc = doc /\ line.card = NoCard
      /\ line.state = Waiting
  <2>1. given.number \in NumberText
    BY DeliveryInputs DEF Given
  <2> QED
    BY <1>1, <2>1 DEF NewLine, LineShape, SerialText, LineStates, NoCard
<1>3. /\ DOMAIN u = DOMAIN db /\ u.cards = db.cards /\ u.lastCard = db.lastCard
      /\ u.docs = db.docs /\ u.lines = Append(db.lines, line)
  BY <1>1 DEF WithUnplanned
<1> HIDE DEF line, u
<1>4. /\ <<line>> \in Seq(LineShape) /\ DOMAIN <<line>> = {1} /\ <<line>>[1] = line
      /\ Append(db.lines, line) = db.lines \o <<line>>
      /\ DOMAIN u.lines = DOMAIN db.lines \cup {l} /\ l \notin DOMAIN db.lines
      /\ u.lines[l] = line
      /\ \A o \in DOMAIN db.lines : u.lines[o] = db.lines[o]
  BY <1>1, <1>2, <1>3
<1>5. Good(u, doc)
  <2>1. \A i \in DOMAIN <<line>> :
          /\ <<line>>[i].doc = doc /\ <<line>>[i].card = NoCard
          /\ <<line>>[i].state \in {Waiting, Existing, Duplicate, Wrong}
    BY <1>2, <1>4
  <2>2. u.lines = db.lines \o <<line>> /\ <<line>> \in Seq(LineShape)
    BY <1>3, <1>4
  <2> DEFINE new == <<line>>
  <2> HIDE DEF new
  <2> QED
    BY ONLY Good(db, NoDoc), doc \in DOMAIN db.docs, <1>1, <1>3, <2>1, <2>2, AppendKeeps DEF new
<1>6. l \in LinesOf(u, doc)
  BY <1>2, <1>4 DEF LinesOf
<1> QED
  BY <1>2, <1>3, <1>4, <1>5, <1>6 DEF u

LEMMA AcceptSteps ==
  ASSUME IInv, NEW doc \in DOMAIN db.docs, NEW s \in Serials, NEW given \in Givens
  PROVE  /\ AcceptSerial(doc, s, given) => IInv'
         /\ AcceptUnplanned(doc, s, given) => IInv'
<1>1. Good(db, NoDoc) /\ Good(db, doc)
  BY NoDocIsNoDocument DEF IInv
<1>2. ASSUME AcceptSerial(doc, s, given)
      PROVE  IInv'
  <2>0. PICK l \in FirstLine(db, doc, s) :
          \E e \in AcceptResults(db, l, given) : db' = Refreshed(e, doc)
    BY <1>2 DEF AcceptSerial
  <2>1. PICK e \in AcceptResults(db, l, given) : db' = Refreshed(e, doc)
    BY <2>0
  <2>2. l \in LinesOf(db, doc)
    BY DEF FirstLine, LinesWithSerial
  <2>3. Good(e, doc) /\ doc \in DOMAIN e.docs
    BY <1>1, <2>2, AcceptKeeps
  <2>4. Good(db', NoDoc)
    BY <2>1, <2>3, RefreshKeeps
  <2> QED
    BY <1>2, <2>4 DEF AcceptSerial, IInv, Idle
<1>3. ASSUME AcceptUnplanned(doc, s, given)
      PROVE  IInv'
  <2> DEFINE l == Len(db.lines) + 1
             u == WithUnplanned(db, doc, s, given.number)
  <2>1. PICK e \in AcceptResults(u, l, given) : db' = Refreshed(e, doc)
    BY <1>3 DEF AcceptUnplanned
  <2>2. Good(u, doc) /\ l \in LinesOf(u, doc) /\ u.docs = db.docs
    BY <1>1, UnplannedLine
  <2> HIDE DEF l, u
  <2>3. Good(e, doc) /\ doc \in DOMAIN e.docs
    BY <2>2, AcceptKeeps
  <2>4. Good(db', NoDoc)
    BY <2>1, <2>3, RefreshKeeps
  <2> QED
    BY <1>3, <2>4 DEF AcceptUnplanned, IInv, Idle
<1> QED
  BY <1>2, <1>3

LEMMA BatchSteps ==
  ASSUME IInv
  PROVE  /\ \A doc \in DOMAIN db.docs : \A ids, given : BeginBatch(doc, ids, given) => IInv'
         /\ BatchStep => IInv'
         /\ Crash => IInv'
<1>1. ASSUME NEW doc \in DOMAIN db.docs, NEW ids, NEW given, BeginBatch(doc, ids, given)
      PROVE  IInv'
  <2>1. Good(db, doc)
    BY NoDocIsNoDocument DEF IInv
  <2>2. /\ DOMAIN batch' = {"doc", "ids", "given", "at", "tables"}
        /\ batch'.doc = doc /\ batch'.tables = db /\ db' = db /\ previews' = previews
    BY <1>1 DEF BeginBatch
  <2> QED
    BY <2>1, <2>2 DEF IInv
<1>2. ASSUME AcceptRow
      PROVE  IInv'
  <2> DEFINE l == batch.ids[batch.at]
  <2>1. PICK e \in RowResults :
          batch' = [batch EXCEPT !.tables = e, !.at = batch.at + 1]
    BY <1>2 DEF AcceptRow
  <2>2. /\ DOMAIN batch = {"doc", "ids", "given", "at", "tables"}
        /\ batch.doc \in DOMAIN batch.tables.docs
        /\ Good(batch.tables, batch.doc) /\ db' = db /\ previews' = previews
    BY <1>2 DEF AcceptRow, InBatch, IInv
  <2>3. l \in LinesOf(batch.tables, batch.doc) /\ e \in AcceptResults(batch.tables, l, batch.given)
    BY <2>1 DEF RowResults
  <2>4. Good(e, batch.doc) /\ e.docs = batch.tables.docs
    BY <2>2, <2>3, AcceptKeeps
  <2>5. /\ DOMAIN batch' = DOMAIN batch /\ batch'.doc = batch.doc /\ batch'.tables = e
    BY ONLY <2>1, <2>2
  <2> QED
    BY <2>2, <2>4, <2>5 DEF IInv
<1>3. ASSUME RefuseRow
      PROVE  IInv'
  BY <1>3 DEF RefuseRow, IInv
<1>4. ASSUME CommitBatch
      PROVE  IInv'
  <2>1. Good(Refreshed(batch.tables, batch.doc), NoDoc)
    BY <1>4, RefreshKeeps DEF CommitBatch, InBatch, IInv
  <2> QED
    BY <1>4, <2>1 DEF CommitBatch, IInv
<1>5. ASSUME Crash
      PROVE  IInv'
  BY <1>5 DEF Crash, IInv
<1> QED
  BY <1>1, <1>2, <1>3, <1>4, <1>5 DEF BatchStep

LEMMA CardSteps ==
  ASSUME IInv
  PROVE  /\ \A s, n : ReceiveCard(s, n) => IInv'
         /\ \A c, s : CorrectSerial(c, s) => IInv'
         /\ \A c : DeleteDuplicate(c) => IInv'
<1>0. /\ Good(db, NoDoc) /\ DOMAIN db = {"cards", "lastCard", "lines", "docs"}
      /\ db.lastCard \in Nat /\ DOMAIN db.cards \subseteq 1..db.lastCard
  BY DEF IInv, Good, Shape
<1>1. ASSUME NEW s, NEW n, ReceiveCard(s, n)
      PROVE  IInv'
  <2>1. db' = PutCard(db, [serial |-> s, number |-> n])
    BY <1>1 DEF ReceiveCard
  <2>2. Good(db', NoDoc)
    BY <1>0, <2>1, PutCardKeeps
  <2> QED
    BY <1>1, <2>2 DEF ReceiveCard, IInv, Idle
<1>2. ASSUME NEW c, NEW s, CorrectSerial(c, s)
      PROVE  IInv'
  <2>1. /\ DOMAIN db' = DOMAIN db /\ db'.lines = db.lines /\ db'.docs = db.docs
        /\ db'.lastCard = db.lastCard /\ DOMAIN db'.cards = DOMAIN db.cards
    BY <1>0, <1>2 DEF CorrectSerial
  <2>2. Good(db', NoDoc)
    BY <1>0, <2>1, CardsChangeKeeps
  <2> QED
    BY <1>2, <2>2 DEF CorrectSerial, IInv, Idle
<1>3. ASSUME NEW c, DeleteDuplicate(c)
      PROVE  IInv'
  <2>1. /\ DOMAIN db' = DOMAIN db /\ db'.lines = db.lines /\ db'.docs = db.docs
        /\ db'.lastCard = db.lastCard /\ DOMAIN db'.cards = DOMAIN db.cards \ {c}
    BY <1>0, <1>3 DEF DeleteDuplicate, Restrict
  <2>2. \A l \in DOMAIN db.lines : db.lines[l].card # c
    BY <1>3 DEF DeleteDuplicate
  <2>3. Good(db', NoDoc)
    BY <1>0, <2>1, <2>2, CardsChangeKeeps
  <2> QED
    BY <1>3, <2>3 DEF DeleteDuplicate, IInv, Idle
<1> QED
  BY <1>1, <1>2, <1>3

-----------------------------------------------------------------------------
(* The invariant, and what it is for. *)

LEMMA InitGood == Init => IInv
<1>1. SUFFICES ASSUME Init PROVE IInv
  OBVIOUS
<1>2. PICK cards \in StartCards :
        db = [cards |-> cards, lastCard |-> Len(cards), lines |-> <<>>, docs |-> <<>>]
  BY <1>1 DEF Init
<1>3. cards \in Seq(Card) /\ Len(cards) \in Nat /\ DOMAIN cards = 1..Len(cards)
  BY DeliveryInputs
<1>4. /\ DOMAIN db = {"cards", "lastCard", "lines", "docs"}
      /\ db.cards = cards /\ db.lastCard = Len(cards)
      /\ db.lines = <<>> /\ db.docs = <<>>
  BY <1>2
<1>5. Good(db, NoDoc)
  BY <1>3, <1>4 DEF Good, Shape, LinksSoundIn, StatusBut
<1> QED
  BY <1>1, <1>5 DEF Init, IInv

\* IInv holds in every reachable state of the deliveries.
THEOREM Invariance == Spec => []IInv
<1>1. IInv /\ [Next]_vars => IInv'
  <2>1. SUFFICES ASSUME IInv, [Next]_vars PROVE IInv'
    OBVIOUS
  <2>2. CASE UNCHANGED vars
    BY <2>1, <2>2 DEF vars, IInv
  <2>3. CASE Next
    BY <2>1, <2>3, PreviewSteps, ConfirmStep, CloseStep, UpdateStep, AcceptSteps,
       BatchSteps, CardSteps DEF Next
  <2> QED
    BY <2>1, <2>2, <2>3
<1> QED
  BY <1>1, InitGood, PTL DEF Spec

\* However acceptances, batches, corrections and deletions alternate, a line that
\* is accepted or linked has a card, the card is there, and no other line has it
\* (delivery_acceptance.py:216-296, receipt_repository.py:436).
THEOREM LinksAreSound == Spec => []LinksSound
<1>1. IInv => LinksSound
  BY DEF IInv, Good, LinksSound, InBatch
<1> QED
  BY <1>1, Invariance, PTL

\* The status of an open document is the one its lines call for after every
\* request (delivery_repository.py:265-286).
THEOREM StatusIsCurrent == Spec => []StatusFollowsLines
<1>1. IInv => StatusFollowsLines
  <2>1. SUFFICES ASSUME IInv, NEW doc \in DOMAIN db.docs, db.docs[doc] # DocClosed
                 PROVE  db.docs[doc] = StatusOf(db, doc)
    BY DEF StatusFollowsLines
  <2>2. DOMAIN db.docs = 1..Len(db.docs) /\ Len(db.docs) \in Nat
    BY <2>1 DEF IInv, Good, Shape
  <2>3. doc # NoDoc
    BY <2>2 DEF NoDoc
  <2> QED
    BY <2>1, <2>3 DEF IInv, Good, StatusBut
<1> QED
  BY <1>1, Invariance, PTL

-----------------------------------------------------------------------------
(* Which card stands for an S/N. A linked card is the first of its S/N, and *)
(* an open transaction has linked the lines it is past and no other.       *)

IsFirst(d, c) == c \in CardOfSerial(d, d.cards[c].serial)

Firsts(d) ==
  /\ \A c \in DOMAIN d.cards : DOMAIN d.cards[c] = {"serial", "number"}
  /\ \A l \in DOMAIN d.lines : d.lines[l].card # NoCard => IsFirst(d, d.lines[l].card)

\* No card that is linked in d carries the S/N.
NotLinked(d, s) ==
  \A l \in DOMAIN d.lines :
    d.lines[l].card # NoCard => d.cards[d.lines[l].card].serial # s

\* e comes from d by linking the lines of done.
LinkedSince(d, e, done) ==
  /\ DOMAIN e.lines = DOMAIN d.lines
  /\ DOMAIN d.cards \subseteq DOMAIN e.cards
  /\ \A c \in DOMAIN d.cards : e.cards[c].serial = d.cards[c].serial
  /\ done \subseteq DOMAIN d.lines
  /\ \A l \in DOMAIN d.lines \ done : e.lines[l] = d.lines[l]
  /\ \A l \in done : /\ ~IsLinked(d.lines[l]) /\ IsLinked(e.lines[l])
                     /\ NotLinked(d, e.lines[l].serial)

Past == {batch.ids[i] : i \in 1 .. batch.at - 1}

OnceInv ==
  /\ IInv
  /\ Firsts(db)
  /\ batch # NoBatch =>
       /\ batch.ids \in Seq(Nat)
       /\ batch.at \in 1 .. Len(batch.ids) + 1
       /\ Firsts(batch.tables)
       /\ LinkedSince(db, batch.tables, Past)

LEMMA UnlinkedLine ==
  ASSUME NEW d, LinksSoundIn(d), NEW l \in DOMAIN d.lines
  PROVE  IsLinked(d.lines[l]) <=> d.lines[l].card # NoCard
BY DEF LinksSoundIn, IsLinked

\* Cards are added or renamed so that no first one comes after another; what is
\* linked stays.
LEMMA FirstStays ==
  ASSUME NEW d, NEW e, NEW c, IsFirst(d, c), c \in DOMAIN e.cards,
         e.cards[c].serial = d.cards[c].serial,
         \A o \in WithSerial(e, d.cards[c].serial) : o \in WithSerial(d, d.cards[c].serial)
  PROVE  IsFirst(e, c)
BY DEF IsFirst, CardOfSerial, WithSerial

\* A new card carries an S/N no card has.
LEMMA NewCardFirsts ==
  ASSUME NEW d, Shape(d), Firsts(d), LinksSoundIn(d), NEW s, NEW n, WithSerial(d, s) = {}
  PROVE  LET e == PutCard(d, [serial |-> s, number |-> n]) IN
         /\ Firsts(e) /\ e.lines = d.lines
         /\ DOMAIN e.cards = DOMAIN d.cards \cup {d.lastCard + 1}
         /\ d.lastCard + 1 \notin DOMAIN d.cards
         /\ \A c \in DOMAIN d.cards : e.cards[c] = d.cards[c]
         /\ s # NoSerial => IsFirst(e, d.lastCard + 1)
<1> DEFINE card == [serial |-> s, number |-> n]
           new == d.lastCard + 1
           e == PutCard(d, card)
<1>1. /\ e.lines = d.lines /\ DOMAIN e.cards = DOMAIN d.cards \cup {new}
      /\ new \notin DOMAIN d.cards /\ e.cards[new] = card
      /\ \A c \in DOMAIN d.cards : e.cards[c] = d.cards[c]
  BY DEF PutCard, Shape
<1>2. card.serial = s /\ DOMAIN card = {"serial", "number"}
  OBVIOUS
<1> HIDE DEF e, card
<1>3. \A c \in DOMAIN e.cards : DOMAIN e.cards[c] = {"serial", "number"}
  BY <1>1, <1>2 DEF Firsts
<1>4. ASSUME NEW c \in DOMAIN d.cards, IsFirst(d, c)
      PROVE  IsFirst(e, c)
  <2>1. d.cards[c].serial # s
    BY <1>4 DEF IsFirst, CardOfSerial, WithSerial
  <2>2. \A o \in WithSerial(e, d.cards[c].serial) : o \in WithSerial(d, d.cards[c].serial)
    BY <1>1, <1>2, <2>1 DEF WithSerial
  <2> QED
    BY <1>1, <1>4, <2>2, FirstStays
<1>5. ASSUME NEW l \in DOMAIN e.lines, e.lines[l].card # NoCard
      PROVE  IsFirst(e, e.lines[l].card)
  BY <1>1, <1>4, <1>5 DEF Firsts, LinksSoundIn
<1>6. s # NoSerial => IsFirst(e, new)
  <2>1. s # NoSerial => WithSerial(e, s) = {new}
    BY <1>1, <1>2 DEF WithSerial
  <2>2. new \in Nat
    BY DEF Shape
  <2> QED
    BY <1>1, <1>2, <2>1, <2>2 DEF IsFirst, CardOfSerial
<1>7. Firsts(e)
  BY <1>3, <1>5 DEF Firsts
<1> QED
  BY <1>1, <1>6, <1>7 DEF e, card

\* A number is filled in: no S/N changes.
LEMMA FilledFirsts ==
  ASSUME NEW d, Shape(d), Firsts(d), LinksSoundIn(d), NEW c \in DOMAIN d.cards, NEW n
  PROVE  LET e == Filled(d, c, n) IN
         /\ Firsts(e) /\ e.lines = d.lines /\ DOMAIN e.cards = DOMAIN d.cards
         /\ \A o \in DOMAIN d.cards : e.cards[o].serial = d.cards[o].serial
         /\ \A o : IsFirst(d, o) => IsFirst(e, o)
<1> DEFINE e == Filled(d, c, n)
<1>1. /\ e.lines = d.lines /\ DOMAIN e.cards = DOMAIN d.cards
      /\ \A o \in DOMAIN d.cards : /\ e.cards[o].serial = d.cards[o].serial
                                   /\ DOMAIN e.cards[o] = DOMAIN d.cards[o]
  <2>1. CASE d.cards[c].number = NoNumber
    <3>1. e = [d EXCEPT !.cards[c].number = n]
      BY <2>1 DEF Filled
    <3>2. e.lines = d.lines /\ DOMAIN e.cards = DOMAIN d.cards
      BY <3>1 DEF Shape
    <3>3. /\ \A o \in DOMAIN d.cards \ {c} : e.cards[o] = d.cards[o]
          /\ e.cards[c] = [d.cards[c] EXCEPT !.number = n]
      BY <3>1 DEF Shape
    <3>4. DOMAIN d.cards[c] = {"serial", "number"}
      BY DEF Firsts
    <3>5. e.cards[c].serial = d.cards[c].serial /\ DOMAIN e.cards[c] = DOMAIN d.cards[c]
      BY <3>3, <3>4
    <3> QED
      BY <3>2, <3>3, <3>5
  <2>2. CASE d.cards[c].number # NoNumber
    BY <2>2 DEF Filled
  <2> QED
    BY <2>1, <2>2
<1> HIDE DEF e
<1>2. ASSUME NEW o, IsFirst(d, o)
      PROVE  IsFirst(e, o)
  <2>1. o \in DOMAIN d.cards
    BY <1>2 DEF IsFirst, CardOfSerial, WithSerial
  <2>2. \A p \in WithSerial(e, d.cards[o].serial) : p \in WithSerial(d, d.cards[o].serial)
    BY <1>1 DEF WithSerial
  <2> QED
    BY <1>1, <1>2, <2>1, <2>2, FirstStays
<1>3. Firsts(e)
  BY <1>1, <1>2 DEF Firsts
<1> QED
  BY <1>1, <1>2, <1>3 DEF e

\* One line is linked to the first card of its S/N.
LEMMA LinkFirsts ==
  ASSUME NEW d, Shape(d), Firsts(d), NEW l \in DOMAIN d.lines, NEW c, IsFirst(d, c),
         NEW state
  PROVE  LET e == Linked(d, l, c, state) IN
         /\ Firsts(e) /\ e.cards = d.cards /\ DOMAIN e.lines = DOMAIN d.lines
         /\ \A o \in DOMAIN d.lines \ {l} : e.lines[o] = d.lines[o]
         /\ e.lines[l].card = c /\ e.lines[l].serial = d.lines[l].serial
<1> DEFINE e == Linked(d, l, c, state)
<1>1. DOMAIN d.lines[l] = {"doc", "serial", "number", "state", "card"}
  BY LineFacts
<1>2. /\ e.cards = d.cards /\ DOMAIN e.lines = DOMAIN d.lines
      /\ \A o \in DOMAIN d.lines \ {l} : e.lines[o] = d.lines[o]
      /\ e.lines[l] = [d.lines[l] EXCEPT !.card = c, !.state = state]
  BY DEF Linked, Shape
<1>3. e.lines[l].card = c /\ e.lines[l].serial = d.lines[l].serial
  BY <1>1, <1>2
<1> HIDE DEF e
<1>4. Firsts(e)
  <2>1. \A o \in DOMAIN e.lines : e.lines[o].card # NoCard => IsFirst(d, e.lines[o].card)
    BY <1>2, <1>3 DEF Firsts
  <2>2. \A o : IsFirst(d, o) => IsFirst(e, o)
    BY <1>2 DEF IsFirst, CardOfSerial, WithSerial
  <2> QED
    BY <1>2, <2>1, <2>2 DEF Firsts
<1> QED
  BY <1>2, <1>3, <1>4 DEF e

\* _accept_line links its line and no other, to the first card of an S/N, and no
\* linked card carried the S/N of the line.
LEMMA AcceptOnce ==
  ASSUME NEW d, NEW x, Good(d, x), Firsts(d), NEW l \in LinesOf(d, x), NEW given,
         NEW e \in AcceptResults(d, l, given)
  PROVE  /\ Firsts(e)
         /\ ~IsLinked(d.lines[l]) /\ e.lines[l].card # NoCard
         /\ e.lines[l].serial = d.lines[l].serial
         /\ NotLinked(d, d.lines[l].serial)
         /\ DOMAIN e.lines = DOMAIN d.lines
         /\ \A o \in DOMAIN d.lines \ {l} : e.lines[o] = d.lines[o]
         /\ DOMAIN d.cards \subseteq DOMAIN e.cards
         /\ \A c \in DOMAIN d.cards : e.cards[c].serial = d.cards[c].serial
<1> DEFINE s == d.lines[l].serial
           n == MergedNumber(d.lines[l], given)
           t == MergedSerial(d.lines[l], given)
<1>1. /\ Shape(d) /\ LinksSoundIn(d) /\ l \in DOMAIN d.lines
      /\ CanAccept(d, l) /\ ~IsLinked(d.lines[l]) /\ d.lines[l].card = NoCard /\ s # NoSerial
  BY DEF Good, LinesOf, AcceptResults, CanAccept, IsLinked
<1>2. CASE \E c \in CardOfSerial(d, s) :
             CanLink(d, l, c, given) /\ e = LinkToExisting(d, l, c, given)
  <2>1. PICK c \in CardOfSerial(d, s) :
          CanLink(d, l, c, given) /\ e = LinkToExisting(d, l, c, given)
    BY <1>2
  <2> DEFINE f == Filled(d, c, n)
  <2>2. c \in DOMAIN d.cards /\ d.cards[c].serial = s /\ IsFirst(d, c) /\ c # NoCard
    BY <1>1 DEF CardOfSerial, WithSerial, IsFirst, Shape, NoCard
  <2>3. /\ Firsts(f) /\ f.lines = d.lines /\ DOMAIN f.cards = DOMAIN d.cards
        /\ \A o \in DOMAIN d.cards : f.cards[o].serial = d.cards[o].serial
        /\ IsFirst(f, c)
    BY <1>1, <2>2, FilledFirsts
  <2>4. Shape(f)
    BY FilledKeeps DEF Good
  <2>5. e = Linked(f, l, c, Existing)
    BY <2>1 DEF LinkToExisting
  <2> HIDE DEF f
  <2>6. l \in DOMAIN f.lines
    BY <1>1, <2>3
  <2>7. /\ Firsts(e) /\ e.cards = f.cards /\ DOMAIN e.lines = DOMAIN f.lines
        /\ \A o \in DOMAIN f.lines \ {l} : e.lines[o] = f.lines[o]
        /\ e.lines[l].card = c /\ e.lines[l].serial = f.lines[l].serial
    BY <2>3, <2>4, <2>5, <2>6, LinkFirsts
  \* A linked twin would be the first of its S/N, hence c itself.
  <2>8. NotLinked(d, s)
    <3>1. SUFFICES ASSUME NEW o \in DOMAIN d.lines, d.lines[o].card # NoCard,
                          d.cards[d.lines[o].card].serial = s
                   PROVE  FALSE
      BY DEF NotLinked
    <3>2. d.lines[o].card \in CardOfSerial(d, s)
      BY <3>1 DEF Firsts, IsFirst
    <3>3. d.lines[o].card = c
      <4>1. c \in Nat /\ d.lines[o].card \in Nat
        BY <1>1, <2>1, <3>2 DEF CardOfSerial, WithSerial, Shape
      <4>2. c <= d.lines[o].card /\ d.lines[o].card <= c
        BY <2>1, <3>2 DEF CardOfSerial
      <4> QED
        BY <4>1, <4>2
    <3> QED
      BY <1>1, <2>1, <3>1, <3>3 DEF CanLink
  <2> QED
    BY <1>1, <2>2, <2>3, <2>7, <2>8
<1>3. CASE e = CreateAndLink(d, l, given) /\ WithSerial(d, s) = {} /\ CanCreate(d, l, given)
  <2> DEFINE f == PutCard(d, [serial |-> t, number |-> n])
             c == d.lastCard + 1
  <2>1. t # NoSerial /\ WithSerial(d, t) = {}
    BY <1>1, <1>3 DEF MergedSerial, CanCreate
  <2>2. /\ Firsts(f) /\ f.lines = d.lines /\ DOMAIN f.cards = DOMAIN d.cards \cup {c}
        /\ \A o \in DOMAIN d.cards : f.cards[o] = d.cards[o]
        /\ IsFirst(f, c)
    BY <1>1, <2>1, NewCardFirsts
  <2>3. Shape(f) /\ c # NoCard
    BY PutCardKeeps DEF Good, NoCard
  <2>4. e = Linked(f, l, c, Accepted)
    BY <1>3 DEF CreateAndLink
  <2> HIDE DEF f, c
  <2>5. l \in DOMAIN f.lines
    BY <1>1, <2>2
  <2>6. /\ Firsts(e) /\ e.cards = f.cards /\ DOMAIN e.lines = DOMAIN f.lines
        /\ \A o \in DOMAIN f.lines \ {l} : e.lines[o] = f.lines[o]
        /\ e.lines[l].card = c /\ e.lines[l].serial = f.lines[l].serial
    BY <2>2, <2>3, <2>4, <2>5, LinkFirsts
  <2>7. NotLinked(d, s)
    BY <1>1, <1>3 DEF NotLinked, WithSerial, LinksSoundIn
  <2> QED
    BY <1>1, <2>2, <2>3, <2>6, <2>7
<1> QED
  BY <1>1, <1>2, <1>3 DEF AcceptResults

\* Refreshing a status touches neither cards nor lines.
LEMMA RefreshedSame ==
  ASSUME NEW d, Shape(d), NEW doc
  PROVE  /\ Refreshed(d, doc).lines = d.lines
         /\ Refreshed(d, doc).cards = d.cards
BY DEF Refreshed, Shape

LEMMA SameCardsFirsts ==
  ASSUME NEW d, NEW e, Firsts(d), e.cards = d.cards,
         \A l \in DOMAIN e.lines : e.lines[l].card # NoCard =>
           l \in DOMAIN d.lines /\ e.lines[l].card = d.lines[l].card
  PROVE  Firsts(e)
BY DEF Firsts, IsFirst, CardOfSerial, WithSerial

\* What a step links, and why it may.
LinksOnce ==
  /\ InBatch /\ db' # db => NewlyLinked = Range(batch.ids)
  /\ \A l \in NewlyLinked : NotLinked(db, db'.lines[l].serial)

LEMMA LinksNothing ==
  ASSUME \A l \in DOMAIN db'.lines :
           \/ l \in DOMAIN db.lines /\ IsLinked(db'.lines[l]) = IsLinked(db.lines[l])
           \/ ~IsLinked(db'.lines[l]),
         ~InBatch \/ db' = db
  PROVE  LinksOnce
<1>1. NewlyLinked = {}
  BY DEF NewlyLinked
<1> QED
  BY <1>1 DEF LinksOnce

LEMMA LinksDone ==
  ASSUME NEW done, LinkedSince(db, db', done), InBatch => done = Range(batch.ids)
  PROVE  LinksOnce
<1>1. NewlyLinked = done
  BY DEF NewlyLinked, LinkedSince
<1> QED
  BY <1>1 DEF LinksOnce, LinkedSince

\* Requests that link no line.
LEMMA QuietRequests ==
  ASSUME OnceInv
  PROVE  /\ \A file \in Files : Preview(file) => Firsts(db)' /\ LinksOnce /\ batch' = NoBatch
         /\ \A doc : CloseDelivery(doc) => Firsts(db)' /\ LinksOnce /\ batch' = NoBatch
         /\ \A doc, ids, n, onlyEmpty :
              UpdateLines(doc, ids, n, onlyEmpty) => Firsts(db)' /\ LinksOnce /\ batch' = NoBatch
<1>0. /\ Firsts(db) /\ Shape(db) /\ DOMAIN db = {"cards", "lastCard", "lines", "docs"}
  BY DEF OnceInv, IInv, Good, Shape
<1>1. ASSUME NEW file \in Files, Preview(file)
      PROVE  Firsts(db)' /\ LinksOnce /\ batch' = NoBatch
  <2>1. db' = db /\ batch' = batch /\ batch = NoBatch
    BY <1>1 DEF Preview, Idle
  <2>2. LinksOnce
    BY <2>1, LinksNothing
  <2> QED
    BY <1>0, <2>1, <2>2
<1>2. ASSUME NEW doc, CloseDelivery(doc)
      PROVE  Firsts(db)' /\ LinksOnce /\ batch' = NoBatch
  <2>1. db'.lines = db.lines /\ db'.cards = db.cards /\ batch' = batch /\ batch = NoBatch
    BY <1>0, <1>2 DEF CloseDelivery, Idle
  <2>2. LinksOnce
    BY <2>1, LinksNothing DEF InBatch
  <2>3. Firsts(db')
    BY <1>0, <2>1, SameCardsFirsts
  <2> QED
    BY <2>1, <2>2, <2>3
<1>3. ASSUME NEW doc, NEW ids, NEW n, NEW onlyEmpty, UpdateLines(doc, ids, n, onlyEmpty)
      PROVE  Firsts(db)' /\ LinksOnce /\ batch' = NoBatch
  <2>1. /\ db'.cards = db.cards /\ batch' = batch /\ batch = NoBatch
        /\ DOMAIN db'.lines = DOMAIN db.lines
        /\ \A l \in DOMAIN db.lines :
             db'.lines[l] = db.lines[l] \/ db'.lines[l] = [db.lines[l] EXCEPT !.number = n]
    BY <1>0, <1>3 DEF UpdateLines, Idle
  <2>2. ASSUME NEW l \in DOMAIN db.lines
        PROVE  db'.lines[l].state = db.lines[l].state /\ db'.lines[l].card = db.lines[l].card
    <3>1. DOMAIN db.lines[l] = {"doc", "serial", "number", "state", "card"}
      BY <1>0, LineFacts
    <3> QED
      BY <2>1, <3>1
  <2>3. LinksOnce
    BY <2>1, <2>2, LinksNothing DEF InBatch, IsLinked
  <2>4. Firsts(db')
    BY <1>0, <2>1, <2>2, SameCardsFirsts
  <2> QED
    BY <2>1, <2>3, <2>4
<1> QED
  BY <1>1, <1>2, <1>3

LEMMA ConfirmQuiet ==
  ASSUME OnceInv, NEW preview \in previews, ConfirmDocument(preview)
  PROVE  Firsts(db)' /\ LinksOnce /\ batch' = NoBatch
<1> DEFINE new == [i \in DOMAIN preview |->
                     NewLine(Len(db.docs) + 1, preview[i], preview[i].state)]
<1>1. /\ Firsts(db) /\ DOMAIN db = {"cards", "lastCard", "lines", "docs"}
      /\ db.lines \in Seq(LineShape) /\ preview \in Seq(Analyzed)
      /\ Len(db.lines) \in Nat /\ DOMAIN db.lines = 1 .. Len(db.lines)
      /\ Len(preview) \in Nat /\ DOMAIN preview = 1 .. Len(preview)
  BY DEF OnceInv, IInv, Good, Shape
<1>2. /\ db'.cards = db.cards /\ db'.lines = db.lines \o new /\ batch' = batch /\ batch = NoBatch
  BY <1>1 DEF ConfirmDocument, Idle
<1>3. \A i \in DOMAIN preview : new[i].card = NoCard /\ new[i].state # Accepted
  <2>1. \A i \in DOMAIN preview : preview[i].state \in {Waiting, Existing, Duplicate, Wrong}
    <3>1. \A i \in DOMAIN preview : preview[i] \in Analyzed
      BY <1>1
    <3> QED
      BY <3>1 DEF Analyzed
  <2> QED
    BY <2>1 DEF NewLine, Accepted, Waiting, Existing, Duplicate, Wrong
<1> DEFINE Kept == {new[i] : i \in DOMAIN preview}
<1>4. new \in Seq(Kept) /\ DOMAIN new = DOMAIN preview /\ Len(new) \in Nat /\ DOMAIN new = 1 .. Len(new)
  <2>1. DOMAIN new = DOMAIN preview /\ \A i \in DOMAIN preview : new[i] \in Kept
    OBVIOUS
  <2>2. new = [i \in DOMAIN preview |-> new[i]]
    OBVIOUS
  <2> HIDE DEF new, Kept
  <2>3. new \in [1 .. Len(preview) -> Kept]
    BY <1>1, <2>1, <2>2
  <2>4. new \in Seq(Kept)
    BY <1>1, <2>3
  <2> QED
    BY <2>1, <2>4
<1> HIDE DEF new, Kept
<1>5. /\ DOMAIN db'.lines = 1 .. Len(db.lines) + Len(new)
      /\ \A l \in DOMAIN db.lines : db'.lines[l] = db.lines[l]
      /\ \A l \in DOMAIN db'.lines \ DOMAIN db.lines :
           l - Len(db.lines) \in DOMAIN preview /\ db'.lines[l] = new[l - Len(db.lines)]
  BY <1>1, <1>2, <1>4
<1>6. \A l \in DOMAIN db'.lines \ DOMAIN db.lines :
        db'.lines[l].card = NoCard /\ ~IsLinked(db'.lines[l])
  BY <1>3, <1>5 DEF IsLinked
<1>7. LinksOnce
  BY <1>2, <1>5, <1>6, LinksNothing DEF InBatch
<1>8. Firsts(db')
  BY <1>1, <1>2, <1>5, <1>6, SameCardsFirsts
<1> QED
  BY <1>2, <1>7, <1>8

LEMMA CardRequests ==
  ASSUME OnceInv
  PROVE  /\ \A s, n : ReceiveCard(s, n) => Firsts(db)' /\ LinksOnce /\ batch' = NoBatch
         /\ \A c, s : CorrectSerial(c, s) => Firsts(db)' /\ LinksOnce /\ batch' = NoBatch
         /\ \A c : DeleteDuplicate(c) => Firsts(db)' /\ LinksOnce /\ batch' = NoBatch
<1>0. /\ Firsts(db) /\ Shape(db) /\ LinksSoundIn(db)
      /\ DOMAIN db = {"cards", "lastCard", "lines", "docs"}
  BY DEF OnceInv, IInv, Good, Shape
<1>1. ASSUME NEW s, NEW n, ReceiveCard(s, n)
      PROVE  Firsts(db)' /\ LinksOnce /\ batch' = NoBatch
  <2>1. /\ db' = PutCard(db, [serial |-> s, number |-> n]) /\ WithSerial(db, s) = {}
        /\ batch' = batch /\ batch = NoBatch
    BY <1>1 DEF ReceiveCard, Idle
  <2>2. Firsts(db') /\ db'.lines = db.lines
    BY <1>0, <2>1, NewCardFirsts
  <2>3. LinksOnce
    BY <2>1, <2>2, LinksNothing DEF InBatch
  <2> QED
    BY <2>1, <2>2, <2>3
<1>2. ASSUME NEW c, NEW s, CorrectSerial(c, s)
      PROVE  Firsts(db)' /\ LinksOnce /\ batch' = NoBatch
  <2>1. /\ db'.lines = db.lines /\ DOMAIN db'.cards = DOMAIN db.cards
        /\ db'.cards[c] = [db.cards[c] EXCEPT !.serial = s]
        /\ \A o \in DOMAIN db.cards \ {c} : db'.cards[o] = db.cards[o]
        /\ c \in DOMAIN db.cards /\ s # NoSerial /\ WithSerial(db, s) = {}
        /\ batch' = batch /\ batch = NoBatch
    BY <1>0, <1>2 DEF CorrectSerial, Idle
  <2>2. LinksOnce
    BY <2>1, LinksNothing DEF InBatch
  <2>3. /\ \A o \in DOMAIN db.cards : DOMAIN db.cards[o] = {"serial", "number"}
        /\ \A o \in DOMAIN db.cards : DOMAIN db'.cards[o] = {"serial", "number"}
        /\ db'.cards[c].serial = s
    BY <1>0, <2>1 DEF Firsts
  <2>4. IsFirst(db', c)
    <3>1. WithSerial(db', s) = {c}
      BY <2>1, <2>3 DEF WithSerial
    <3>2. c \in Nat
      BY <1>0, <2>1 DEF Shape
    <3> QED
      BY <2>3, <3>1, <3>2 DEF IsFirst, CardOfSerial
  <2>5. ASSUME NEW o, IsFirst(db, o), o # c
        PROVE  IsFirst(db', o)
    <3>1. o \in DOMAIN db.cards /\ db.cards[o].serial # s
      BY <2>1, <2>5 DEF IsFirst, CardOfSerial, WithSerial
    <3>2. \A p \in WithSerial(db', db.cards[o].serial) : p \in WithSerial(db, db.cards[o].serial)
      BY <2>1, <2>3, <3>1 DEF WithSerial
    <3> QED
      BY <2>1, <2>5, <3>1, <3>2, FirstStays
  <2>6. Firsts(db')
    BY <1>0, <2>1, <2>3, <2>4, <2>5 DEF Firsts
  <2> QED
    BY <2>1, <2>2, <2>6
<1>3. ASSUME NEW c, DeleteDuplicate(c)
      PROVE  Firsts(db)' /\ LinksOnce /\ batch' = NoBatch
  <2>1. /\ db'.lines = db.lines /\ DOMAIN db'.cards = DOMAIN db.cards \ {c}
        /\ \A o \in DOMAIN db.cards \ {c} : db'.cards[o] = db.cards[o]
        /\ \A l \in DOMAIN db.lines : db.lines[l].card # c
        /\ batch' = batch /\ batch = NoBatch
    BY <1>0, <1>3 DEF DeleteDuplicate, Restrict, Idle
  <2>2. LinksOnce
    BY <2>1, LinksNothing DEF InBatch
  <2>3. ASSUME NEW o, IsFirst(db, o), o # c
        PROVE  IsFirst(db', o)
    <3>1. o \in DOMAIN db'.cards /\ db'.cards[o] = db.cards[o]
      BY <2>1, <2>3 DEF IsFirst, CardOfSerial, WithSerial
    <3>2. \A p \in WithSerial(db', db.cards[o].serial) : p \in WithSerial(db, db.cards[o].serial)
      BY <2>1 DEF WithSerial
    <3> QED
      BY <2>3, <3>1, <3>2, FirstStays
  <2>4. Firsts(db')
    BY <1>0, <2>1, <2>3 DEF Firsts
  <2> QED
    BY <2>1, <2>2, <2>4
<1> QED
  BY <1>1, <1>2, <1>3

LEMMA SingleAcceptances ==
  ASSUME OnceInv, NEW doc \in DOMAIN db.docs, NEW s \in Serials, NEW given \in Givens
  PROVE  /\ AcceptSerial(doc, s, given) => Firsts(db)' /\ LinksOnce /\ batch' = NoBatch
         /\ AcceptUnplanned(doc, s, given) => Firsts(db)' /\ LinksOnce /\ batch' = NoBatch
<1>0. Firsts(db) /\ Good(db, NoDoc) /\ Good(db, doc)
  BY NoDocIsNoDocument DEF OnceInv, IInv
<1>1. ASSUME AcceptSerial(doc, s, given)
      PROVE  Firsts(db)' /\ LinksOnce /\ batch' = NoBatch
  <2>0. PICK l \in FirstLine(db, doc, s) :
          \E e \in AcceptResults(db, l, given) : db' = Refreshed(e, doc)
    BY <1>1 DEF AcceptSerial
  <2>1. PICK e \in AcceptResults(db, l, given) : db' = Refreshed(e, doc)
    BY <2>0
  <2>2. l \in LinesOf(db, doc) /\ l \in DOMAIN db.lines
    BY DEF FirstLine, LinesWithSerial, LinesOf
  <2>3. Shape(e)
    BY <1>0, <2>2, AcceptKeeps DEF Good
  <2>4. /\ Firsts(e)
        /\ ~IsLinked(db.lines[l]) /\ e.lines[l].card # NoCard
        /\ e.lines[l].serial = db.lines[l].serial
        /\ NotLinked(db, db.lines[l].serial)
        /\ DOMAIN e.lines = DOMAIN db.lines
        /\ \A o \in DOMAIN db.lines \ {l} : e.lines[o] = db.lines[o]
        /\ DOMAIN db.cards \subseteq DOMAIN e.cards
        /\ \A c \in DOMAIN db.cards : e.cards[c].serial = db.cards[c].serial
    BY <1>0, <2>2, AcceptOnce
  <2>5. db'.lines = e.lines /\ db'.cards = e.cards
    BY <2>1, <2>3, RefreshedSame
  <2>6. LinkedSince(db, db', {l})
    BY <2>2, <2>4, <2>5 DEF LinkedSince, IsLinked
  <2>7. batch' = NoBatch /\ batch = NoBatch
    BY <1>1 DEF AcceptSerial, Idle
  <2>8. LinksOnce
    BY <2>6, <2>7, LinksDone DEF InBatch
  <2>9. Firsts(db')
    BY <2>4, <2>5, SameCardsFirsts
  <2> QED
    BY <2>7, <2>8, <2>9
<1>2. ASSUME AcceptUnplanned(doc, s, given)
      PROVE  Firsts(db)' /\ LinksOnce /\ batch' = NoBatch
  <2> DEFINE l == Len(db.lines) + 1
             u == WithUnplanned(db, doc, s, given.number)
  <2>1. PICK e \in AcceptResults(u, l, given) : db' = Refreshed(e, doc)
    BY <1>2 DEF AcceptUnplanned
  <2>2. /\ Good(u, doc) /\ l \in LinesOf(u, doc) /\ u.cards = db.cards
        /\ l \notin DOMAIN db.lines /\ DOMAIN u.lines = DOMAIN db.lines \cup {l}
        /\ \A o \in DOMAIN db.lines : u.lines[o] = db.lines[o]
        /\ u.lines[l].card = NoCard
    BY <1>0, UnplannedLine
  <2> HIDE DEF l, u
  <2>3. Firsts(u)
    BY <1>0, <2>2, SameCardsFirsts
  <2>4. Shape(e)
    BY <2>2, AcceptKeeps DEF Good
  <2>5. /\ Firsts(e) /\ e.lines[l].serial = u.lines[l].serial
        /\ NotLinked(u, u.lines[l].serial)
        /\ DOMAIN e.lines = DOMAIN u.lines
        /\ \A o \in DOMAIN u.lines \ {l} : e.lines[o] = u.lines[o]
    BY <2>2, <2>3, AcceptOnce
  <2>6. db'.lines = e.lines /\ db'.cards = e.cards
    BY <2>1, <2>4, RefreshedSame
  <2>7. batch' = NoBatch /\ batch = NoBatch
    BY <1>2 DEF AcceptUnplanned, Idle
  <2>8. NewlyLinked \subseteq {l}
    BY <2>2, <2>5, <2>6 DEF NewlyLinked
  <2>9. NotLinked(db, db'.lines[l].serial)
    BY <2>2, <2>5, <2>6 DEF NotLinked
  <2>10. LinksOnce
    BY <2>7, <2>8, <2>9 DEF LinksOnce, InBatch
  <2>11. Firsts(db')
    BY <2>5, <2>6, SameCardsFirsts
  <2> QED
    BY <2>7, <2>10, <2>11
<1> QED
  BY <1>1, <1>2

\* A batch links its lines one by one in the open transaction, and commits them
\* together.
LEMMA BatchOnce ==
  ASSUME OnceInv, IInv'
  PROVE  /\ \A doc \in DOMAIN db.docs, ids \in UpToTwo(DOMAIN db.lines) : \A given :
              BeginBatch(doc, ids, given) => OnceInv' /\ LinksOnce
         /\ AcceptRow => OnceInv' /\ LinksOnce
         /\ RefuseRow => OnceInv' /\ LinksOnce
         /\ CommitBatch => OnceInv' /\ LinksOnce
         /\ Crash \/ ForgetPreview => OnceInv' /\ LinksOnce
<1>0. /\ Firsts(db) /\ LinksSoundIn(db) /\ Shape(db)
  BY DEF OnceInv, IInv, Good
<1>1. ASSUME NEW doc \in DOMAIN db.docs, NEW ids \in UpToTwo(DOMAIN db.lines), NEW given,
             BeginBatch(doc, ids, given)
      PROVE  OnceInv' /\ LinksOnce
  <2>1. /\ db' = db /\ batch = NoBatch /\ batch'.ids = ids /\ batch'.at = 1 /\ batch'.tables = db
    BY <1>1 DEF BeginBatch, Idle
  <2>2. ids \in Seq(Nat)
    <3>1. DOMAIN db.lines \subseteq Nat
      BY <1>0 DEF Shape
    <3>2. CASE ids \in {<<a>> : a \in DOMAIN db.lines}
      <4>1. PICK a \in DOMAIN db.lines : ids = <<a>>
        BY <3>2
      <4> QED
        BY <3>1, <4>1
    <3>3. CASE ids \in (DOMAIN db.lines) \X (DOMAIN db.lines)
      <4>1. PICK a \in DOMAIN db.lines, b \in DOMAIN db.lines : ids = <<a, b>>
        BY <3>3
      <4> QED
        BY <3>1, <4>1
    <3> QED
      BY <3>2, <3>3 DEF UpToTwo
  <2>3. Past' = {}
    BY <2>1 DEF Past
  <2>4. LinkedSince(db', batch'.tables, Past')
    BY <2>1, <2>3 DEF LinkedSince
  <2>5. batch'.at \in 1 .. Len(batch'.ids) + 1
    BY <2>1, <2>2
  <2>6. LinksOnce
    BY <2>1, LinksNothing
  <2> QED
    BY <1>0, <2>1, <2>2, <2>4, <2>5, <2>6 DEF OnceInv
<1>2. ASSUME AcceptRow
      PROVE  OnceInv' /\ LinksOnce
  <2> DEFINE l == batch.ids[batch.at]
             d == batch.tables
  <2>1. PICK e \in RowResults :
          batch' = [batch EXCEPT !.tables = e, !.at = batch.at + 1]
    BY <1>2 DEF AcceptRow
  <2>2. /\ DOMAIN batch = {"doc", "ids", "given", "at", "tables"}
        /\ Good(d, batch.doc) /\ Firsts(d) /\ LinkedSince(db, d, Past)
        /\ batch.ids \in Seq(Nat) /\ batch.at \in 1 .. Len(batch.ids)
        /\ db' = db
    BY <1>2 DEF AcceptRow, InBatch, OnceInv, IInv
  <2>3. /\ l \in LinesOf(d, batch.doc) /\ l \in DOMAIN d.lines
        /\ e \in AcceptResults(d, l, batch.given)
    BY <2>1 DEF RowResults, LinesOf
  <2>4. /\ Firsts(e)
        /\ ~IsLinked(d.lines[l]) /\ e.lines[l].card # NoCard
        /\ e.lines[l].serial = d.lines[l].serial
        /\ NotLinked(d, d.lines[l].serial)
        /\ DOMAIN e.lines = DOMAIN d.lines
        /\ \A o \in DOMAIN d.lines \ {l} : e.lines[o] = d.lines[o]
        /\ DOMAIN d.cards \subseteq DOMAIN e.cards
        /\ \A c \in DOMAIN d.cards : e.cards[c].serial = d.cards[c].serial
    BY <2>2, <2>3, AcceptOnce
  <2>5. /\ batch'.ids = batch.ids /\ batch'.at = batch.at + 1 /\ batch'.tables = e
    BY ONLY <2>1, <2>2
  <2>6. Past' = Past \cup {l}
    BY <2>2, <2>5 DEF Past
  <2>7. l \notin Past /\ d.lines[l] = db.lines[l] /\ l \in DOMAIN db.lines
    BY <2>2, <2>3, <2>4 DEF LinkedSince
  <2>8. NotLinked(db, e.lines[l].serial)
    <3>1. SUFFICES ASSUME NEW o \in DOMAIN db.lines, db.lines[o].card # NoCard
                   PROVE  db.cards[db.lines[o].card].serial # d.lines[l].serial
      BY <2>4 DEF NotLinked
    <3>2. o \notin Past /\ o \in DOMAIN d.lines /\ d.lines[o] = db.lines[o]
      BY <2>2, <3>1 DEF LinkedSince, IsLinked
    <3>3. db.lines[o].card \in DOMAIN db.cards
      BY <1>0, <3>1 DEF LinksSoundIn
    <3>4. d.lines[o].card # NoCard
      BY <3>1, <3>2
    <3>5. d.cards[d.lines[o].card].serial # d.lines[l].serial
      <4>1. NotLinked(d, d.lines[l].serial) /\ o \in DOMAIN d.lines
        BY <2>4, <3>2
      <4> QED
        BY <3>4, <4>1 DEF NotLinked
    <3>6. \A c \in DOMAIN db.cards : d.cards[c].serial = db.cards[c].serial
      BY <2>2 DEF LinkedSince
    <3>7. d.cards[db.lines[o].card].serial = db.cards[db.lines[o].card].serial
      BY <3>3, <3>6
    <3> QED
      BY <3>2, <3>5, <3>7
  <2> HIDE DEF l, d
  <2>9. LinkedSince(db, e, Past \cup {l})
    <3>1. ASSUME NEW o \in Past
          PROVE  /\ o # l /\ o \in DOMAIN db.lines /\ e.lines[o] = d.lines[o]
                 /\ ~IsLinked(db.lines[o]) /\ IsLinked(e.lines[o])
                 /\ NotLinked(db, e.lines[o].serial)
      BY <2>2, <2>4, <2>7 DEF LinkedSince
    <3>2. ASSUME NEW o \in DOMAIN db.lines \ (Past \cup {l})
          PROVE  e.lines[o] = db.lines[o]
      BY <2>2, <2>4 DEF LinkedSince
    <3>3. /\ DOMAIN e.lines = DOMAIN db.lines /\ DOMAIN db.cards \subseteq DOMAIN e.cards
          /\ \A c \in DOMAIN db.cards : e.cards[c].serial = db.cards[c].serial
      BY <2>2, <2>4 DEF LinkedSince
    <3>4. ~IsLinked(db.lines[l]) /\ IsLinked(e.lines[l])
      BY <2>4, <2>7 DEF IsLinked
    <3> QED
      BY <2>7, <2>8, <3>1, <3>2, <3>3, <3>4 DEF LinkedSince
  <2>10. batch'.at \in 1 .. Len(batch'.ids) + 1
    BY <2>2, <2>5
  <2>11. LinksOnce
    BY <2>2, LinksNothing
  <2>12. LinkedSince(db', batch'.tables, Past')
    BY <2>2, <2>5, <2>6, <2>9
  <2>13. Firsts(db') /\ batch'.ids \in Seq(Nat) /\ Firsts(batch'.tables)
    BY <1>0, <2>2, <2>4, <2>5
  <2> QED
    BY <2>10, <2>11, <2>12, <2>13 DEF OnceInv
<1>3. ASSUME RefuseRow
      PROVE  OnceInv' /\ LinksOnce
  <2>1. db' = db /\ batch' = NoBatch
    BY <1>3 DEF RefuseRow
  <2>2. LinksOnce
    BY <2>1, LinksNothing
  <2> QED
    BY <1>0, <2>1, <2>2 DEF OnceInv
<1>4. ASSUME CommitBatch
      PROVE  OnceInv' /\ LinksOnce
  <2> DEFINE d == batch.tables
  <2>1. /\ db' = Refreshed(d, batch.doc) /\ batch' = NoBatch /\ batch # NoBatch
        /\ Shape(d) /\ Firsts(d) /\ LinkedSince(db, d, Past)
        /\ batch.ids \in Seq(Nat) /\ batch.at = Len(batch.ids) + 1
    BY <1>4 DEF CommitBatch, InBatch, OnceInv, IInv, Good
  <2>2. db'.lines = d.lines /\ db'.cards = d.cards
    BY <2>1, RefreshedSame
  <2> HIDE DEF d
  <2>3. Past = Range(batch.ids)
    BY <2>1 DEF Past, Range
  <2>4. LinkedSince(db, db', Past)
    BY <2>1, <2>2 DEF LinkedSince
  <2>5. LinksOnce
    BY <2>3, <2>4, LinksDone
  <2>6. Firsts(db')
    BY <2>1, <2>2, SameCardsFirsts
  <2> QED
    BY <2>1, <2>5, <2>6 DEF OnceInv
<1>5. ASSUME Crash \/ ForgetPreview
      PROVE  OnceInv' /\ LinksOnce
  <2>1. db' = db /\ (batch' = NoBatch \/ batch' = batch)
    BY <1>5 DEF Crash, ForgetPreview
  <2>2. LinksOnce
    BY <2>1, LinksNothing
  <2>3. CASE batch' = NoBatch
    BY <1>0, <2>1, <2>2, <2>3 DEF OnceInv
  <2>4. CASE batch' = batch
    BY <1>0, <2>1, <2>2, <2>4 DEF OnceInv, Past
  <2> QED
    BY <2>1, <2>3, <2>4
<1> QED
  BY <1>1, <1>2, <1>3, <1>4, <1>5

LEMMA InitOnce == Init => OnceInv
<1>1. SUFFICES ASSUME Init PROVE OnceInv
  OBVIOUS
<1>2. PICK cards \in StartCards :
        db = [cards |-> cards, lastCard |-> Len(cards), lines |-> <<>>, docs |-> <<>>]
  BY <1>1 DEF Init
<1>3. \A c \in DOMAIN cards : cards[c] \in Card
  <2>1. cards \in Seq(Card)
    BY DeliveryInputs
  <2> QED
    BY <2>1
<1>4. db.cards = cards /\ db.lines = <<>>
  BY <1>2
<1>5. Firsts(db)
  BY <1>3, <1>4 DEF Firsts, Card
<1> QED
  BY <1>1, <1>5, InitGood DEF OnceInv, Init

LEMMA OnceStep ==
  ASSUME OnceInv, IInv', [Next]_vars
  PROVE  OnceInv' /\ [LinksOnce]_vars
<1>1. CASE UNCHANGED vars
  BY <1>1 DEF vars, OnceInv, Past
<1>2. ASSUME Firsts(db)', LinksOnce, batch' = NoBatch
      PROVE  OnceInv' /\ LinksOnce
  BY <1>2 DEF OnceInv
<1>3. CASE Next
  BY <1>2, <1>3, QuietRequests, ConfirmQuiet, CardRequests, SingleAcceptances, BatchOnce
     DEF Next, BatchStep
<1> QED
  BY <1>1, <1>3

\* A batch links every line it was asked for and no other, and a line is accepted
\* only while no linked card of any delivery carries its S/N, not even a twin
\* (delivery_acceptance.py:92-140, 216-296).
THEOREM AcceptsWholeAndOnce == Spec => AcceptedWholeAndOnce
<1>1. OnceInv /\ IInv' /\ [Next]_vars => OnceInv' /\ [LinksOnce]_vars
  BY OnceStep
<1>2. LinksOnce =>
        /\ InBatch /\ db' # db => NewlyLinked = Range(batch.ids)
        /\ \A l \in NewlyLinked, other \in DOMAIN db.lines :
             db.lines[other].card # NoCard =>
               db.cards[db.lines[other].card].serial # db'.lines[l].serial
  BY DEF LinksOnce, NotLinked
<1> QED
  BY <1>1, <1>2, InitOnce, Invariance, PTL DEF Spec, AcceptedWholeAndOnce
====
