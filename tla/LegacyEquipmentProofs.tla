----------------------- MODULE LegacyEquipmentProofs -----------------------
(***************************************************************************)
(* For every value of the constants: the two versions of the program never *)
(* write off more than a card holds, and a row and its card agree, but for *)
(* what files of operations, which look at rows alone, did to the row; and *)
(* inventory numbers stay where they are, on one position each.            *)
(*                                                                         *)
(* Within a request the row is changed first and the card follows, so the  *)
(* invariant is stated of what backs a card (its row, if it has one), with *)
(* the row whose card still has to follow left out.                        *)
(*                                                                         *)
(* Of a confirmed file the invariant says that the tables of its           *)
(* transaction come from the committed ones by giving the cards of the     *)
(* rows done so far what the preview announced (Assigned): nobody writes   *)
(* meanwhile, no two rows announce something of one card, and the S/N of a *)
(* card, by which a row finds it, is not among what changes.               *)
(***************************************************************************)
EXTENDS LegacyEquipment, FiniteSetTheorems, TLAPS

Shape(d) ==
  /\ DOMAIN d = {"equip", "cards", "lastCard", "taken", "linked", "unique", "behind", "drained"}
  /\ d.equip \in Seq(EquipmentRow)
  /\ d.lastCard \in 0..MaxCards
  /\ DOMAIN d.cards \subseteq 1..d.lastCard
  /\ d.taken \in [CardIds -> Nat]
  /\ d.drained \subseteq DOMAIN d.equip
  /\ \A c \in DOMAIN d.cards :
       /\ DOMAIN d.cards[c] = {"serial", "number", "quantity", "legacy"}
       /\ d.cards[c].quantity \in Nat
       /\ d.cards[c].legacy # Unlinked => d.cards[c].legacy \in DOMAIN d.equip

\* What a card's write-offs are measured against.
Backing(d, c) ==
  IF d.cards[c].legacy = Unlinked THEN d.cards[c].quantity
  ELSE d.equip[d.cards[c].legacy].quantity

\* Of rows a file of operations took from, nothing is said of the quantities.
Covered(d) ==
  \A c \in CardIds : d.taken[c] > 0 =>
    /\ c \in DOMAIN d.cards
    /\ d.cards[c].legacy \notin d.drained => d.taken[c] <= Backing(d, c)

OneCard(d) ==
  \A c1, c2 \in DOMAIN d.cards :
    d.cards[c1].legacy # Unlinked /\ d.cards[c1].legacy = d.cards[c2].legacy => c1 = c2

\* Every card but the one of row e holds what its row holds, or, since the last
\* file of receipts, less, but no less than its write-offs.
AgreesBut(d, e) ==
  \A c \in DOMAIN d.cards :
    d.cards[c].legacy \notin {Unlinked, e} =>
      /\ d.cards[c].legacy \notin d.behind =>
           d.cards[c].quantity = d.equip[d.cards[c].legacy].quantity
      /\ d.cards[c].legacy \notin d.drained =>
           /\ d.taken[c] <= d.cards[c].quantity
           /\ d.cards[c].quantity <= d.equip[d.cards[c].legacy].quantity

Loose(d, e) == Shape(d) /\ Covered(d) /\ OneCard(d) /\ AgreesBut(d, e)

Sound(d) == Loose(d, Unlinked)

\* Previewed files are files the import was given.
FromFiles(ps) == \A p \in ps : p.file \in NumberFiles

IInv ==
  /\ Sound(db)
  /\ FromFiles(plans)
  /\ batch # NoBatch =>
       /\ DOMAIN batch = {"file", "shown", "now", "at", "tables"}
       /\ batch.at \in Nat \ {0}
       /\ batch.file \in NumberFiles
       /\ Sound(batch.tables)

-----------------------------------------------------------------------------
(* Tables that differ in a card only. *)

LEMMA RowQuantity ==
  ASSUME NEW d, Shape(d), NEW e \in DOMAIN d.equip
  PROVE  /\ d.equip[e].quantity \in 0..MaxQuantity
         /\ DOMAIN d.equip = 1..Len(d.equip) /\ Len(d.equip) \in Nat
         /\ e \in Nat \ {0}
<1>1. d.equip \in Seq(EquipmentRow)
  BY DEF Shape
<1>2. DOMAIN d.equip = 1..Len(d.equip) /\ Len(d.equip) \in Nat
  BY <1>1
<1>3. d.equip[e] \in EquipmentRow
  BY <1>1, <1>2
<1> QED
  BY <1>2, <1>3 DEF EquipmentRow

LEMMA OwnCard ==
  ASSUME NEW d, Sound(d), NEW e \in DOMAIN d.equip, NEW c \in CardsOf(d, e)
  PROVE  /\ CardsOf(d, e) = {c}
         /\ c \in CardIds /\ d.taken[c] \in Nat /\ d.cards[c].quantity \in Nat
         /\ e \notin d.drained =>
              /\ d.taken[c] <= d.cards[c].quantity
              /\ d.cards[c].quantity <= d.equip[e].quantity
<1>1. e # Unlinked /\ d.equip[e].quantity \in 0..MaxQuantity
  BY RowQuantity DEF Sound, Loose, Unlinked
<1>2. c \in DOMAIN d.cards /\ d.cards[c].legacy = e
  BY DEF CardsOf
<1>3. c \in CardIds
  BY <1>2, RegisterBounds DEF Sound, Loose, Shape, CardIds
<1>4. d.taken[c] \in Nat /\ d.cards[c].quantity \in Nat
  BY <1>2, <1>3 DEF Sound, Loose, Shape
<1>5. e \notin d.drained =>
        /\ d.taken[c] <= d.cards[c].quantity
        /\ d.cards[c].quantity <= d.equip[e].quantity
  BY <1>1, <1>2 DEF Sound, Loose, AgreesBut
<1>8. CardsOf(d, e) = {c}
  BY <1>1, <1>2 DEF Sound, Loose, OneCard, CardsOf
<1> QED
  BY <1>3, <1>4, <1>5, <1>8

\* A new card without a row, or of a row that has none.
LEMMA PutCardKeeps ==
  ASSUME NEW d, NEW e, Loose(d, e), d.lastCard + 1 <= MaxCards,
         NEW card, DOMAIN card = {"serial", "number", "quantity", "legacy"},
         card.quantity \in Nat,
         card.legacy # Unlinked =>
           /\ card.legacy \in DOMAIN d.equip
           /\ CardsOf(d, card.legacy) = {}
           /\ card.quantity = d.equip[card.legacy].quantity
  PROVE  Loose(PutCard(d, card), e)
<1> DEFINE p == PutCard(d, card)
<1>1. /\ DOMAIN p = DOMAIN d
      /\ p.equip = d.equip /\ p.taken = d.taken
      /\ p.behind = d.behind /\ p.drained = d.drained
      /\ p.lastCard = d.lastCard + 1
      /\ DOMAIN p.cards = DOMAIN d.cards \cup {d.lastCard + 1}
      /\ p.cards[d.lastCard + 1] = card
      /\ d.lastCard \in Nat /\ d.lastCard + 1 \notin DOMAIN d.cards
      /\ \A c \in DOMAIN d.cards : p.cards[c] = d.cards[c]
  BY RegisterBounds DEF PutCard, Loose, Shape
<1> HIDE DEF p
<1>2. Shape(p)
  BY <1>1, RegisterBounds DEF Loose, Shape
<1>3. Covered(p)
  BY <1>1 DEF Loose, Covered, Backing
<1>4. OneCard(p)
  BY <1>1 DEF Loose, OneCard, CardsOf
<1>5. AgreesBut(p, e)
  <2>1. d.taken[d.lastCard + 1] = 0
    BY <1>1, RegisterBounds DEF Loose, Shape, Covered, CardIds
  <2> QED
    BY <1>1, <2>1, RegisterBounds DEF Loose, AgreesBut, CardsOf
<1> QED
  BY <1>2, <1>3, <1>4, <1>5 DEF Loose, p

\* Some cards without write-offs go.
LEMMA DropKeeps ==
  ASSUME NEW d, NEW e, Loose(d, e), NEW gone,
         \A c \in gone : c \in DOMAIN d.cards /\ d.taken[c] = 0
  PROVE  Loose([d EXCEPT !.cards = [c \in DOMAIN d.cards \ gone |-> d.cards[c]]], e)
<1> DEFINE p == [d EXCEPT !.cards = [c \in DOMAIN d.cards \ gone |-> d.cards[c]]]
<1>1. /\ DOMAIN p = DOMAIN d
      /\ p.equip = d.equip /\ p.taken = d.taken /\ p.lastCard = d.lastCard
      /\ p.behind = d.behind /\ p.drained = d.drained
      /\ DOMAIN p.cards = DOMAIN d.cards \ gone
      /\ \A c \in DOMAIN p.cards : p.cards[c] = d.cards[c]
  BY DEF Loose, Shape
<1> HIDE DEF p
<1>2. Shape(p)
  BY <1>1 DEF Loose, Shape
<1>3. Covered(p)
  BY <1>1 DEF Loose, Covered, Backing
<1>4. OneCard(p)
  BY <1>1 DEF Loose, OneCard
<1>5. AgreesBut(p, e)
  BY <1>1 DEF Loose, AgreesBut
<1> QED
  BY <1>2, <1>3, <1>4, <1>5 DEF Loose, p

\* Neither the quantity nor the row of a card changes.
LEMMA SameCardsKeeps ==
  ASSUME NEW d, NEW p, Sound(d),
         DOMAIN p = DOMAIN d, p.equip \in Seq(EquipmentRow),
         p.lastCard = d.lastCard, p.taken = d.taken,
         p.behind = d.behind, p.drained = d.drained,
         DOMAIN d.equip \subseteq DOMAIN p.equip,
         \A x \in DOMAIN d.equip : p.equip[x].quantity = d.equip[x].quantity,
         DOMAIN p.cards = DOMAIN d.cards,
         \A c \in DOMAIN d.cards :
           /\ DOMAIN p.cards[c] = DOMAIN d.cards[c]
           /\ p.cards[c].quantity = d.cards[c].quantity
           /\ p.cards[c].legacy = d.cards[c].legacy
  PROVE  Sound(p)
<1>1. Shape(p)
  BY DEF Sound, Loose, Shape
<1>2. Covered(p)
  BY DEF Sound, Loose, Shape, Covered, Backing
<1>3. OneCard(p)
  BY DEF Sound, Loose, OneCard
<1>4. AgreesBut(p, Unlinked)
  BY DEF Sound, Loose, Shape, AgreesBut
<1> QED
  BY <1>1, <1>2, <1>3, <1>4 DEF Sound, Loose

-----------------------------------------------------------------------------
(* A card follows its row. *)

LEMMA InsertKeeps ==
  ASSUME NEW d, NEW e \in DOMAIN d.equip, Loose(d, e), InsertMirror(d, e).lastCard <= MaxCards
  PROVE  /\ Loose(InsertMirror(d, e), e)
         /\ InsertMirror(d, e).equip = d.equip
<1>1. CASE ~(d.equip[e].quantity > 0 /\ ~InsertIgnored(d, e))
  BY <1>1 DEF InsertMirror
<1>2. CASE d.equip[e].quantity > 0 /\ ~InsertIgnored(d, e)
  <2>1. InsertMirror(d, e) = PutCard(d, MirrorOf(d, e))
    BY <1>2 DEF InsertMirror
  <2>2. /\ CardsOf(d, e) = {}
        /\ MirrorOf(d, e).legacy = e
        /\ MirrorOf(d, e).quantity = d.equip[e].quantity
        /\ DOMAIN MirrorOf(d, e) = {"serial", "number", "quantity", "legacy"}
    BY <1>2 DEF InsertIgnored, MirrorOf
  <2>3. d.equip[e].quantity \in Nat
    BY RowQuantity, RegisterBounds DEF Loose
  <2>4. PutCard(d, MirrorOf(d, e)).lastCard = d.lastCard + 1
        /\ PutCard(d, MirrorOf(d, e)).equip = d.equip
    BY DEF PutCard, Loose, Shape
  <2> HIDE DEF MirrorOf
  <2> QED
    BY <2>1, <2>2, <2>3, <2>4, PutCardKeeps
<1> QED
  BY <1>1, <1>2

LEMMA CopyKeeps ==
  ASSUME NEW d, NEW e \in DOMAIN d.equip, Loose(d, e)
  PROVE  Sound(CopyQuantity(d, e))
<1> DEFINE p == CopyQuantity(d, e)
<1>0. d.equip[e].quantity \in Nat
  BY RowQuantity, RegisterBounds DEF Loose
<1>1. /\ DOMAIN p = DOMAIN d
      /\ p.equip = d.equip /\ p.taken = d.taken /\ p.lastCard = d.lastCard
      /\ p.behind = d.behind \ {e} /\ p.drained = d.drained
      /\ DOMAIN p.cards = DOMAIN d.cards
  BY DEF CopyQuantity, Loose, Shape
<1>2. ASSUME NEW c \in DOMAIN d.cards
      PROVE  /\ DOMAIN p.cards[c] = DOMAIN d.cards[c]
             /\ p.cards[c].legacy = d.cards[c].legacy
             /\ p.cards[c].quantity =
                  IF d.cards[c].legacy = e THEN d.equip[e].quantity ELSE d.cards[c].quantity
  BY DEF CopyQuantity, CardsOf, Loose, Shape
<1> HIDE DEF p
<1>3. Shape(p)
  BY <1>0, <1>1, <1>2 DEF Loose, Shape
<1>4. Covered(p)
  BY <1>1, <1>2 DEF Loose, Shape, Covered, Backing, Unlinked
<1>5. OneCard(p)
  BY <1>1, <1>2 DEF Loose, OneCard
<1>6. AgreesBut(p, Unlinked)
  <2>1. SUFFICES ASSUME NEW c \in DOMAIN d.cards, d.cards[c].legacy # Unlinked
        PROVE  /\ d.cards[c].legacy \notin p.behind =>
                    p.cards[c].quantity = d.equip[d.cards[c].legacy].quantity
               /\ d.cards[c].legacy \notin d.drained =>
                    /\ d.taken[c] <= p.cards[c].quantity
                    /\ p.cards[c].quantity <= d.equip[d.cards[c].legacy].quantity
    BY <1>1, <1>2 DEF AgreesBut
  <2>2. CASE d.cards[c].legacy # e
    BY <1>1, <1>2, <2>1, <2>2 DEF Loose, AgreesBut
  <2>3. CASE d.cards[c].legacy = e
    <3>1. c \in CardIds /\ d.taken[c] \in Nat
      BY RegisterBounds DEF Loose, Shape, CardIds
    <3>2. d.cards[c].legacy \notin d.drained => d.taken[c] <= d.equip[e].quantity
      BY <1>0, <2>1, <2>3, <3>1 DEF Loose, Covered, Backing
    <3> QED
      BY <1>0, <1>1, <1>2, <2>3, <3>2
  <2> QED
    BY <2>2, <2>3
<1> QED
  BY <1>3, <1>4, <1>5, <1>6 DEF Sound, Loose, p

LEMMA SyncKeeps ==
  ASSUME NEW d, NEW e \in DOMAIN d.equip, Loose(d, e), SyncAllowed(d, e)
  PROVE  Sound(Sync(d, e))
<1> DEFINE m == InsertMirror(d, e)
<1>1. Loose(m, e) /\ m.equip = d.equip
  BY InsertKeeps DEF SyncAllowed
<1> HIDE DEF m
<1> DEFINE gone == Emptied(m, e)
<1>2. DropEmptied(m, e) = [m EXCEPT !.cards = [c \in DOMAIN m.cards \ gone |-> m.cards[c]]]
  BY DEF DropEmptied
<1>3. \A c \in gone : c \in DOMAIN m.cards /\ m.taken[c] = 0
  BY DEF Emptied, CardsOf
<1> HIDE DEF gone
<1>4. Loose(DropEmptied(m, e), e)
  <2>1. Loose([m EXCEPT !.cards = [c \in DOMAIN m.cards \ gone |-> m.cards[c]]], e)
    BY ONLY <1>1, <1>3, DropKeeps
  <2> QED
    BY ONLY <2>1, <1>2
<1>5. DropEmptied(m, e).equip = d.equip
  <2>1. DOMAIN m = {"equip", "cards", "lastCard", "taken", "linked", "unique", "behind", "drained"}
    BY <1>1 DEF Loose, Shape
  <2> QED
    BY <1>1, <1>2, <2>1
<1> QED
  BY <1>4, <1>5, CopyKeeps DEF Sync, m

-----------------------------------------------------------------------------
(* The row changes first. *)

\* Rows are added; none has a card yet.
LEMMA WithRowsKeeps ==
  ASSUME NEW d, Sound(d), NEW rows \in Seq(EquipmentRow)
  PROVE  /\ Sound(WithRows(d, rows))
         /\ Len(WithRows(d, rows).equip) = Len(d.equip) + Len(rows)
<1> DEFINE p == WithRows(d, rows)
<1>1. d.equip \in Seq(EquipmentRow) /\ d.equip \o rows \in Seq(EquipmentRow)
  BY DEF Sound, Loose, Shape
<1>2. /\ DOMAIN p = DOMAIN d /\ p.equip = d.equip \o rows
      /\ p.cards = d.cards /\ p.taken = d.taken /\ p.lastCard = d.lastCard
      /\ p.behind = d.behind /\ p.drained = d.drained
  BY DEF WithRows, Sound, Loose, Shape
<1>3. /\ Len(d.equip \o rows) = Len(d.equip) + Len(rows)
      /\ DOMAIN d.equip = 1..Len(d.equip) /\ Len(d.equip) \in Nat
      /\ DOMAIN (d.equip \o rows) = 1..Len(d.equip \o rows)
      /\ \A x \in DOMAIN d.equip : (d.equip \o rows)[x] = d.equip[x]
      /\ Len(rows) \in Nat
  BY <1>1
<1>4. DOMAIN d.equip \subseteq DOMAIN p.equip
  BY <1>2, <1>3
<1> HIDE DEF p
<1>5. \A c \in DOMAIN d.cards : p.cards[c] = d.cards[c]
  BY <1>2
<1>6. \A x \in DOMAIN d.equip : p.equip[x].quantity = d.equip[x].quantity
  BY <1>2, <1>3
<1>7. Sound(p)
  BY <1>1, <1>2, <1>4, <1>5, <1>6, SameCardsKeeps
<1> QED
  BY <1>2, <1>3, <1>7 DEF p

\* The quantity of a row changes, not below what its card has written off.
LEMMA WithQuantityKeeps ==
  ASSUME NEW d, Sound(d), NEW e \in DOMAIN d.equip, NEW q \in 0..MaxQuantity,
         e \notin d.drained => \A c \in CardsOf(d, e) : d.taken[c] <= q
  PROVE  /\ Loose(WithQuantity(d, e, q), e)
         /\ e \in DOMAIN WithQuantity(d, e, q).equip
<1> DEFINE p == WithQuantity(d, e, q)
<1>0. Shape(d) /\ Covered(d) /\ OneCard(d) /\ AgreesBut(d, Unlinked)
  BY DEF Sound, Loose
<1>1. /\ DOMAIN p = DOMAIN d /\ p.equip = [d.equip EXCEPT ![e].quantity = q]
      /\ p.cards = d.cards /\ p.taken = d.taken /\ p.lastCard = d.lastCard
      /\ p.behind = d.behind /\ p.drained = d.drained
  BY <1>0 DEF WithQuantity, Shape
<1>2. /\ d.equip \in Seq(EquipmentRow) /\ DOMAIN d.equip = 1..Len(d.equip)
      /\ Len(d.equip) \in Nat /\ d.equip[e] \in EquipmentRow
  BY <1>0 DEF Shape
<1>3. /\ p.equip[e].quantity = q
      /\ \A x \in DOMAIN d.equip \ {e} : p.equip[x] = d.equip[x]
      /\ p.equip[e] \in EquipmentRow
      /\ DOMAIN p.equip = DOMAIN d.equip
  BY <1>1, <1>2 DEF EquipmentRow
<1>4. p.equip \in Seq(EquipmentRow)
  <2>1. p.equip \in [1..Len(d.equip) -> EquipmentRow]
    BY <1>1, <1>2, <1>3
  <2> QED
    BY <1>2, <2>1
<1> HIDE DEF p
<1>5. Shape(p)
  BY <1>0, <1>1, <1>3, <1>4 DEF Shape
<1>6. Covered(p)
  BY <1>0, <1>1, <1>3 DEF Shape, Covered, Backing, CardsOf
<1>7. OneCard(p)
  BY <1>0, <1>1 DEF OneCard
<1>8. AgreesBut(p, e)
  BY <1>0, <1>1, <1>3 DEF Shape, AgreesBut
<1> QED
  BY <1>3, <1>5, <1>6, <1>7, <1>8 DEF Loose, p

-----------------------------------------------------------------------------
(* One step. *)

\* An issue is refused for more than the row has, or its card still has.
LEMMA IssueLeavesEnough ==
  ASSUME NEW d, Sound(d), NEW e \in DOMAIN d.equip, NEW n \in Quantities,
         n <= InStock(d, e)
  PROVE  /\ d.equip[e].quantity - n \in 0..MaxQuantity
         /\ e \notin d.drained =>
              \A c \in CardsOf(d, e) : d.taken[c] <= d.equip[e].quantity - n
<1>1. Shape(d)
  BY DEF Sound, Loose
<1>2. d.equip[e].quantity \in 0..MaxQuantity /\ n \in Nat \ {0}
  BY <1>1, RowQuantity, RegisterBounds DEF Quantities
<1>3. \A c \in CardsOf(d, e) :
        /\ d.taken[c] \in Nat /\ d.cards[c].quantity \in Nat
        /\ e \notin d.drained =>
             /\ d.taken[c] <= d.cards[c].quantity
             /\ d.cards[c].quantity <= d.equip[e].quantity
        /\ \A x \in CardsOf(d, e) : x = c
  <2>1. ASSUME NEW c \in CardsOf(d, e)
        PROVE  /\ CardsOf(d, e) = {c}
               /\ d.taken[c] \in Nat /\ d.cards[c].quantity \in Nat
               /\ e \notin d.drained =>
                    /\ d.taken[c] <= d.cards[c].quantity
                    /\ d.cards[c].quantity <= d.equip[e].quantity
    BY OwnCard
  <2> QED
    BY <2>1
<1>4. n <= d.equip[e].quantity
      /\ \A c \in CardsOf(d, e) :
           e \notin d.drained => d.taken[c] <= d.equip[e].quantity - n
  <2>1. CASE \E c \in CardsOf(d, e) : Available(d, c) < d.equip[e].quantity
    <3>1. PICK c \in CardsOf(d, e) : /\ Available(d, c) < d.equip[e].quantity
                                     /\ CardsOf(d, e) = {c}
      BY <1>3, <2>1
    <3>2. InStock(d, e) = Available(d, c)
      BY <2>1, <3>1 DEF InStock
    <3> QED
      BY <1>2, <1>3, <3>1, <3>2 DEF Available
  <2>2. CASE ~\E c \in CardsOf(d, e) : Available(d, c) < d.equip[e].quantity
    <3>1. InStock(d, e) = d.equip[e].quantity
      BY <2>2 DEF InStock
    <3>2. \A c \in CardsOf(d, e) : e \notin d.drained => d.taken[c] = 0
      BY <1>2, <1>3, <2>2 DEF Available
    <3> QED
      BY <1>2, <3>1, <3>2
  <2> QED
    BY <2>1, <2>2
<1>5. d.equip[e].quantity - n \in 0..MaxQuantity
  BY <1>2, <1>4, RegisterBounds
<1> QED
  BY <1>4, <1>5

\* A file of operations changes rows alone, and remembers those it took from.
LEMMA FileKeeps ==
  ASSUME IInv, ImportOperations
  PROVE  IInv'
<1>0. Sound(db) /\ Shape(db) /\ Covered(db) /\ OneCard(db) /\ AgreesBut(db, Unlinked)
  BY DEF IInv, Sound, Loose
<1> DEFINE carded == {e \in DOMAIN db.equip : CardsOf(db, e) # {}}
<1>1. PICK f \in OperationFiles :
        /\ \A e \in DOMAIN db.equip : AfterFile(db, f, e) \in 0..MaxQuantity
        /\ batch' = NoBatch /\ plans' = plans
        /\ db' = [db EXCEPT
              !.equip = [e \in DOMAIN @ |-> [@[e] EXCEPT !.quantity = AfterFile(db, f, e)]],
              !.behind = @ \cup {e \in carded : AfterFile(db, f, e) # db.equip[e].quantity},
              !.drained = @ \cup {e \in carded : AfterFile(db, f, e) < db.equip[e].quantity}]
  BY DEF ImportOperations, Idle
<1> DEFINE After(e) == AfterFile(db, f, e)
           moved == {e \in carded : After(e) # db.equip[e].quantity}
           less == {e \in carded : After(e) < db.equip[e].quantity}
           rows == [e \in DOMAIN db.equip |-> [db.equip[e] EXCEPT !.quantity = After(e)]]
<1>2. /\ DOMAIN db' = DOMAIN db /\ db'.equip = rows
      /\ db'.cards = db.cards /\ db'.taken = db.taken /\ db'.lastCard = db.lastCard
      /\ db'.behind = db.behind \cup moved /\ db'.drained = db.drained \cup less
  BY <1>0, <1>1 DEF Shape
<1>3. /\ db.equip \in Seq(EquipmentRow) /\ DOMAIN db.equip = 1..Len(db.equip)
      /\ Len(db.equip) \in Nat
      /\ \A e \in DOMAIN db.equip : db.equip[e] \in EquipmentRow
  BY <1>0 DEF Shape
<1>4. \A e \in DOMAIN db.equip : After(e) \in 0..MaxQuantity
  BY <1>1
<1>5. \A e \in carded : e \in DOMAIN db.equip /\ \E c \in DOMAIN db.cards : db.cards[c].legacy = e
  BY DEF CardsOf
<1>6. \A c \in DOMAIN db.cards : db.cards[c].legacy \in DOMAIN db.equip =>
        db.cards[c].legacy \in carded
  BY DEF CardsOf
<1>7. moved \subseteq DOMAIN db.equip /\ less \subseteq DOMAIN db.equip
  OBVIOUS
<1>8. \A e \in DOMAIN db.equip : db.equip[e].quantity \in 0..MaxQuantity
  BY <1>3 DEF EquipmentRow
<1> HIDE DEF After, carded
<1>9. \A e \in DOMAIN db.equip : /\ rows[e] \in EquipmentRow
                                 /\ rows[e].quantity = After(e)
  BY <1>3, <1>4 DEF EquipmentRow
<1>10. DOMAIN rows = DOMAIN db.equip /\ rows \in Seq(EquipmentRow)
  <2>1. DOMAIN rows = DOMAIN db.equip
    OBVIOUS
  <2> HIDE DEF rows
  <2>2. rows = [e \in 1..Len(db.equip) |-> rows[e]]
    BY <1>3 DEF rows
  <2>3. rows \in [1..Len(db.equip) -> EquipmentRow]
    BY <1>3, <1>9, <2>2
  <2> QED
    BY <1>3, <2>1, <2>3
<1>11. \A e \in DOMAIN db.equip :
         /\ e \in carded /\ e \notin moved => After(e) = db.equip[e].quantity
         /\ e \in carded /\ e \notin less => db.equip[e].quantity <= After(e)
  BY <1>4, <1>8, RegisterBounds
<1> HIDE DEF rows, moved, less
<1>12. Shape(db')
  BY <1>0, <1>2, <1>7, <1>10 DEF Shape
<1>13. \A c \in DOMAIN db.cards : db.cards[c].legacy # Unlinked =>
         /\ db.cards[c].legacy \in DOMAIN db.equip
         /\ db.cards[c].legacy \in carded
  BY <1>0, <1>6 DEF Shape
<1>14. \A c \in DOMAIN db.cards : c \in CardIds /\ db.taken[c] \in Nat
                                /\ db.cards[c].quantity \in Nat
  BY <1>0, RegisterBounds DEF Shape, CardIds
<1>15. Unlinked \notin db.drained
  BY <1>0, <1>3 DEF Shape, Unlinked
<1>16. AgreesBut(db', Unlinked)
  <2>1. SUFFICES ASSUME NEW c \in DOMAIN db.cards, db.cards[c].legacy # Unlinked
        PROVE  /\ db.cards[c].legacy \notin db'.behind =>
                    db.cards[c].quantity = rows[db.cards[c].legacy].quantity
               /\ db.cards[c].legacy \notin db'.drained =>
                    /\ db.taken[c] <= db.cards[c].quantity
                    /\ db.cards[c].quantity <= rows[db.cards[c].legacy].quantity
    BY <1>2 DEF AgreesBut
  <2> DEFINE e == db.cards[c].legacy
  <2>2. e \in DOMAIN db.equip /\ e \in carded
    BY <1>13, <2>1
  <2>3. /\ e \notin db.behind => db.cards[c].quantity = db.equip[e].quantity
        /\ e \notin db.drained => /\ db.taken[c] <= db.cards[c].quantity
                                  /\ db.cards[c].quantity <= db.equip[e].quantity
    BY <1>0, <2>1 DEF AgreesBut
  <2>4. rows[e].quantity = After(e) /\ After(e) \in Nat /\ db.equip[e].quantity \in Nat
    BY <1>4, <1>8, <1>9, <2>2, RegisterBounds
  <2>5. /\ e \notin moved => After(e) = db.equip[e].quantity
        /\ e \notin less => db.equip[e].quantity <= After(e)
    BY <1>11, <2>2
  <2> HIDE DEF e
  <2>6. /\ e \notin db'.behind => db.cards[c].quantity = rows[e].quantity
        /\ e \notin db'.drained => /\ db.taken[c] <= db.cards[c].quantity
                                   /\ db.cards[c].quantity <= rows[e].quantity
    BY <1>2, <1>14, <2>3, <2>4, <2>5
  <2> QED
    BY <2>6 DEF e
<1>17. Covered(db')
  <2>1. SUFFICES ASSUME NEW c \in CardIds, db.taken[c] > 0
        PROVE  /\ c \in DOMAIN db.cards
               /\ db.cards[c].legacy \notin db'.drained => db.taken[c] <= Backing(db', c)
    BY <1>2 DEF Covered
  <2>2. c \in DOMAIN db.cards
    BY <1>0, <2>1 DEF Covered
  <2>3. CASE db.cards[c].legacy = Unlinked
    BY <1>0, <1>2, <1>15, <2>1, <2>2, <2>3 DEF Covered, Backing
  <2>4. CASE db.cards[c].legacy # Unlinked
    <3>1. /\ Backing(db', c) = rows[db.cards[c].legacy].quantity
          /\ Backing(db', c) \in Nat
      BY <1>2, <1>4, <1>9, <1>13, <2>2, <2>4, RegisterBounds DEF Backing
    <3> QED
      BY <1>2, <1>14, <1>16, <2>2, <2>4, <3>1 DEF AgreesBut
  <2> QED
    BY <2>2, <2>3, <2>4
<1>18. OneCard(db')
  BY <1>0, <1>2 DEF OneCard
<1> QED
  BY <1>1, <1>12, <1>16, <1>17, <1>18 DEF IInv, FromFiles, Sound, Loose

LEMMA LegacyStepsKeep ==
  ASSUME IInv,
         \/ AddEquipment \/ ImportEquipment \/ ReceiveEquipment \/ IssueEquipment
         \/ MoveEquipment
  PROVE  IInv'
<1>0. Sound(db) /\ Shape(db)
  BY DEF IInv, Sound, Loose
<1>1. SUFFICES Sound(db') /\ batch' = NoBatch /\ plans' = plans
  BY DEF IInv, FromFiles
<1>2. batch' = NoBatch /\ plans' = plans
  BY DEF AddEquipment, ImportEquipment, ReceiveEquipment, IssueEquipment, MoveEquipment, Idle
<1>3. CASE AddEquipment
  <2>1. PICK row \in EquipmentRow :
          /\ SyncAllowed(WithRows(db, <<row>>), Len(WithRows(db, <<row>>).equip))
          /\ db' = Sync(WithRows(db, <<row>>), Len(WithRows(db, <<row>>).equip))
    BY <1>3 DEF AddEquipment
  <2> DEFINE d == WithRows(db, <<row>>)
  <2>2. Sound(d) /\ Len(d.equip) = Len(db.equip) + Len(<<row>>)
    <3>1. <<row>> \in Seq(EquipmentRow)
      OBVIOUS
    <3> QED
      BY <1>0, <3>1, WithRowsKeeps
  <2>3. Len(db.equip) \in Nat /\ Len(<<row>>) = 1
    BY <1>0 DEF Shape
  <2> HIDE DEF d
  <2>4. Len(d.equip) \in DOMAIN d.equip
    BY <2>2, <2>3 DEF Sound, Loose, Shape
  <2>5. Loose(d, Len(d.equip))
    BY <2>2 DEF Sound, Loose, AgreesBut
  <2> QED
    BY <1>2, <2>1, <2>4, <2>5, SyncKeeps DEF d
<1>4. CASE ImportEquipment
  BY <1>0, <1>2, <1>4, WithRowsKeeps, FilesAssumption DEF ImportEquipment
<1>5. CASE ReceiveEquipment
  <2>1. PICK e \in DOMAIN db.equip, n \in Quantities :
          /\ db.equip[e].quantity + n <= MaxQuantity
          /\ SyncAllowed(WithQuantity(db, e, db.equip[e].quantity + n), e)
          /\ db' = Sync(WithQuantity(db, e, db.equip[e].quantity + n), e)
    <3>1. PICK e \in DOMAIN db.equip, n \in Quantities :
            /\ WithQuantity(db, e, db.equip[e].quantity + n).equip[e].quantity <= MaxQuantity
            /\ SyncAllowed(WithQuantity(db, e, db.equip[e].quantity + n), e)
            /\ db' = Sync(WithQuantity(db, e, db.equip[e].quantity + n), e)
      BY <1>5 DEF ReceiveEquipment
    <3>2. WithQuantity(db, e, db.equip[e].quantity + n).equip[e].quantity
            = db.equip[e].quantity + n
      BY <1>0, RowQuantity DEF WithQuantity, Shape, EquipmentRow
    <3> QED
      BY <3>1, <3>2
  <2>2. db.equip[e].quantity + n \in 0..MaxQuantity
    BY <1>0, <2>1, RowQuantity, RegisterBounds DEF Quantities
  <2>3. e \notin db.drained =>
          \A c \in CardsOf(db, e) : db.taken[c] <= db.equip[e].quantity + n
    BY <1>0, OwnCard, RowQuantity, RegisterBounds DEF Quantities
  <2> QED
    BY <1>0, <1>2, <2>1, <2>2, <2>3, WithQuantityKeeps, SyncKeeps
<1>6. CASE IssueEquipment
  <2>1. PICK e \in DOMAIN db.equip, n \in Quantities :
          /\ n <= InStock(db, e)
          /\ SyncAllowed(WithQuantity(db, e, db.equip[e].quantity - n), e)
          /\ db' = Sync(WithQuantity(db, e, db.equip[e].quantity - n), e)
    BY <1>6 DEF IssueEquipment
  <2>2. /\ db.equip[e].quantity - n \in 0..MaxQuantity
        /\ e \notin db.drained =>
             \A c \in CardsOf(db, e) : db.taken[c] <= db.equip[e].quantity - n
    BY <1>0, <2>1, IssueLeavesEnough
  <2> QED
    BY <1>0, <1>2, <2>1, <2>2, WithQuantityKeeps, SyncKeeps
<1>7. CASE MoveEquipment
  <2>1. PICK e \in DOMAIN db.equip : SyncAllowed(db, e) /\ db' = Sync(db, e)
    BY <1>7 DEF MoveEquipment
  <2>2. Loose(db, e)
    BY <1>0 DEF Sound, Loose, AgreesBut
  <2> QED
    BY <1>2, <2>1, <2>2, SyncKeeps
<1> QED
  BY <1>3, <1>4, <1>5, <1>6, <1>7

LEMMA OpenKeeps ==
  ASSUME IInv, OpenDatabase
  PROVE  IInv'
<1> DEFINE new == RowsWithoutCard(db)
           ids == (db.lastCard + 1)..(db.lastCard + Cardinality(new))
<1>0. Sound(db) /\ Shape(db) /\ Covered(db) /\ OneCard(db) /\ AgreesBut(db, Unlinked)
  BY DEF IInv, Sound, Loose
<1>1. PICK row \in Bijection(ids, new) :
        /\ db.lastCard + Cardinality(new) <= MaxCards
        /\ batch' = NoBatch /\ plans' = plans
        /\ db' = [db EXCEPT
                    !.lastCard = @ + Cardinality(new),
                    !.cards = [c \in DOMAIN @ \cup ids |->
                                 IF c \in ids THEN MirrorOf(db, row[c]) ELSE @[c]]]
  BY DEF OpenDatabase, Idle
<1>2. \A e \in new : /\ e \in DOMAIN db.equip
                     /\ CardsOf(db, e) = {}
                     /\ e # Unlinked
                     /\ db.equip[e].quantity \in Nat
  BY <1>0, RowQuantity, RegisterBounds DEF RowsWithoutCard, InsertIgnored, Unlinked
<1>3. /\ \A c \in ids : row[c] \in new
      /\ \A c1, c2 \in ids : row[c1] = row[c2] => c1 = c2
  BY DEF Bijection, Injection, IsInjective
<1>4. Cardinality(new) \in Nat
  <2>1. IsFiniteSet(DOMAIN db.equip)
    <3>1. DOMAIN db.equip = 1..Len(db.equip) /\ Len(db.equip) \in Nat
      BY <1>0 DEF Shape
    <3>2. 1 \in Int /\ Len(db.equip) \in Int
      BY <3>1
    <3>3. IsFiniteSet(1..Len(db.equip))
      BY ONLY <3>2, FS_Interval
    <3> QED
      BY <3>1, <3>3
  <2>2. new \subseteq DOMAIN db.equip
    BY DEF RowsWithoutCard
  <2> QED
    BY <2>1, <2>2, FS_Subset, FS_CardinalityType
<1> HIDE DEF new
<1>5. /\ db.lastCard \in Nat /\ ids \cap DOMAIN db.cards = {}
      /\ ids \subseteq 1..(db.lastCard + Cardinality(new))
      /\ DOMAIN db.cards \subseteq 1..(db.lastCard + Cardinality(new))
      /\ db.lastCard + Cardinality(new) \in 0..MaxCards
  BY <1>0, <1>1, <1>4, RegisterBounds DEF Shape
<1> HIDE DEF ids
<1>6. /\ DOMAIN db' = DOMAIN db
      /\ db'.equip = db.equip /\ db'.taken = db.taken
      /\ db'.behind = db.behind /\ db'.drained = db.drained
      /\ db'.lastCard = db.lastCard + Cardinality(new)
      /\ DOMAIN db'.cards = DOMAIN db.cards \cup ids
      /\ \A c \in DOMAIN db.cards : db'.cards[c] = db.cards[c]
      /\ \A c \in ids : db'.cards[c] = MirrorOf(db, row[c])
  BY <1>0, <1>1, <1>5 DEF Shape
<1>7. \A e \in new : /\ DOMAIN MirrorOf(db, e) = {"serial", "number", "quantity", "legacy"}
                     /\ MirrorOf(db, e).legacy = e
                     /\ MirrorOf(db, e).quantity = db.equip[e].quantity
  BY DEF MirrorOf
<1>8. \A c \in DOMAIN db.cards : db.cards[c].legacy \notin new
  BY <1>2 DEF CardsOf
<1> HIDE DEF MirrorOf
<1>9. Shape(db')
  <2>1. ASSUME NEW c \in DOMAIN db'.cards
        PROVE  /\ DOMAIN db'.cards[c] = {"serial", "number", "quantity", "legacy"}
               /\ db'.cards[c].quantity \in Nat
               /\ db'.cards[c].legacy # Unlinked => db'.cards[c].legacy \in DOMAIN db.equip
    <3>1. CASE c \in DOMAIN db.cards
      BY <3>1, <1>0, <1>6 DEF Shape
    <3>2. CASE c \in ids
      BY <3>2, <1>2, <1>3, <1>6, <1>7
    <3> QED
      BY <1>6, <3>1, <3>2
  <2>2. DOMAIN db'.cards \subseteq 1..db'.lastCard
    BY <1>5, <1>6
  <2> QED
    BY <1>0, <1>5, <1>6, <2>1, <2>2 DEF Shape
<1>10. Covered(db')
  BY <1>0, <1>6 DEF Covered, Backing
<1>11. OneCard(db')
  BY <1>0, <1>3, <1>6, <1>7, <1>8 DEF OneCard
<1>12. AgreesBut(db', Unlinked)
  <2>1. \A c \in ids : db.taken[c] = 0
    BY <1>0, <1>5, RegisterBounds DEF Covered, Shape, CardIds
  <2> QED
    BY <1>0, <1>2, <1>3, <1>6, <1>7, <2>1 DEF AgreesBut
<1> QED
  BY <1>1, <1>9, <1>10, <1>11, <1>12 DEF IInv, FromFiles, Sound, Loose

LEMMA CardStepsKeep ==
  ASSUME IInv, ReceiveCard \/ AcceptIntoCard \/ WriteOff \/ CorrectSerial \/ DeleteDuplicate
  PROVE  IInv'
<1>0. Sound(db) /\ Shape(db) /\ Covered(db) /\ OneCard(db) /\ AgreesBut(db, Unlinked)
  BY DEF IInv, Sound, Loose
<1>1. SUFFICES Sound(db') /\ batch' = NoBatch /\ plans' = plans
  BY DEF IInv, FromFiles
<1>2. batch' = NoBatch /\ plans' = plans
  BY DEF ReceiveCard, AcceptIntoCard, WriteOff, CorrectSerial, DeleteDuplicate, Idle
<1>3. CASE ReceiveCard
  <2>1. PICK s \in Serials \cup {NoSerial}, n \in Numbers \cup {NoNumber},
             q \in Quantities, byDelivery \in BOOLEAN :
          LET d == PutCard(db, [serial |-> s, number |-> n, quantity |-> q,
                                legacy |-> Unlinked])
          IN /\ d.lastCard <= MaxCards
             /\ db' = IF byDelivery THEN [d EXCEPT !.linked = @ \cup {d.lastCard}] ELSE d
    BY <1>3 DEF ReceiveCard
  <2> DEFINE card == [serial |-> s, number |-> n, quantity |-> q, legacy |-> Unlinked]
             d == PutCard(db, card)
  <2>2. db.lastCard + 1 <= MaxCards
    BY <1>0, <2>1 DEF PutCard, Shape
  <2>3. q \in Nat
    BY DEF Quantities
  <2> HIDE DEF d
  <2>4. Sound(d)
    BY <1>0, <2>2, <2>3, PutCardKeeps DEF Sound, d
  <2>5. \/ db' = d
        \/ db' = [d EXCEPT !.linked = @ \cup {d.lastCard}]
    BY <2>1 DEF d
  <2>6. CASE db' = [d EXCEPT !.linked = @ \cup {d.lastCard}]
    <3>1. /\ DOMAIN db' = DOMAIN d /\ db'.equip = d.equip /\ db'.taken = d.taken
          /\ db'.lastCard = d.lastCard /\ db'.cards = d.cards
          /\ db'.behind = d.behind /\ db'.drained = d.drained
          /\ d.equip \in Seq(EquipmentRow)
      <4>1. /\ DOMAIN d = {"equip", "cards", "lastCard", "taken", "linked", "unique", "behind", "drained"}
            /\ d.equip \in Seq(EquipmentRow)
        BY <2>4 DEF Sound, Loose, Shape
      <4> QED
        BY ONLY <4>1, <2>6
    <3>2. \A c \in DOMAIN d.cards : /\ DOMAIN db'.cards[c] = DOMAIN d.cards[c]
                                    /\ db'.cards[c].quantity = d.cards[c].quantity
                                    /\ db'.cards[c].legacy = d.cards[c].legacy
      BY ONLY <3>1
    <3>3. /\ DOMAIN d.equip \subseteq DOMAIN db'.equip
          /\ \A x \in DOMAIN d.equip : db'.equip[x].quantity = d.equip[x].quantity
          /\ db'.equip \in Seq(EquipmentRow) /\ DOMAIN db'.cards = DOMAIN d.cards
      BY ONLY <3>1
    <3> QED
      BY ONLY <1>2, <2>4, <3>1, <3>2, <3>3, SameCardsKeeps
  <2> QED
    BY <1>2, <2>4, <2>5, <2>6
<1>4. CASE AcceptIntoCard
  <2>1. PICK c \in DOMAIN db.cards, n \in Numbers \cup {NoNumber} :
          db' = [db EXCEPT !.linked = @ \cup {c},
                           !.cards[c].number = IF @ = NoNumber THEN n ELSE @]
    BY <1>4 DEF AcceptIntoCard
  <2>2. /\ DOMAIN db' = DOMAIN db /\ db'.equip = db.equip /\ db'.taken = db.taken
        /\ db'.lastCard = db.lastCard /\ DOMAIN db'.cards = DOMAIN db.cards
        /\ db'.behind = db.behind /\ db'.drained = db.drained
        /\ \A x \in DOMAIN db.cards :
             /\ DOMAIN db'.cards[x] = DOMAIN db.cards[x]
             /\ db'.cards[x].quantity = db.cards[x].quantity
             /\ db'.cards[x].legacy = db.cards[x].legacy
    BY <1>0, <2>1 DEF Shape
  <2>3. db.equip \in Seq(EquipmentRow)
    BY <1>0 DEF Shape
  <2> QED
    BY <1>0, <1>2, <2>2, <2>3, SameCardsKeeps
<1>5. CASE WriteOff
  <2>1. PICK c \in CardIds, q \in Quantities :
          /\ c \in DOMAIN db.cards /\ q <= db.cards[c].quantity - db.taken[c]
          /\ db' = [db EXCEPT !.taken[c] = @ + q]
    BY <1>5 DEF WriteOff, WithSerial, Available
  <2>2. /\ DOMAIN db' = DOMAIN db /\ db'.equip = db.equip
        /\ db'.cards = db.cards /\ db'.lastCard = db.lastCard
        /\ db'.behind = db.behind /\ db'.drained = db.drained
        /\ db'.taken = [db.taken EXCEPT ![c] = db.taken[c] + q]
    <3>1. DOMAIN db = {"equip", "cards", "lastCard", "taken", "linked", "unique", "behind", "drained"}
      BY <1>0 DEF Shape
    <3> DEFINE now == [db.taken EXCEPT ![c] = db.taken[c] + q]
    <3>2. db' = [db EXCEPT !.taken = now]
      BY <2>1
    <3> HIDE DEF now
    <3>3. /\ DOMAIN db' = DOMAIN db /\ db'.equip = db.equip
          /\ db'.cards = db.cards /\ db'.lastCard = db.lastCard
          /\ db'.behind = db.behind /\ db'.drained = db.drained
          /\ db'.taken = now
      BY ONLY <3>1, <3>2
    <3> QED
      BY ONLY <3>3 DEF now
  <2>3. q \in Nat /\ db.taken[c] \in Nat /\ db.cards[c].quantity \in Nat
    BY <1>0, <2>1 DEF Shape, Quantities
  <2>4. db.cards[c].legacy \notin db.drained =>
          /\ db.cards[c].quantity <= Backing(db, c)
          /\ Backing(db, c) \in Nat
    <3>1. CASE db.cards[c].legacy = Unlinked
      BY <2>3, <3>1 DEF Backing
    <3>2. CASE db.cards[c].legacy # Unlinked
      <4>1. db.cards[c].legacy \in DOMAIN db.equip
        BY <1>0, <2>1, <3>2 DEF Shape
      <4>2. db.equip[db.cards[c].legacy].quantity \in Nat
        BY <1>0, <4>1, RowQuantity, RegisterBounds
      <4> QED
        BY <1>0, <2>1, <3>2, <4>2 DEF Backing, AgreesBut
    <3> QED
      BY <3>1, <3>2
  <2>5. /\ db'.taken[c] = db.taken[c] + q
        /\ \A x \in CardIds \ {c} : db'.taken[x] = db.taken[x]
        /\ db'.taken \in [CardIds -> Nat]
    BY <1>0, <2>2, <2>3 DEF Shape
  <2>6. Shape(db')
    BY <1>0, <2>2, <2>5 DEF Shape
  <2>7. \A x : Backing(db', x) = Backing(db, x)
    BY <2>2 DEF Backing
  <2>8. Covered(db')
    BY <1>0, <2>1, <2>2, <2>3, <2>4, <2>5, <2>7 DEF Covered
  <2>9. AgreesBut(db', Unlinked)
    <3>1. \A x \in DOMAIN db.cards : x \in CardIds
      BY <1>0, RegisterBounds DEF Shape, CardIds
    <3>2. db'.taken[c] <= db.cards[c].quantity
      BY <2>1, <2>3, <2>5
    <3> QED
      BY <1>0, <2>2, <2>5, <3>1, <3>2 DEF AgreesBut
  <2> QED
    BY <1>0, <1>2, <2>2, <2>6, <2>8, <2>9 DEF Sound, Loose, OneCard
<1>6. CASE CorrectSerial
  <2>1. PICK c \in DOMAIN db.cards, s \in Serials :
          db' = [db EXCEPT !.cards = [@ EXCEPT ![c].serial = s]]
    BY <1>6 DEF CorrectSerial
  <2>2. /\ DOMAIN db' = DOMAIN db /\ db'.equip = db.equip /\ db'.taken = db.taken
        /\ db'.lastCard = db.lastCard /\ DOMAIN db'.cards = DOMAIN db.cards
        /\ db'.behind = db.behind /\ db'.drained = db.drained
        /\ \A x \in DOMAIN db.cards :
             /\ DOMAIN db'.cards[x] = DOMAIN db.cards[x]
             /\ db'.cards[x].quantity = db.cards[x].quantity
             /\ db'.cards[x].legacy = db.cards[x].legacy
    BY <1>0, <2>1 DEF Shape
  <2>3. db.equip \in Seq(EquipmentRow)
    BY <1>0 DEF Shape
  <2> QED
    BY <1>0, <1>2, <2>2, <2>3, SameCardsKeeps
<1>7. CASE DeleteDuplicate
  <2>1. PICK c \in DOMAIN db.cards :
          /\ db.taken[c] = 0
          /\ db' = [db EXCEPT !.cards = [x \in DOMAIN db.cards \ {c} |-> db.cards[x]]]
    BY <1>7 DEF DeleteDuplicate
  <2> DEFINE gone == {c}
  <2>2. \A x \in gone : x \in DOMAIN db.cards /\ db.taken[x] = 0
    BY <2>1
  <2>3. db' = [db EXCEPT !.cards = [x \in DOMAIN db.cards \ gone |-> db.cards[x]]]
    BY <2>1
  <2>4. Loose(db, Unlinked)
    BY <1>0 DEF Sound
  <2> HIDE DEF gone
  <2>5. Loose([db EXCEPT !.cards = [x \in DOMAIN db.cards \ gone |-> db.cards[x]]], Unlinked)
    BY ONLY <2>2, <2>4, DropKeeps
  <2> QED
    BY ONLY <1>2, <2>3, <2>5 DEF Sound
<1> QED
  BY <1>3, <1>4, <1>5, <1>6, <1>7

-----------------------------------------------------------------------------
(* Giving numbers changes neither quantities nor rows. *)

LEMMA AssignKeeps ==
  ASSUME NEW d, Sound(d), NEW s, NEW n \in Numbers \cup {NoNumber}
  PROVE  Sound(Assign(d, s, n))
<1> DEFINE p == Assign(d, s, n)
<1>1. /\ DOMAIN p = DOMAIN d /\ p.taken = d.taken /\ p.lastCard = d.lastCard
      /\ p.behind = d.behind /\ p.drained = d.drained
      /\ DOMAIN p.cards = DOMAIN d.cards /\ DOMAIN p.equip = DOMAIN d.equip
      /\ \A c \in DOMAIN d.cards :
           /\ DOMAIN p.cards[c] = DOMAIN d.cards[c]
           /\ p.cards[c].quantity = d.cards[c].quantity
           /\ p.cards[c].legacy = d.cards[c].legacy
  BY DEF Assign, Sound, Loose, Shape
<1>2. d.equip \in Seq(EquipmentRow) /\ Len(d.equip) \in Nat
      /\ DOMAIN d.equip = 1..Len(d.equip)
  BY DEF Sound, Loose, Shape
<1>3. ASSUME NEW x \in DOMAIN d.equip
      PROVE  /\ p.equip[x] \in EquipmentRow
             /\ p.equip[x].quantity = d.equip[x].quantity
  <2>1. d.equip[x] \in EquipmentRow
    BY <1>2
  <2>2. p.equip[x] = d.equip[x] \/ p.equip[x] = [d.equip[x] EXCEPT !.number = n]
    BY DEF Assign, Sound, Loose, Shape
  <2> QED
    BY <2>1, <2>2 DEF EquipmentRow
<1>4. p.equip = [x \in 1..Len(d.equip) |-> p.equip[x]]
  BY <1>2 DEF Assign, Sound, Loose, Shape
<1> HIDE DEF p
<1>5. p.equip \in Seq(EquipmentRow)
  <2>1. p.equip \in [1..Len(d.equip) -> EquipmentRow]
    BY <1>2, <1>3, <1>4
  <2> QED
    BY <1>2, <2>1
<1>6. Sound(p)
  BY <1>1, <1>3, <1>5, SameCardsKeeps
<1> QED
  BY <1>6 DEF p

LEMMA NumberStepsKeep ==
  ASSUME IInv,
         \/ AssignNumber \/ PreviewNumbers \/ ForgetPlan \/ ConfirmNumbers
         \/ SkipRow \/ AssignRow \/ CommitNumbers \/ RollBack \/ ServerEnds
  PROVE  IInv'
<1>1. CASE AssignNumber
  <2>1. PICK s \in Serials, n \in Numbers :
          db' = Assign(db, s, n) /\ batch' = NoBatch /\ plans' = plans
    BY <1>1 DEF AssignNumber, Idle
  <2> QED
    BY <2>1, AssignKeeps DEF IInv, FromFiles
<1>2. CASE PreviewNumbers
  BY <1>2 DEF IInv, PreviewNumbers, FromFiles, Idle
<1>3. CASE ForgetPlan
  BY <1>3 DEF IInv, ForgetPlan, FromFiles
<1>4. CASE ConfirmNumbers
  <2>1. PICK p \in plans :
          /\ plans' = plans \ {p} /\ db' = db
          /\ batch' = IF Confirmable(db, p)
                      THEN [file |-> p.file, shown |-> p.seen,
                            now |-> Analyze(db, p.file), at |-> 1, tables |-> db]
                      ELSE NoBatch
    BY <1>4 DEF ConfirmNumbers
  <2>2. p.file \in NumberFiles
    BY DEF IInv, FromFiles
  <2>3. CASE batch' = NoBatch
    BY <2>1, <2>3 DEF IInv, FromFiles
  <2>4. CASE batch' = [file |-> p.file, shown |-> p.seen,
                       now |-> Analyze(db, p.file), at |-> 1, tables |-> db]
    <3>1. batch'.file = p.file /\ batch'.at = 1 /\ batch'.tables = db
          /\ DOMAIN batch' = {"file", "shown", "now", "at", "tables"}
      BY <2>4
    <3> QED
      BY <2>1, <2>2, <3>1 DEF IInv, FromFiles
  <2> QED
    BY <2>1, <2>3, <2>4
<1>5. CASE SkipRow
  <2>1. /\ batch # NoBatch /\ db' = db /\ plans' = plans
        /\ batch' = [batch EXCEPT !.at = @ + 1]
    BY <1>5 DEF SkipRow, Idle
  <2>2. /\ DOMAIN batch = {"file", "shown", "now", "at", "tables"}
        /\ batch.at \in Nat
    BY <2>1 DEF IInv
  <2>3. /\ DOMAIN batch' = DOMAIN batch /\ batch'.at = batch.at + 1
        /\ batch'.file = batch.file /\ batch'.tables = batch.tables
    BY ONLY <2>1, <2>2
  <2> QED
    BY <2>1, <2>2, <2>3 DEF IInv, FromFiles
<1>6. CASE AssignRow
  <2> DEFINE row == batch.file[batch.at]
             next == Assign(batch.tables, row.serial, row.number)
  <2>1. /\ batch # NoBatch /\ db' = db /\ plans' = plans /\ batch.at <= Len(batch.file)
        /\ batch' = [batch EXCEPT !.at = @ + 1, !.tables = next]
    BY <1>6 DEF AssignRow, Idle, ToAssign
  <2>2. /\ DOMAIN batch = {"file", "shown", "now", "at", "tables"}
        /\ batch.at \in Nat \ {0} /\ batch.file \in NumberFiles
        /\ Sound(batch.tables)
    BY <2>1 DEF IInv
  <2>3. row.number \in Numbers \cup {NoNumber}
    <3>1. batch.file \in Seq(NumberRow)
      BY <2>2, NumberFilesAssumption
    <3>2. batch.at \in 1..Len(batch.file)
      BY <2>1, <2>2, <3>1
    <3>3. row \in NumberRow
      BY <3>1, <3>2
    <3> QED
      BY <3>3 DEF NumberRow
  <2>4. Sound(next)
    BY <2>2, <2>3, AssignKeeps
  <2> HIDE DEF next
  <2>5. /\ DOMAIN batch' = DOMAIN batch /\ batch'.at = batch.at + 1
        /\ batch'.file = batch.file /\ batch'.tables = next
    BY ONLY <2>1, <2>2
  <2> QED
    BY <2>1, <2>2, <2>4, <2>5 DEF IInv, FromFiles
<1>7. CASE CommitNumbers
  BY <1>7 DEF IInv, FromFiles, CommitNumbers, Idle
<1>8. CASE RollBack
  BY <1>8 DEF IInv, FromFiles, RollBack
<1>9. CASE ServerEnds
  BY <1>9 DEF IInv, FromFiles, ServerEnds
<1> QED
  BY <1>1, <1>2, <1>3, <1>4, <1>5, <1>6, <1>7, <1>8, <1>9

-----------------------------------------------------------------------------
(* The invariant, and what it is for. *)

LEMMA StartSound ==
  ASSUME NEW d \in StartTables
  PROVE  Sound(d)
<1>1. Shape(d)
  BY StartAssumption, RegisterBounds DEF Shape, CardRow
<1>2. Covered(d)
  BY StartAssumption DEF Covered
<1>3. OneCard(d)
  BY StartAssumption DEF OneCard, CardsOf
<1>4. AgreesBut(d, Unlinked)
  <2>1. \A c \in DOMAIN d.cards : d.taken[c] = 0 /\ d.cards[c].quantity \in Nat
    BY StartAssumption, RegisterBounds DEF CardRow, CardIds
  <2> QED
    BY StartAssumption, <2>1 DEF AgreesBut
<1> QED
  BY <1>1, <1>2, <1>3, <1>4 DEF Sound, Loose

\* IInv holds in every reachable state of the register.
THEOREM Invariance == Spec => []IInv
<1>1. Init => IInv
  BY StartSound DEF Init, IInv, FromFiles
<1>2. IInv /\ [Next]_vars => IInv'
  <2>1. SUFFICES ASSUME IInv, [Next]_vars PROVE IInv'
    OBVIOUS
  <2>2. CASE UNCHANGED vars
    BY <2>1, <2>2 DEF vars, IInv, FromFiles
  <2>3. CASE Next
    BY <2>1, <2>3, LegacyStepsKeep, FileKeeps, OpenKeeps, CardStepsKeep, NumberStepsKeep DEF Next
  <2> QED
    BY <2>1, <2>2, <2>3
<1> QED
  BY <1>1, <1>2, PTL DEF Spec

\* A card with write-offs is still there, and, unless a file of issues took from its
\* row, never has more written off than it holds (inventory.py:226-248, 371-382 and
\* issue_repository.py).
LEMMA WriteOffsCovered == IInv => CardCoversWriteOffs
<1>1. SUFFICES ASSUME IInv, NEW c \in CardIds, db.taken[c] > 0
               PROVE  /\ c \in DOMAIN db.cards
                      /\ db.cards[c].legacy \notin db.drained =>
                           db.taken[c] <= db.cards[c].quantity
  BY DEF CardCoversWriteOffs
<1>2. /\ c \in DOMAIN db.cards
      /\ db.cards[c].legacy \notin db.drained => db.taken[c] <= Backing(db, c)
  BY <1>1 DEF IInv, Sound, Loose, Covered
<1>3. CASE db.cards[c].legacy = Unlinked
  BY <1>2, <1>3 DEF Backing
<1>4. CASE db.cards[c].legacy # Unlinked
  BY <1>1, <1>2, <1>4 DEF IInv, Sound, Loose, AgreesBut
<1> QED
  BY <1>2, <1>3, <1>4

\* A card that mirrors an equipment row is the only one, holds what the row holds
\* until a file of operations changes the row, and no more until such a file takes
\* from it (_sync_legacy_stock_receipt, inventory.py:92-143).
LEMMA OwnCardsAgree == IInv => OwnCardAgrees
<1>1. SUFFICES ASSUME IInv, NEW c \in DOMAIN db.cards, db.cards[c].legacy # Unlinked
               PROVE  LET e == db.cards[c].legacy
                      IN /\ CardsOf(db, e) = {c}
                         /\ e \notin db.behind => db.cards[c].quantity = db.equip[e].quantity
                         /\ e \notin db.drained => db.cards[c].quantity <= db.equip[e].quantity
  BY DEF OwnCardAgrees
<1>2. LET e == db.cards[c].legacy
      IN /\ e \notin db.behind => db.cards[c].quantity = db.equip[e].quantity
         /\ e \notin db.drained => db.cards[c].quantity <= db.equip[e].quantity
  BY <1>1 DEF IInv, Sound, Loose, AgreesBut
<1>3. CardsOf(db, db.cards[c].legacy) = {c}
  BY <1>1 DEF IInv, Sound, Loose, OneCard, CardsOf
<1> QED
  BY <1>2, <1>3

\* However the operations of the two versions alternate, files of receipts and issues
\* included, the cards cover the write-offs, unless such a file took from their row,
\* and mirror the rows they stand for as they were copied last.
THEOREM CardsKept == Spec => []CardsStandForStock
<1>1. IInv => CardsStandForStock
  BY WriteOffsCovered, OwnCardsAgree DEF CardsStandForStock
<1> QED
  BY <1>1, Invariance, PTL

-----------------------------------------------------------------------------
(* Giving a number. *)

LEMMA CardFound ==
  ASSUME NEW d, NEW s, WithSerial(d, s) # {}
  PROVE  /\ TheCard(d, s) \in DOMAIN d.cards
         /\ d.cards[TheCard(d, s)].serial = s
<1>1. TheCard(d, s) \in WithSerial(d, s)
  BY DEF TheCard
<1> QED
  BY <1>1 DEF WithSerial

\* Tables p are tables d with number n given to card c, and to its row e if it has one.
Given(d, p, c, e, n) ==
  /\ c \in DOMAIN d.cards
  /\ d.cards[c].number = NoNumber
  /\ DOMAIN d.cards[c] = {"serial", "number", "quantity", "legacy"}
  /\ DOMAIN p.cards = DOMAIN d.cards /\ DOMAIN p.equip = DOMAIN d.equip
  /\ p.cards[c] = [d.cards[c] EXCEPT !.number = n]
  /\ \A x \in DOMAIN d.cards \ {c} : p.cards[x] = d.cards[x]
  /\ e \in DOMAIN d.equip =>
       /\ DOMAIN d.equip[e] = {"serial", "number", "quantity"}
       /\ p.equip[e] = [d.equip[e] EXCEPT !.number = n]
       /\ d.equip[e].number \in {NoNumber, n}
  /\ \A x \in DOMAIN d.equip \ {e} : p.equip[x] = d.equip[x]

LEMMA AssignFacts ==
  ASSUME NEW d, Shape(d), NEW s, NEW n, CanAssign(d, s, n),
         NEW p, p = Assign(d, s, n),
         NEW c, c = TheCard(d, s),
         NEW e, e = d.cards[c].legacy
  PROVE  Given(d, p, c, e, n)
<1>1. WithSerial(d, s) # {}
  BY FS_EmptySet DEF CanAssign
<1>2. c \in DOMAIN d.cards
  BY <1>1, CardFound
<1>3. d.cards[c].number = NoNumber /\ NumberOfRow(d, e) \in {NoNumber, n}
  BY DEF CanAssign
<1>4. DOMAIN d = {"equip", "cards", "lastCard", "taken", "linked", "unique", "behind", "drained"}
  BY DEF Shape
<1> DEFINE cards == [d.cards EXCEPT ![c].number = n]
           equip == [x \in DOMAIN d.equip |-> IF x = e THEN [d.equip[x] EXCEPT !.number = n]
                                              ELSE d.equip[x]]
<1>5. p = [d EXCEPT !.cards = cards, !.equip = equip]
  BY DEF Assign
<1>6. /\ DOMAIN cards = DOMAIN d.cards /\ DOMAIN equip = DOMAIN d.equip
      /\ cards[c] = [d.cards[c] EXCEPT !.number = n]
      /\ \A x \in DOMAIN d.cards \ {c} : cards[x] = d.cards[x]
      /\ e \in DOMAIN d.equip => equip[e] = [d.equip[e] EXCEPT !.number = n]
      /\ \A x \in DOMAIN d.equip \ {e} : equip[x] = d.equip[x]
  BY <1>2
<1> HIDE DEF cards, equip
<1>7. p.cards = cards /\ p.equip = equip
  BY ONLY <1>4, <1>5
<1>8. e \in DOMAIN d.equip => d.equip[e].number \in {NoNumber, n}
  BY <1>3 DEF NumberOfRow
<1>9. DOMAIN d.cards[c] = {"serial", "number", "quantity", "legacy"}
  BY <1>2 DEF Shape
<1>10. ASSUME e \in DOMAIN d.equip
       PROVE  DOMAIN d.equip[e] = {"serial", "number", "quantity"}
  <2>1. d.equip[e] \in EquipmentRow
    BY <1>10 DEF Shape
  <2> QED
    BY <2>1 DEF EquipmentRow
<1> QED
  BY <1>2, <1>3, <1>6, <1>7, <1>8, <1>9, <1>10 DEF Given

LEMMA AssignKeepsNumbers ==
  ASSUME NEW d, Shape(d), NEW s, NEW n, CanAssign(d, s, n)
  PROVE  /\ Keeps(d.cards, Assign(d, s, n).cards)
         /\ Keeps(d.equip, Assign(d, s, n).equip)
<1> DEFINE p == Assign(d, s, n)
           c == TheCard(d, s)
           e == d.cards[c].legacy
<1>0. p = Assign(d, s, n) /\ c = TheCard(d, s) /\ e = d.cards[c].legacy
  OBVIOUS
<1> HIDE DEF p, c, e
<1>1. Given(d, p, c, e, n)
  BY <1>0, AssignFacts
<1>3. Keeps(d.cards, p.cards)
  BY <1>1 DEF Keeps, Given
<1>4. Keeps(d.equip, p.equip)
  BY <1>1 DEF Keeps, Given
<1> QED
  BY <1>3, <1>4 DEF p

\* The position that gets the number is the only one that has it; the other numbers
\* stay where they are.
LEMMA AssignKeepsApart ==
  ASSUME NEW d, Shape(d), NEW s, NEW n, CanAssign(d, s, n)
  PROVE  Shared(Assign(d, s, n)) \subseteq Shared(d)
<1> DEFINE p == Assign(d, s, n)
           c == TheCard(d, s)
           e == d.cards[c].legacy
<1>0. p = Assign(d, s, n) /\ c = TheCard(d, s) /\ e = d.cards[c].legacy
  OBVIOUS
<1> HIDE DEF p, c, e
<1>1. Given(d, p, c, e, n)
  BY <1>0, AssignFacts
<1>2. ~ForeignOwner(d, c, n)
  BY <1>0 DEF CanAssign
<1>4. /\ p.cards[c].number = n /\ p.cards[c].legacy = e
      /\ p.cards[c].serial = d.cards[c].serial
      /\ e \in DOMAIN d.equip => p.equip[e].number = n /\ p.equip[e].serial = d.equip[e].serial
  BY <1>0, <1>1 DEF Given
<1>5. SUFFICES ASSUME NEW m \in Numbers, Cardinality(Positions(p, m)) > 1
               PROVE  Cardinality(Positions(d, m)) > 1
  BY DEF Shared, p
<1>6. m # NoNumber
  BY RegisterBounds
<1>7. CASE m = n
  <2>1. WithNumber(p, n) = {c}
    BY <1>1, <1>2, <1>4, <1>6, <1>7 DEF Given, WithNumber, ForeignOwner
  <2>2. RowsWithNumber(p, n) \subseteq {e}
    BY <1>1, <1>2, <1>4, <1>6, <1>7, <1>0 DEF Given, RowsWithNumber, ForeignOwner
  <2>3. Positions(p, n) = {c}
    BY <1>4, <2>1, <2>2 DEF Positions
  <2>4. Cardinality({c}) = 1
    BY FS_Singleton
  <2> QED
    BY <1>5, <1>7, <2>3, <2>4
<1>8. CASE m # n
  <2>1. WithNumber(p, m) = WithNumber(d, m)
    BY <1>1, <1>4, <1>6, <1>8 DEF Given, WithNumber
  <2>2. RowsWithNumber(p, m) = RowsWithNumber(d, m)
    BY <1>1, <1>4, <1>6, <1>8 DEF Given, RowsWithNumber
  <2>3. \A x \in WithNumber(d, m) : p.cards[x].legacy = d.cards[x].legacy
                                    /\ p.cards[x].serial = d.cards[x].serial
    BY <1>1, <1>4 DEF Given, WithNumber
  <2>4. \A x \in RowsWithNumber(d, m) : p.equip[x].serial = d.equip[x].serial
    BY <1>1, <1>4 DEF Given, RowsWithNumber
  <2>5. Positions(p, m) = Positions(d, m)
    BY <2>1, <2>2, <2>3, <2>4 DEF Positions
  <2> QED
    BY <1>5, <2>5
<1> QED
  BY <1>7, <1>8

-----------------------------------------------------------------------------
LEMMA SyncKeepsNumbers ==
  ASSUME NEW d, Shape(d), NEW e \in DOMAIN d.equip
  PROVE  /\ \A c \in DOMAIN d.cards \cap DOMAIN Sync(d, e).cards :
              Sync(d, e).cards[c].number = d.cards[c].number
         /\ Sync(d, e).equip = d.equip
<1> DEFINE m == InsertMirror(d, e)
           k == DropEmptied(m, e)
           p == CopyQuantity(k, e)
           Fields == {"equip", "cards", "lastCard", "taken", "linked", "unique", "behind", "drained"}
<1>1. /\ DOMAIN m = Fields /\ m.equip = d.equip
      /\ \A c \in DOMAIN d.cards : c \in DOMAIN m.cards /\ m.cards[c] = d.cards[c]
  <2>1. DOMAIN d = Fields /\ d.lastCard \in Nat /\ DOMAIN d.cards \subseteq 1..d.lastCard
    BY RegisterBounds DEF Shape
  <2>2. CASE m = d
    BY <2>1, <2>2
  <2>3. CASE m = PutCard(d, MirrorOf(d, e))
    <3> HIDE DEF m
    <3>1. \A c \in DOMAIN d.cards : c # d.lastCard + 1
      BY <2>1
    <3> QED
      BY <2>1, <2>3, <3>1 DEF PutCard
  <2> QED
    BY <2>2, <2>3 DEF InsertMirror
<1> HIDE DEF m
<1>2. /\ DOMAIN k = Fields /\ k.equip = d.equip
      /\ DOMAIN k.cards \subseteq DOMAIN m.cards
      /\ \A c \in DOMAIN k.cards : k.cards[c] = m.cards[c]
  BY <1>1 DEF DropEmptied
<1> HIDE DEF k
<1>3. /\ p.equip = d.equip /\ DOMAIN p.cards = DOMAIN k.cards
      /\ \A c \in DOMAIN p.cards :
           \/ p.cards[c] = k.cards[c]
           \/ p.cards[c] = [k.cards[c] EXCEPT !.quantity = k.equip[e].quantity]
  BY <1>2 DEF CopyQuantity
<1> HIDE DEF p
<1>4. \A c \in DOMAIN d.cards : DOMAIN d.cards[c] = {"serial", "number", "quantity", "legacy"}
  BY DEF Shape
<1>5. ASSUME NEW c \in DOMAIN d.cards \cap DOMAIN p.cards
      PROVE  p.cards[c].number = d.cards[c].number
  <2>1. k.cards[c] = d.cards[c]
    BY <1>1, <1>2, <1>3
  <2>2. \/ p.cards[c] = d.cards[c]
        \/ p.cards[c] = [d.cards[c] EXCEPT !.quantity = k.equip[e].quantity]
    BY <1>3, <2>1
  <2>3. DOMAIN d.cards[c] = {"serial", "number", "quantity", "legacy"}
    BY <1>4
  <2> QED
    BY ONLY <2>2, <2>3
<1> QED
  BY <1>3, <1>5 DEF Sync, p, k, m

\* A number that is there is there in every later state of the tables.
NumbersKept(d, p) == Keeps(d.cards, p.cards) /\ Keeps(d.equip, p.equip)

LEMMA FileKeepsNumbers ==
  ASSUME IInv, ImportOperations
  PROVE  NumbersKept(db, db')
<1>0. Shape(db)
  BY DEF IInv, Sound, Loose
<1>1. PICK f \in OperationFiles :
        /\ db'.equip = [e \in DOMAIN db.equip |->
                          [db.equip[e] EXCEPT !.quantity = AfterFile(db, f, e)]]
        /\ db'.cards = db.cards
  BY <1>0 DEF ImportOperations, Shape
<1>2. \A e \in DOMAIN db.equip : db.equip[e] \in EquipmentRow
  BY <1>0 DEF Shape
<1>3. Keeps(db.equip, db'.equip)
  BY <1>1, <1>2 DEF Keeps, EquipmentRow
<1> QED
  BY <1>1, <1>3 DEF NumbersKept, Keeps

LEMMA LegacyStepsKeepNumbers ==
  ASSUME IInv,
         \/ AddEquipment \/ ImportEquipment \/ ReceiveEquipment \/ IssueEquipment
         \/ MoveEquipment
  PROVE  NumbersKept(db, db')
<1>0. Sound(db) /\ Shape(db)
  BY DEF IInv, Sound, Loose
<1>1. db.equip \in Seq(EquipmentRow) /\ Len(db.equip) \in Nat
      /\ DOMAIN db.equip = 1..Len(db.equip)
  BY <1>0 DEF Shape
<1>2. ASSUME NEW d, Shape(d), NEW e \in DOMAIN d.equip, d.cards = db.cards,
             Keeps(db.equip, d.equip)
      PROVE  NumbersKept(db, Sync(d, e))
  <2>1. /\ \A c \in DOMAIN d.cards \cap DOMAIN Sync(d, e).cards :
              Sync(d, e).cards[c].number = d.cards[c].number
        /\ Sync(d, e).equip = d.equip
    BY <1>2, SyncKeepsNumbers
  <2> QED
    BY <1>2, <2>1 DEF NumbersKept, Keeps
<1>3. ASSUME NEW rows \in Seq(EquipmentRow)
      PROVE  /\ Shape(WithRows(db, rows)) /\ WithRows(db, rows).cards = db.cards
             /\ Keeps(db.equip, WithRows(db, rows).equip)
             /\ Len(WithRows(db, rows).equip) = Len(db.equip) + Len(rows)
  <2>1. /\ Sound(WithRows(db, rows))
        /\ Len(WithRows(db, rows).equip) = Len(db.equip) + Len(rows)
    BY <1>0, WithRowsKeeps
  <2>2. WithRows(db, rows).cards = db.cards /\ WithRows(db, rows).equip = db.equip \o rows
    BY <1>0 DEF WithRows, Shape
  <2>3. \A i \in DOMAIN db.equip : (db.equip \o rows)[i] = db.equip[i]
    BY <1>1
  <2> QED
    BY <2>1, <2>2, <2>3 DEF Sound, Loose, Keeps
<1>4. ASSUME NEW e \in DOMAIN db.equip, NEW q \in 0..MaxQuantity
      PROVE  /\ Shape(WithQuantity(db, e, q)) /\ WithQuantity(db, e, q).cards = db.cards
             /\ e \in DOMAIN WithQuantity(db, e, q).equip
             /\ Keeps(db.equip, WithQuantity(db, e, q).equip)
  <2> DEFINE p == WithQuantity(db, e, q)
  <2>1. /\ DOMAIN p = DOMAIN db /\ p.equip = [db.equip EXCEPT ![e].quantity = q]
        /\ p.cards = db.cards /\ p.taken = db.taken /\ p.lastCard = db.lastCard
        /\ p.drained = db.drained
    BY <1>0 DEF WithQuantity, Shape
  <2>2. /\ p.equip[e] = [db.equip[e] EXCEPT !.quantity = q]
        /\ \A x \in DOMAIN db.equip \ {e} : p.equip[x] = db.equip[x]
        /\ DOMAIN p.equip = DOMAIN db.equip
    BY <2>1
  <2>3. \A x \in DOMAIN db.equip : db.equip[x] \in EquipmentRow
    BY <1>1
  <2>4. p.equip[e] \in EquipmentRow /\ p.equip[e].number = db.equip[e].number
    BY <2>2, <2>3 DEF EquipmentRow
  <2>5. p.equip \in [1..Len(db.equip) -> EquipmentRow]
    BY <1>1, <2>1, <2>2, <2>3, <2>4
  <2> HIDE DEF p
  <2>6. p.equip \in Seq(EquipmentRow)
    BY <1>1, <2>5
  <2>7. Shape(p)
    BY <1>0, <2>1, <2>2, <2>6 DEF Shape
  <2> QED
    BY <2>1, <2>2, <2>4, <2>7 DEF Keeps, p
<1>5. CASE AddEquipment
  <2>1. PICK row \in EquipmentRow :
          db' = Sync(WithRows(db, <<row>>), Len(WithRows(db, <<row>>).equip))
    BY <1>5 DEF AddEquipment
  <2>2. <<row>> \in Seq(EquipmentRow) /\ Len(<<row>>) = 1
    OBVIOUS
  <2>3. /\ Shape(WithRows(db, <<row>>)) /\ WithRows(db, <<row>>).cards = db.cards
        /\ Keeps(db.equip, WithRows(db, <<row>>).equip)
        /\ Len(WithRows(db, <<row>>).equip) = Len(db.equip) + Len(<<row>>)
    BY <1>3, <2>2
  <2>4. Len(WithRows(db, <<row>>).equip) \in DOMAIN WithRows(db, <<row>>).equip
    BY <1>1, <2>2, <2>3 DEF Shape
  <2> QED
    BY <1>2, <2>1, <2>3, <2>4
<1>6. CASE ImportEquipment
  <2>1. PICK file \in EquipmentFiles : db' = WithRows(db, file)
    BY <1>6 DEF ImportEquipment
  <2>2. file \in Seq(EquipmentRow)
    BY FilesAssumption
  <2> QED
    BY <1>3, <2>1, <2>2 DEF NumbersKept, Keeps
<1>7. CASE ReceiveEquipment
  <2>1. PICK e \in DOMAIN db.equip, n \in Quantities :
            /\ WithQuantity(db, e, db.equip[e].quantity + n).equip[e].quantity <= MaxQuantity
            /\ db' = Sync(WithQuantity(db, e, db.equip[e].quantity + n), e)
    BY <1>7 DEF ReceiveEquipment
  <2>2. WithQuantity(db, e, db.equip[e].quantity + n).equip[e].quantity
            = db.equip[e].quantity + n
    BY <1>0, RowQuantity DEF WithQuantity, Shape, EquipmentRow
  <2>3. db.equip[e].quantity + n \in 0..MaxQuantity
    BY <1>0, <2>1, <2>2, RowQuantity, RegisterBounds DEF Quantities
  <2> QED
    BY <1>2, <1>4, <2>1, <2>3
<1>8. CASE IssueEquipment
  <2>1. PICK e \in DOMAIN db.equip, n \in Quantities :
            /\ n <= InStock(db, e)
            /\ db' = Sync(WithQuantity(db, e, db.equip[e].quantity - n), e)
    BY <1>8 DEF IssueEquipment
  <2>3. db.equip[e].quantity - n \in 0..MaxQuantity
    BY <1>0, <2>1, IssueLeavesEnough
  <2> QED
    BY <1>2, <1>4, <2>1, <2>3
<1>9. CASE MoveEquipment
  <2>1. PICK e \in DOMAIN db.equip : db' = Sync(db, e)
    BY <1>9 DEF MoveEquipment
  <2>2. Keeps(db.equip, db.equip)
    BY DEF Keeps
  <2> QED
    BY <1>0, <1>2, <2>1, <2>2
<1> QED
  BY <1>5, <1>6, <1>7, <1>8, <1>9

LEMMA CardStepsKeepNumbers ==
  ASSUME IInv,
         \/ OpenDatabase
         \/ ReceiveCard \/ AcceptIntoCard \/ WriteOff \/ CorrectSerial \/ DeleteDuplicate
  PROVE  NumbersKept(db, db')
<1>0. /\ DOMAIN db = {"equip", "cards", "lastCard", "taken", "linked", "unique", "behind", "drained"}
      /\ DOMAIN db.cards \subseteq 1..db.lastCard /\ db.lastCard \in Nat
      /\ \A c \in DOMAIN db.cards :
           DOMAIN db.cards[c] = {"serial", "number", "quantity", "legacy"}
  BY RegisterBounds DEF IInv, Sound, Loose, Shape
<1>1. SUFFICES db'.equip = db.equip /\ Keeps(db.cards, db'.cards)
  BY DEF NumbersKept, Keeps
<1>2. CASE OpenDatabase
  <2>1. PICK many, row :
          db' = [db EXCEPT
                   !.lastCard = @ + many,
                   !.cards = [c \in DOMAIN @ \cup (db.lastCard + 1)..(db.lastCard + many) |->
                                IF c \in (db.lastCard + 1)..(db.lastCard + many)
                                THEN MirrorOf(db, row[c]) ELSE @[c]]]
    BY <1>2 DEF OpenDatabase
  <2>2. DOMAIN db.cards \cap (db.lastCard + 1)..(db.lastCard + many) = {}
    BY <1>0
  <2>3. db'.equip = db.equip /\ \A c \in DOMAIN db.cards : db'.cards[c] = db.cards[c]
    BY <1>0, <2>1, <2>2
  <2> QED
    BY <2>3 DEF Keeps
<1>3. CASE ReceiveCard
  <2>1. PICK s \in Serials \cup {NoSerial}, n \in Numbers \cup {NoNumber},
             q \in Quantities, byDelivery \in BOOLEAN :
          LET d == PutCard(db, [serial |-> s, number |-> n, quantity |-> q,
                                legacy |-> Unlinked])
          IN db' = IF byDelivery THEN [d EXCEPT !.linked = @ \cup {d.lastCard}] ELSE d
    BY <1>3 DEF ReceiveCard
  <2> DEFINE d == PutCard(db, [serial |-> s, number |-> n, quantity |-> q,
                               legacy |-> Unlinked])
  <2>2. /\ DOMAIN d = DOMAIN db /\ d.equip = db.equip
        /\ \A c \in DOMAIN db.cards : d.cards[c] = db.cards[c]
    BY <1>0 DEF PutCard
  <2>3. \/ db' = d
        \/ db' = [d EXCEPT !.linked = @ \cup {d.lastCard}]
    BY <2>1
  <2> HIDE DEF d
  <2>4. db'.equip = db.equip /\ db'.cards = d.cards
    BY ONLY <1>0, <2>2, <2>3
  <2> QED
    BY <2>2, <2>4 DEF Keeps
<1>4. CASE AcceptIntoCard
  <2>1. PICK c \in DOMAIN db.cards, n \in Numbers \cup {NoNumber} :
          db' = [db EXCEPT !.linked = @ \cup {c},
                           !.cards[c].number = IF @ = NoNumber THEN n ELSE @]
    BY <1>4 DEF AcceptIntoCard
  <2>2. db'.equip = db.equip
    BY <1>0, <2>1
  <2>3. \A x \in DOMAIN db.cards \ {c} : db'.cards[x] = db.cards[x]
    BY <1>0, <2>1
  <2>4. db.cards[c].number # NoNumber => db'.cards[c].number = db.cards[c].number
    BY <1>0, <2>1
  <2> QED
    BY <2>2, <2>3, <2>4 DEF Keeps
<1>5. CASE WriteOff
  <2>1. db'.equip = db.equip /\ db'.cards = db.cards
    BY <1>0, <1>5 DEF WriteOff
  <2> QED
    BY <2>1 DEF Keeps
<1>6. CASE CorrectSerial
  <2>1. PICK c \in DOMAIN db.cards, s \in Serials :
          db' = [db EXCEPT !.cards = [@ EXCEPT ![c].serial = s]]
    BY <1>6 DEF CorrectSerial
  <2>2. /\ db'.equip = db.equip
        /\ \A x \in DOMAIN db.cards \ {c} : db'.cards[x] = db.cards[x]
        /\ db'.cards[c].number = db.cards[c].number
    BY <1>0, <2>1
  <2> QED
    BY <2>2 DEF Keeps
<1>7. CASE DeleteDuplicate
  <2>1. PICK c \in DOMAIN db.cards :
          db' = [db EXCEPT !.cards = [x \in DOMAIN @ \ {c} |-> @[x]]]
    BY <1>7 DEF DeleteDuplicate
  <2>2. /\ db'.equip = db.equip
        /\ \A x \in DOMAIN db'.cards : db'.cards[x] = db.cards[x]
    BY <1>0, <2>1
  <2> QED
    BY <2>2 DEF Keeps
<1> QED
  BY <1>2, <1>3, <1>4, <1>5, <1>6, <1>7

-----------------------------------------------------------------------------
(* A confirmed file. *)

\* The row of the file whose verdict announces a number for card c.
Announces(b, i, c) ==
  i \in DOMAIN b.file /\ b.now[i].status = "SUCCESS" /\ b.now[i].card = c

\* The tables of the open transaction come from the committed ones by giving the
\* cards of the rows done so far what the rows announce.
Assigned(d, b) ==
  /\ DOMAIN b.tables.cards = DOMAIN d.cards
  /\ \A c \in DOMAIN d.cards :
       /\ \A i \in 1..(b.at - 1) : Announces(b, i, c) =>
            b.tables.cards[c] = [d.cards[c] EXCEPT !.number = b.file[i].number]
       /\ (\A i \in 1..(b.at - 1) : ~Announces(b, i, c)) =>
            b.tables.cards[c] = d.cards[c]

\* What is known of an open transaction b: nobody writes to the committed tables d
\* meanwhile, so that its analysis is theirs; and what it does to them.
Follows(d, b) ==
  /\ b.shown = b.now
  /\ b.now = Analyze(d, b.file)
  /\ Assigned(d, b)
  /\ NumbersKept(d, b.tables)
  /\ DOMAIN b.tables.equip = DOMAIN d.equip
  /\ Shared(b.tables) \subseteq Shared(d)

BatchInv == batch # NoBatch => Follows(db, batch)

\* What the analysis promises of a row that will succeed.
LEMMA SuccessFacts ==
  ASSUME NEW d, NEW file, NEW i \in DOMAIN file,
         Analyze(d, file)[i].status = "SUCCESS"
  PROVE  /\ ~Malformed(file, i)
         /\ Analyze(d, file)[i].card = TheCard(d, file[i].serial)
         /\ TheCard(d, file[i].serial) \in DOMAIN d.cards
         /\ d.cards[TheCard(d, file[i].serial)].serial = file[i].serial
<1> DEFINE v == LookUp(d, file, i)
<1>1. \/ Analyze(d, file)[i] = v
      \/ Analyze(d, file)[i] = [v EXCEPT !.status = "DUPLICATE_INVENTORY_NUMBER"]
  BY DEF Analyze
<1>2. /\ \E status, current, card :
             v = [status |-> status, current |-> current, card |-> card]
      /\ v.status = "SUCCESS" =>
           /\ ~Malformed(file, i) /\ WithSerial(d, file[i].serial) # {}
           /\ v.card = TheCard(d, file[i].serial)
  BY DEF LookUp, Verdict
<1> HIDE DEF v
<1>3. Analyze(d, file)[i] = v
  <2>1. CASE Analyze(d, file)[i] = [v EXCEPT !.status = "DUPLICATE_INVENTORY_NUMBER"]
    <3>1. Analyze(d, file)[i].status = "DUPLICATE_INVENTORY_NUMBER"
      BY ONLY <1>2, <2>1
    <3> QED
      BY <3>1
  <2> QED
    BY <1>1, <2>1
<1>4. WithSerial(d, file[i].serial) # {} /\ ~Malformed(file, i)
      /\ v.card = TheCard(d, file[i].serial)
  BY <1>2, <1>3
<1> QED
  BY <1>3, <1>4, CardFound

\* No two rows announce something of one card: they would have its S/N, and rows
\* with one S/N are errors.
LEMMA AnnouncedOnce ==
  ASSUME NEW d, NEW b, b.now = Analyze(d, b.file), NEW c, NEW i, NEW j,
         Announces(b, i, c), Announces(b, j, c)
  PROVE  i = j
<1>1. d.cards[c].serial = b.file[i].serial /\ d.cards[c].serial = b.file[j].serial
      /\ ~Malformed(b.file, i) /\ i \in DOMAIN b.file /\ j \in DOMAIN b.file
  BY SuccessFacts DEF Announces
<1> QED
  BY <1>1 DEF Malformed

LEMMA KeepsTransitive ==
  ASSUME NEW a, NEW b, NEW c, NumbersKept(a, b), NumbersKept(b, c),
         DOMAIN b.cards = DOMAIN a.cards, DOMAIN b.equip = DOMAIN a.equip
  PROVE  NumbersKept(a, c)
BY DEF NumbersKept, Keeps

\* A row that announces nothing.
LEMMA SkipFollows ==
  ASSUME NEW d, NEW b, NEW w, Follows(d, b), b.at \in Nat \ {0},
         b.now[b.at].status # "SUCCESS",
         w.at = b.at + 1, w.file = b.file, w.now = b.now, w.shown = b.shown,
         w.tables = b.tables
  PROVE  Follows(d, w)
<1>1. \A i \in 1..(w.at - 1) : i \in 1..(b.at - 1) \/ i = b.at
  OBVIOUS
<1>2. \A i \in 1..(b.at - 1) : i \in 1..(w.at - 1)
  OBVIOUS
<1>3. \A i, c : Announces(w, i, c) <=> Announces(b, i, c)
  BY DEF Announces
<1>4. \A c : ~Announces(b, b.at, c)
  BY DEF Announces
<1>5. Assigned(d, w)
  BY <1>1, <1>2, <1>3, <1>4 DEF Follows, Assigned
<1> QED
  BY <1>5 DEF Follows

\* A row that gives its card the number it announced.
LEMMA AssignFollows ==
  ASSUME NEW d, NEW b, NEW w, Follows(d, b), Shape(d), Shape(b.tables),
         b.at \in Nat \ {0}, b.at \in DOMAIN b.file, b.now[b.at].status = "SUCCESS",
         CanAssign(b.tables, b.file[b.at].serial, b.file[b.at].number),
         w.at = b.at + 1, w.file = b.file, w.now = b.now, w.shown = b.shown,
         w.tables = Assign(b.tables, b.file[b.at].serial, b.file[b.at].number)
  PROVE  Follows(d, w)
<1> DEFINE s == b.file[b.at].serial
           n == b.file[b.at].number
           t == b.tables
           u == w.tables
           card == TheCard(t, s)
           e == t.cards[card].legacy
<1>0. /\ card = TheCard(t, s) /\ e = t.cards[card].legacy
      /\ Shape(t) /\ CanAssign(t, s, n) /\ u = Assign(t, s, n)
      /\ s = b.file[b.at].serial /\ n = b.file[b.at].number /\ t = b.tables
      /\ u = w.tables
  OBVIOUS
<1> HIDE DEF card, e, s, n, t, u
<1>1. Given(t, u, card, e, n)
  BY ONLY <1>0, AssignFacts
<1>2. Announces(b, b.at, card)
  <2>1. ASSUME NEW c \in DOMAIN d.cards
        PROVE  t.cards[c].serial = d.cards[c].serial
    <3>1. DOMAIN d.cards[c] = {"serial", "number", "quantity", "legacy"}
      BY DEF Shape
    <3> QED
      BY <1>0, <3>1 DEF Follows, Assigned
  <2>2. WithSerial(t, s) = WithSerial(d, s)
    BY <1>0, <2>1 DEF WithSerial, Follows, Assigned
  <2>3. card = TheCard(d, s)
    BY <1>0, <2>2 DEF TheCard
  <2> QED
    BY <1>0, <2>3, SuccessFacts DEF Announces, Follows
<1>3. ASSUME NEW i \in 1..(b.at - 1) PROVE ~Announces(b, i, card)
  <2>1. i # b.at
    OBVIOUS
  <2> QED
    BY <1>2, <2>1, AnnouncedOnce DEF Follows
<1>4. \A c : Announces(b, b.at, c) => c = card
  BY <1>2 DEF Announces
<1>5. \A i, c : Announces(w, i, c) <=> Announces(b, i, c)
  BY DEF Announces
<1>6. \A i \in 1..(w.at - 1) : i \in 1..(b.at - 1) \/ i = b.at
  OBVIOUS
<1>7. \A i \in 1..(b.at - 1) : i \in 1..(w.at - 1)
  OBVIOUS
<1>8. b.at \in 1..(w.at - 1)
  OBVIOUS
<1>9. ASSUME NEW c \in DOMAIN d.cards
      PROVE  /\ \A i \in 1..(w.at - 1) : Announces(w, i, c) =>
                  u.cards[c] = [d.cards[c] EXCEPT !.number = w.file[i].number]
             /\ (\A i \in 1..(w.at - 1) : ~Announces(w, i, c)) =>
                  u.cards[c] = d.cards[c]
  <2>1. CASE c = card
    <3>1. t.cards[c] = d.cards[c]
      BY <1>0, <1>3, <2>1 DEF Follows, Assigned
    <3> QED
      BY <1>0, <1>1, <1>2, <1>3, <1>5, <1>6, <1>8, <2>1, <3>1 DEF Given
  <2>2. CASE c # card
    <3>1. u.cards[c] = b.tables.cards[c]
      BY <1>0, <1>1, <2>2 DEF Follows, Assigned, Given
    <3>2. /\ \A i \in 1..(b.at - 1) : Announces(b, i, c) =>
                b.tables.cards[c] = [d.cards[c] EXCEPT !.number = b.file[i].number]
          /\ (\A i \in 1..(b.at - 1) : ~Announces(b, i, c)) =>
                b.tables.cards[c] = d.cards[c]
      BY DEF Follows, Assigned
    <3>3. ~Announces(b, b.at, c)
      BY <1>4, <2>2
    <3> QED
      BY ONLY <1>5, <1>6, <1>7, <3>1, <3>2, <3>3, w.file = b.file
  <2> QED
    BY <2>1, <2>2
<1>10. Assigned(d, w)
  <2>1. DOMAIN u.cards = DOMAIN d.cards
    BY <1>0, <1>1 DEF Follows, Assigned, Given
  <2>2. u = w.tables
    BY <1>0
  <2> QED
    BY ONLY <1>9, <2>1, <2>2 DEF Assigned
<1>11. NumbersKept(t, u) /\ Shared(u) \subseteq Shared(t)
  BY <1>0, AssignKeepsNumbers, AssignKeepsApart DEF NumbersKept
<1>12. NumbersKept(d, u)
  BY <1>0, <1>1, <1>11, KeepsTransitive DEF Follows, Assigned, Given
<1> QED
  BY <1>0, <1>1, <1>10, <1>11, <1>12 DEF Follows, Given

LEMMA BatchSteps ==
  ASSUME IInv, BatchInv, SkipRow \/ AssignRow
  PROVE  BatchInv'
<1>1. batch # NoBatch /\ db' = db /\ batch.at <= Len(batch.file)
  BY DEF SkipRow, AssignRow, ToAssign, Idle
<1>2. /\ DOMAIN batch = {"file", "shown", "now", "at", "tables"}
      /\ batch.at \in Nat \ {0} /\ batch.at \in DOMAIN batch.file
      /\ Shape(db) /\ Shape(batch.tables)
  BY <1>1, NumberFilesAssumption DEF IInv, Sound, Loose
<1>3. Follows(db, batch)
  BY <1>1 DEF BatchInv
<1>4. CASE SkipRow
  <2>1. batch' = [batch EXCEPT !.at = @ + 1]
    BY <1>4 DEF SkipRow
  <2>2. /\ batch'.at = batch.at + 1 /\ batch'.now = batch.now
        /\ batch'.shown = batch.shown /\ batch'.file = batch.file
        /\ batch'.tables = batch.tables
    BY ONLY <1>2, <2>1
  <2>3. batch.now[batch.at].status # "SUCCESS"
    BY <1>1, <1>4 DEF SkipRow, ToAssign
  <2>4. Follows(db, batch')
    BY <1>2, <1>3, <2>2, <2>3, SkipFollows
  <2> QED
    BY <1>1, <2>4 DEF BatchInv, Follows
<1>5. CASE AssignRow
  <2> DEFINE next == Assign(batch.tables, batch.file[batch.at].serial,
                            batch.file[batch.at].number)
  <2>1. /\ batch' = [batch EXCEPT !.at = @ + 1, !.tables = next]
        /\ CanAssign(batch.tables, batch.file[batch.at].serial,
                     batch.file[batch.at].number)
        /\ batch.now[batch.at].status = "SUCCESS"
    BY <1>5 DEF AssignRow, Assignable, ToAssign
  <2> HIDE DEF next
  <2>2. /\ batch'.at = batch.at + 1 /\ batch'.now = batch.now
        /\ batch'.shown = batch.shown /\ batch'.file = batch.file
        /\ batch'.tables = next
    BY ONLY <1>2, <2>1
  <2>3. Follows(db, batch')
    BY <1>2, <1>3, <2>1, <2>2, AssignFollows DEF next
  <2> QED
    BY <1>1, <2>3 DEF BatchInv, Follows
<1> QED
  BY <1>4, <1>5

\* BatchInv needs IInv, and nothing more.
LEMMA BatchKept ==
  ASSUME IInv, BatchInv, [Next]_vars
  PROVE  BatchInv'
<1>1. CASE UNCHANGED <<db, batch>>
  BY <1>1 DEF BatchInv, Follows, Assigned, Announces, NumbersKept, Keeps
<1>2. CASE batch' = NoBatch
  BY <1>2 DEF BatchInv
<1>3. CASE ConfirmNumbers
  <2>1. PICK p \in plans :
          /\ db' = db
          /\ batch' = IF Confirmable(db, p)
                      THEN [file |-> p.file, shown |-> p.seen,
                            now |-> Analyze(db, p.file), at |-> 1, tables |-> db]
                      ELSE NoBatch
    BY <1>3 DEF ConfirmNumbers
  <2>2. SUFFICES ASSUME batch' # NoBatch PROVE Follows(db, batch')
    BY <2>1 DEF BatchInv, Follows, Assigned, Announces, NumbersKept, Keeps
  <2>3. /\ batch'.file = p.file /\ batch'.shown = p.seen /\ batch'.at = 1
        /\ batch'.now = Analyze(db, p.file) /\ batch'.tables = db
    BY <2>1, <2>2
  <2>4. Analyze(db, p.file) = p.seen
    BY <2>1, <2>2 DEF Confirmable, StillMatches
  <2>5. 1..(batch'.at - 1) = {}
    BY <2>3
  <2>6. Assigned(db, batch')
    BY <2>3, <2>5 DEF Assigned
  <2>7. NumbersKept(db, db)
    BY DEF NumbersKept, Keeps
  <2> QED
    BY <2>3, <2>4, <2>6, <2>7 DEF Follows
<1>4. CASE SkipRow \/ AssignRow
  BY <1>4, BatchSteps
<1>5. CASE PreviewNumbers \/ ForgetPlan
  BY <1>1, <1>5 DEF PreviewNumbers, ForgetPlan
<1>6. CASE \/ AddEquipment \/ ImportEquipment \/ ReceiveEquipment \/ IssueEquipment
           \/ ImportOperations \/ MoveEquipment \/ OpenDatabase
           \/ ReceiveCard \/ AcceptIntoCard \/ WriteOff \/ CorrectSerial \/ DeleteDuplicate
           \/ AssignNumber \/ CommitNumbers \/ RollBack \/ ServerEnds
  <2>1. batch' = NoBatch
    BY <1>6 DEF AddEquipment, ImportEquipment, ReceiveEquipment, IssueEquipment,
                ImportOperations, MoveEquipment, OpenDatabase, ReceiveCard, AcceptIntoCard, WriteOff,
                CorrectSerial, DeleteDuplicate, AssignNumber, CommitNumbers, RollBack,
                ServerEnds, Idle
  <2> QED
    BY <1>2, <2>1
<1> QED
  BY <1>1, <1>3, <1>4, <1>5, <1>6 DEF Next, vars

THEOREM BatchInvariance == Spec => [](IInv /\ BatchInv)
<1>1. Init => BatchInv
  BY DEF Init, BatchInv
<1> QED
  BY <1>1, BatchKept, Invariance, PTL DEF Spec

-----------------------------------------------------------------------------
(* What these steps never do. *)

ApartStep ==
  /\ Keeps(db.cards, db'.cards)
  /\ Keeps(db.equip, db'.equip)
  /\ AssignNumber \/ CommitNumbers => Shared(db') \subseteq Shared(db)

LEMMA ApartInEachStep ==
  ASSUME IInv, BatchInv, [Next]_vars
  PROVE  ApartStep
<1>0. Shape(db)
  BY DEF IInv, Sound, Loose
<1>1. CASE db' = db
  BY <1>1 DEF ApartStep, Keeps
<1>2. CASE AssignNumber
  <2>1. PICK s \in Serials, n \in Numbers : CanAssign(db, s, n) /\ db' = Assign(db, s, n)
    BY <1>2 DEF AssignNumber
  <2> QED
    BY <1>0, <2>1, AssignKeepsNumbers, AssignKeepsApart DEF ApartStep
<1>3. CASE CommitNumbers
  <2>1. Follows(db, batch) /\ db' = batch.tables
    BY <1>3 DEF CommitNumbers, Idle, BatchInv
  <2> QED
    BY <2>1 DEF ApartStep, Follows, NumbersKept
<1>4. CASE ~AssignNumber /\ ~CommitNumbers /\ db' # db
  <2>1. NumbersKept(db, db')
    <3>1. CASE \/ AddEquipment \/ ImportEquipment \/ ReceiveEquipment \/ IssueEquipment
               \/ MoveEquipment
      BY <3>1, LegacyStepsKeepNumbers
    <3>2. CASE \/ OpenDatabase
               \/ ReceiveCard \/ AcceptIntoCard \/ WriteOff \/ CorrectSerial
               \/ DeleteDuplicate
      BY <3>2, CardStepsKeepNumbers
    <3>3. CASE ImportOperations
      BY <3>3, FileKeepsNumbers
    <3> QED
      BY <1>4, <3>1, <3>2, <3>3 DEF Next, vars, PreviewNumbers, ForgetPlan, ConfirmNumbers,
                              SkipRow, AssignRow, RollBack, ServerEnds
  <2> QED
    BY <1>4, <2>1 DEF ApartStep, NumbersKept
<1> QED
  BY <1>1, <1>2, <1>3, <1>4

\* A number is never replaced or removed, and giving one never makes two positions
\* share it, in whichever of the two tables they are
\* (assign_inventory_number_in_transaction, its form and its file).
THEOREM NumbersKeptApart == Spec => NumbersStayApart
<1>1. IInv /\ BatchInv /\ [Next]_vars => [ApartStep]_vars
  BY ApartInEachStep
<1> QED
  BY <1>1, BatchInvariance, PTL DEF Spec, NumbersStayApart, ApartStep

ConfirmStep ==
  batch # NoBatch /\ db' # db =>
       LET Shown(i, c) == batch.shown[i].status = "SUCCESS" /\ batch.shown[i].card = c
       IN \A c \in DOMAIN db.cards :
            db'.cards[c] =
              IF \E i \in DOMAIN batch.shown : Shown(i, c)
              THEN [db.cards[c] EXCEPT !.number =
                      batch.file[CHOOSE i \in DOMAIN batch.shown : Shown(i, c)].number]
              ELSE db.cards[c]

LEMMA ConfirmInEachStep ==
  ASSUME IInv, BatchInv, [Next]_vars
  PROVE  ConfirmStep
<1>1. SUFFICES ASSUME batch # NoBatch, db' # db, NEW c \in DOMAIN db.cards
      PROVE  LET Shown(i) == batch.shown[i].status = "SUCCESS" /\ batch.shown[i].card = c
             IN db'.cards[c] =
                  IF \E i \in DOMAIN batch.shown : Shown(i)
                  THEN [db.cards[c] EXCEPT !.number =
                          batch.file[CHOOSE i \in DOMAIN batch.shown : Shown(i)].number]
                  ELSE db.cards[c]
  BY DEF ConfirmStep
<1>2. CommitNumbers
  BY <1>1 DEF Next, vars, Idle, AddEquipment, ImportEquipment, ReceiveEquipment,
              IssueEquipment, ImportOperations, MoveEquipment, OpenDatabase, ReceiveCard, AcceptIntoCard,
              WriteOff, CorrectSerial, DeleteDuplicate, AssignNumber, PreviewNumbers,
              ForgetPlan, ConfirmNumbers, SkipRow, AssignRow, RollBack, ServerEnds
<1>3. Follows(db, batch)
  BY <1>1 DEF BatchInv
<1>4. /\ db' = batch.tables /\ batch.at > Len(batch.file) /\ batch.at \in Nat
      /\ batch.file \in Seq(NumberRow)
  BY <1>1, <1>2, NumberFilesAssumption DEF CommitNumbers, IInv
<1>5. DOMAIN batch.shown = DOMAIN batch.file
  BY <1>3 DEF Follows, Analyze
<1>6. DOMAIN batch.file \subseteq 1..(batch.at - 1)
  BY <1>4
<1> DEFINE Shown(i) == batch.shown[i].status = "SUCCESS" /\ batch.shown[i].card = c
<1>7. CASE \E i \in DOMAIN batch.shown : Shown(i)
  <2> DEFINE i == CHOOSE j \in DOMAIN batch.shown : Shown(j)
  <2>1. i \in DOMAIN batch.shown /\ Shown(i)
    BY <1>7
  <2> HIDE DEF i
  <2>2. Announces(batch, i, c) /\ i \in 1..(batch.at - 1)
    BY <1>3, <1>5, <1>6, <2>1 DEF Announces, Follows
  <2>3. db'.cards[c] = [db.cards[c] EXCEPT !.number = batch.file[i].number]
    BY <1>3, <1>4, <2>2 DEF Follows, Assigned
  <2> QED
    BY <1>7, <2>3 DEF i
<1>8. CASE ~\E i \in DOMAIN batch.shown : Shown(i)
  <2>1. \A i : ~Announces(batch, i, c)
    BY <1>3, <1>5, <1>8 DEF Announces, Follows
  <2>2. db'.cards[c] = db.cards[c]
    BY <1>3, <1>4, <2>1 DEF Follows, Assigned
  <2> QED
    BY <1>8, <2>2
<1> QED
  BY <1>7, <1>8

\* Confirming a file of inventory numbers gives the cards the preview showed the
\* numbers it showed, and changes no other card; if the analysis differs from the
\* preview, nothing changes (confirm_inventory_number_import,
\* _inventory_preview_matches).
THEOREM ConfirmedAsShown == Spec => ConfirmDoesWhatItShowed
<1>1. IInv /\ BatchInv /\ [Next]_vars => [ConfirmStep]_vars
  BY ConfirmInEachStep
<1> QED
  BY <1>1, BatchInvariance, PTL DEF Spec, ConfirmDoesWhatItShowed, ConfirmStep
=============================================================================
