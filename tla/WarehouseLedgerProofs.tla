---------------------- MODULE WarehouseLedgerProofs ----------------------
(***************************************************************************)
(* Proofs about WarehouseLedger, for every value of the constants: types,  *)
(* BooksAreSound, the refinement of StockPromise, CheckedFileNeverRefused, *)
(* FileAllOrNothing, NoNewTwins and, of what LedgerViews shows,            *)
(* StockIsOneAndMoves.                                                     *)
(*                                                                         *)
(* The invariant has to say more of an image than the properties do: a     *)
(* card that lost stock still has the allocation row that took it          *)
(* (Covered), so a card id that is not in the table has lost none. And of  *)
(* the open transaction: it only adds write-offs to what is committed.     *)
(*                                                                         *)
(* A file is written without an error after its dry run because a row      *)
(* determines what it makes of the tables: FIFO leaves no choice, as two   *)
(* allocations with one sum that both exhaust older lots first are equal   *)
(* (OneAllocation, by TotalGrows). The totals are folds; what is needed of *)
(* them is proved from a smallest counterexample.                          *)
(*                                                                         *)
(* The screens agree because the accounts do (AccountsInv): the aggregate  *)
(* of a card is the total of its allocation rows, a matched write-off is   *)
(* covered by its rows in full and a problem row not at all; then every    *)
(* screen is a regrouping of one total, what is left of all lots. That     *)
(* whatever is in stock can leave needs the cables apart from the rest.    *)
(***************************************************************************)
EXTENDS LedgerViews, FiniteSetTheorems, WellFoundedInduction, TLAPS

Covered(d) ==
  \A c \in CardIds :
    d.taken[c] > 0 => \E i \in DOMAIN d.issues : d.issues[i].parts[c] > 0

Sound(d) ==
  /\ WellFormed(d)
  /\ NeverOverIssuedIn(d)
  /\ HistoryAnchoredIn(d)
  /\ Covered(d)

\* What a transaction of write-offs may differ in from the committed tables.
OnlyTakes(d, e) ==
  /\ e.cards = d.cards
  /\ e.lastCard = d.lastCard
  /\ \A c \in CardIds : d.taken[c] <= e.taken[c]

IInv ==
  /\ TypeOK
  /\ Sound(db)
  /\ Sound(work)
  /\ OnlyTakes(db, work)
  /\ phase = "idle" => work = db

-----------------------------------------------------------------------------
(* What the image operators keep. *)

\* A card id that is not in the table has no write-offs: ids are never reused
\* and a card with allocations is never deleted.
LEMMA AbsentUntaken ==
  ASSUME NEW d, Sound(d), NEW c \in CardIds, c \notin DOMAIN d.cards
  PROVE  d.taken[c] = 0
<1>1. d.taken[c] \in Nat
  BY DEF Sound, WellFormed
<1>2. ~(d.taken[c] > 0)
  <2>1. SUFFICES ASSUME d.taken[c] > 0 PROVE FALSE
    OBVIOUS
  <2>2. PICK i \in DOMAIN d.issues : d.issues[i].parts[c] > 0
    BY <2>1 DEF Sound, Covered
  <2> QED
    BY <2>2 DEF Sound, HistoryAnchoredIn
<1> QED
  BY <1>1, <1>2

\* e is d after an update of the card table alone: quantities stay, and a card
\* that goes has no allocation row.
CardsChange(d, e) ==
  /\ DOMAIN e = {"cards", "lastCard", "issues", "taken", "legacy"}
  /\ e.issues = d.issues /\ e.taken = d.taken /\ e.legacy = d.legacy
  /\ e.lastCard \in 0..MaxCards
  /\ DOMAIN e.cards \subseteq 1..e.lastCard
  /\ e.cards \in [DOMAIN e.cards -> Card]
  /\ \A c \in DOMAIN d.cards \cap DOMAIN e.cards :
       e.cards[c].quantity = d.cards[c].quantity
  /\ \A c \in DOMAIN d.cards \ DOMAIN e.cards :
       \A i \in DOMAIN d.issues : d.issues[i].parts[c] = 0

Grows(d, e) == CardsChange(d, e) /\ DOMAIN d.cards \subseteq DOMAIN e.cards

Drops(d, e) ==
  /\ e.taken = d.taken
  /\ \E c \in DOMAIN d.cards :
       /\ \A i \in DOMAIN d.issues : d.issues[i].parts[c] = 0
       /\ e.cards = [x \in DOMAIN d.cards \ {c} |-> d.cards[x]]

\* An operation on cards that follows CardsChange keeps the image sound.
LEMMA CardsChangeSound ==
  ASSUME NEW d, Sound(d), NEW e, CardsChange(d, e)
  PROVE  Sound(e)
<1> USE DEF CardsChange
<1>1. MaxCards \in Nat /\ d.lastCard \in 0..MaxCards /\ DOMAIN d.cards \subseteq CardIds
  BY BoundsAssumption DEF BoundsAssumption, Sound, WellFormed, CardIds
<1>2. DOMAIN e.cards \subseteq CardIds
  BY <1>1 DEF CardIds
<1>3. WellFormed(e)
  BY DEF Sound, WellFormed
<1>4. NeverOverIssuedIn(e)
  <2>1. SUFFICES ASSUME NEW c \in DOMAIN e.cards
                 PROVE  e.taken[c] <= e.cards[c].quantity
    BY DEF NeverOverIssuedIn
  <2>2. e.cards[c] \in Card
    OBVIOUS
  <2>3. e.cards[c].quantity \in Nat /\ e.cards[c].quantity > 0
    BY <2>2 DEF Card, Quantities
  <2>4. CASE c \in DOMAIN d.cards
    BY <2>4 DEF Sound, NeverOverIssuedIn
  <2>5. CASE c \notin DOMAIN d.cards
    <3>1. d.taken[c] = 0
      BY <1>2, <2>5, AbsentUntaken
    <3> QED BY <3>1, <2>3
  <2> QED BY <2>4, <2>5
<1>5. \A c \in CardIds, i \in DOMAIN e.issues :
        e.issues[i].parts[c] > 0 => c \in DOMAIN e.cards
  <2>1. SUFFICES ASSUME NEW c \in CardIds, NEW i \in DOMAIN e.issues,
                        e.issues[i].parts[c] > 0
                 PROVE  c \in DOMAIN e.cards
    OBVIOUS
  <2>2. c \in DOMAIN d.cards
    BY <2>1 DEF Sound, HistoryAnchoredIn
  <2> QED
    BY <2>1, <2>2
<1>6. Covered(e)
  BY DEF Sound, Covered
<1> QED BY <1>3, <1>4, <1>5, <1>6 DEF Sound, HistoryAnchoredIn

\* insert_one: the new card gets the next id, which nothing refers to yet.
LEMMA AddCardSound ==
  ASSUME NEW d, Sound(d), NEW card \in Card, d.lastCard < MaxCards
  PROVE  Sound(AddCard(d, card)) /\ Grows(d, AddCard(d, card))
<1> DEFINE new == d.lastCard + 1
           e == AddCard(d, card)
<1>1. new \in 1..MaxCards /\ new \notin DOMAIN d.cards /\ DOMAIN d.cards \subseteq 1..new
  BY BoundsAssumption DEF BoundsAssumption, Sound, WellFormed
<1>2. /\ e.cards = [c \in DOMAIN d.cards \cup {new} |->
                      IF c = new THEN card ELSE d.cards[c]]
      /\ e.lastCard = new
      /\ e.issues = d.issues /\ e.taken = d.taken /\ e.legacy = d.legacy
      /\ DOMAIN e = {"cards", "lastCard", "issues", "taken", "legacy"}
  BY DEF AddCard, Sound, WellFormed
<1>3. d.cards \in [DOMAIN d.cards -> Card]
  BY DEF Sound, WellFormed
<1>4. Grows(d, e)
  <2> HIDE DEF e
  <2> QED BY <1>1, <1>2, <1>3 DEF CardsChange, Grows
<1> QED
  BY <1>4, CardsChangeSound DEF Grows

\* insert_many: the cards of a file get the next ids in order.
LEMMA AddCardsSound ==
  ASSUME NEW d, Sound(d), NEW cards \in Seq(Card),
         d.lastCard + Len(cards) <= MaxCards
  PROVE  Sound(AddCards(d, cards)) /\ Grows(d, AddCards(d, cards))
<1> DEFINE new == (d.lastCard + 1)..(d.lastCard + Len(cards))
           e == AddCards(d, cards)
<1>1. /\ Len(cards) \in Nat
      /\ d.lastCard \in 0..MaxCards
      /\ MaxCards \in Nat
      /\ DOMAIN d.cards \subseteq 1..d.lastCard
  BY BoundsAssumption DEF BoundsAssumption, Sound, WellFormed
<1>2. /\ e.cards = [c \in DOMAIN d.cards \cup new |->
                      IF c > d.lastCard THEN cards[c - d.lastCard] ELSE d.cards[c]]
      /\ e.lastCard = d.lastCard + Len(cards)
      /\ e.issues = d.issues /\ e.taken = d.taken /\ e.legacy = d.legacy
      /\ DOMAIN e = {"cards", "lastCard", "issues", "taken", "legacy"}
  BY DEF AddCards, Sound, WellFormed
<1>3. d.cards \in [DOMAIN d.cards -> Card]
  BY DEF Sound, WellFormed
<1>4. \A c \in new : c > d.lastCard /\ cards[c - d.lastCard] \in Card
  BY <1>1
<1>5. \A c \in DOMAIN d.cards : ~(c > d.lastCard)
  BY <1>1
<1>6. e.cards \in [DOMAIN e.cards -> Card] /\ DOMAIN e.cards = DOMAIN d.cards \cup new
  <2> HIDE DEF new, e
  <2> QED BY <1>2, <1>3, <1>4, <1>5
<1>7. \A c \in DOMAIN d.cards : e.cards[c] = d.cards[c]
  <2> HIDE DEF new, e
  <2> QED BY <1>2, <1>5
<1>8. e.lastCard \in 0..MaxCards /\ DOMAIN e.cards \subseteq 1..e.lastCard
  <2> HIDE DEF e
  <2> QED BY <1>1, <1>2, <1>6
<1>9. Grows(d, e)
  <2> HIDE DEF e, new
  <2> QED BY <1>2, <1>6, <1>7, <1>8 DEF CardsChange, Grows
<1> QED
  BY <1>9, CardsChangeSound DEF Grows

\* A correction that leaves the quantity of the card alone keeps the image sound.
LEMMA SetCardSound ==
  ASSUME NEW d, Sound(d), NEW c \in DOMAIN d.cards, NEW card \in Card,
         card.quantity = d.cards[c].quantity
  PROVE  Sound(SetCard(d, c, card)) /\ Grows(d, SetCard(d, c, card))
<1> DEFINE e == SetCard(d, c, card)
<1>1. /\ e.cards = [d.cards EXCEPT ![c] = card]
      /\ e.lastCard = d.lastCard
      /\ e.issues = d.issues /\ e.taken = d.taken /\ e.legacy = d.legacy
      /\ DOMAIN e = {"cards", "lastCard", "issues", "taken", "legacy"}
  BY DEF SetCard, Sound, WellFormed
<1>2. /\ d.cards \in [DOMAIN d.cards -> Card]
      /\ d.lastCard \in 0..MaxCards
      /\ DOMAIN d.cards \subseteq 1..d.lastCard
  BY DEF Sound, WellFormed
<1>3. Grows(d, e)
  <2> HIDE DEF e
  <2> QED BY <1>1, <1>2 DEF CardsChange, Grows
<1> QED
  BY <1>3, CardsChangeSound DEF Grows

\* delete_duplicate_receipt: the card that goes has no allocation row.
LEMMA DeleteCardSound ==
  ASSUME NEW d, Sound(d), NEW c, NEW linked, CanDeleteDuplicate(d, c, linked)
  PROVE  Sound(DeleteCard(d, c)) /\ Drops(d, DeleteCard(d, c))
<1> DEFINE e == DeleteCard(d, c)
<1>1. /\ e.cards = [x \in DOMAIN d.cards \ {c} |-> d.cards[x]]
      /\ e.lastCard = d.lastCard
      /\ e.issues = d.issues /\ e.taken = d.taken /\ e.legacy = d.legacy
      /\ DOMAIN e = {"cards", "lastCard", "issues", "taken", "legacy"}
  BY DEF DeleteCard, Sound, WellFormed
<1>2. /\ d.cards \in [DOMAIN d.cards -> Card]
      /\ d.lastCard \in 0..MaxCards
      /\ DOMAIN d.cards \subseteq 1..d.lastCard
  BY DEF Sound, WellFormed
<1>3. \A i \in DOMAIN d.issues : d.issues[i].parts[c] = 0
  BY DEF CanDeleteDuplicate
<1>4. CardsChange(d, e)
  <2> HIDE DEF e
  <2> QED BY <1>1, <1>2, <1>3 DEF CardsChange
<1>5. Drops(d, e)
  BY <1>1, <1>3 DEF CanDeleteDuplicate, Drops
<1> QED
  BY <1>4, <1>5, CardsChangeSound

\* One FIFO allocation: every share is a whole number within its lot.
LEMMA SharesWithinLots ==
  ASSUME NEW d, Sound(d), NEW lots \in SUBSET DOMAIN d.cards,
         NEW q \in Nat, NEW f \in FifoShares(d, lots, q)
  PROVE  /\ PartsOf(f) \in [CardIds -> Nat]
         /\ \A c \in CardIds : PartsOf(f)[c] > 0 => c \in DOMAIN d.cards
         /\ \A c \in DOMAIN d.cards : d.taken[c] + PartsOf(f)[c] <= d.cards[c].quantity
<1>1. f \in [lots -> 0..q] /\ \A c \in lots : f[c] <= Available(d, c)
  BY DEF FifoShares
<1>2. PartsOf(f) = [c \in CardIds |-> IF c \in lots THEN f[c] ELSE 0]
  BY <1>1 DEF PartsOf
<1>3. \A c \in lots : f[c] \in Nat
  BY <1>1
<1>4. PartsOf(f) \in [CardIds -> Nat]
  BY <1>2, <1>3
<1>5. \A c \in CardIds : PartsOf(f)[c] > 0 => c \in DOMAIN d.cards
  BY <1>2
<1>6. ASSUME NEW c \in DOMAIN d.cards
      PROVE  d.taken[c] + PartsOf(f)[c] <= d.cards[c].quantity
  <2>1. /\ c \in CardIds
        /\ d.taken[c] \in Nat
        /\ d.cards[c].quantity \in Nat
        /\ d.taken[c] <= d.cards[c].quantity
    BY BoundsAssumption DEF BoundsAssumption, Sound, WellFormed, NeverOverIssuedIn, CardIds, Card, Quantities
  <2>2. CASE c \in lots
    BY <1>1, <1>2, <1>3, <2>1, <2>2 DEF Available
  <2>3. CASE c \notin lots
    BY <1>2, <2>1, <2>3
  <2> QED BY <2>2, <2>3
<1> QED
  BY <1>4, <1>5, <1>6

\* One more write-off with the allocation rows `parts`: what both kinds of
\* write-off do to the image.
LEMMA AppendIssueSound ==
  ASSUME NEW d, Sound(d), NEW e, NEW issue \in Issue,
         DOMAIN e = {"cards", "lastCard", "issues", "taken", "legacy"},
         e.cards = d.cards, e.lastCard = d.lastCard, e.legacy = d.legacy,
         e.issues = Append(d.issues, issue),
         e.taken = [c \in CardIds |-> d.taken[c] + issue.parts[c]],
         \A c \in CardIds : issue.parts[c] > 0 => c \in DOMAIN d.cards,
         \A c \in DOMAIN d.cards : d.taken[c] + issue.parts[c] <= d.cards[c].quantity
  PROVE  Sound(e) /\ OnlyTakes(d, e)
<1>1. /\ issue.parts \in [CardIds -> Nat]
      /\ d.taken \in [CardIds -> Nat]
      /\ d.issues \in Seq(Issue)
      /\ DOMAIN d.cards \subseteq CardIds
  BY BoundsAssumption DEF BoundsAssumption, Sound, WellFormed, Issue, CardIds
<1>2. e.taken \in [CardIds -> Nat]
  BY <1>1
<1>3. /\ e.issues \in Seq(Issue)
      /\ DOMAIN e.issues = 1..(Len(d.issues) + 1)
      /\ DOMAIN d.issues = 1..Len(d.issues)
      /\ Len(d.issues) \in Nat
      /\ \A i \in DOMAIN d.issues : e.issues[i] = d.issues[i]
      /\ e.issues[Len(d.issues) + 1] = issue
  BY <1>1
<1>4. WellFormed(e)
  BY <1>2, <1>3 DEF Sound, WellFormed
<1>5. NeverOverIssuedIn(e)
  BY <1>1 DEF NeverOverIssuedIn
<1>6. HistoryAnchoredIn(e)
  <2>1. SUFFICES ASSUME NEW i \in DOMAIN e.issues, NEW c \in CardIds,
                        e.issues[i].parts[c] > 0
                 PROVE  c \in DOMAIN d.cards
    BY DEF HistoryAnchoredIn
  <2>2. CASE i \in DOMAIN d.issues
    BY <1>3, <2>1, <2>2 DEF Sound, HistoryAnchoredIn
  <2>3. CASE i = Len(d.issues) + 1
    BY <1>3, <2>1, <2>3
  <2> QED
    BY <1>3, <2>2, <2>3
<1>7. Covered(e)
  <2>1. SUFFICES ASSUME NEW c \in CardIds, e.taken[c] > 0
                 PROVE  \E i \in DOMAIN e.issues : e.issues[i].parts[c] > 0
    BY DEF Covered
  <2>2. d.taken[c] > 0 \/ issue.parts[c] > 0
    BY <1>1, <2>1
  <2>3. CASE d.taken[c] > 0
    <3>1. PICK i \in DOMAIN d.issues : d.issues[i].parts[c] > 0
      BY <2>3 DEF Sound, Covered
    <3> QED
      BY <1>3, <3>1
  <2>4. CASE issue.parts[c] > 0
    BY <1>3, <2>4
  <2> QED
    BY <2>2, <2>3, <2>4
<1>8. OnlyTakes(d, e)
  BY <1>1 DEF OnlyTakes
<1> QED
  BY <1>4, <1>5, <1>6, <1>7, <1>8 DEF Sound

\* create_issue and insert_issue: the allocations stay within the lots.
LEMMA AddIssueSound ==
  ASSUME NEW d, Sound(d), NEW row \in IssueRow, NEW lots \in SUBSET DOMAIN d.cards,
         NEW f \in FifoShares(d, lots, row.quantity)
  PROVE  Sound(AddIssue(d, row, f)) /\ OnlyTakes(d, AddIssue(d, row, f))
<1> DEFINE issue == IssueOf(row, "matched", PartsOf(f))
           e == AddIssue(d, row, f)
<1>1. row.quantity \in Nat
  BY DEF IssueRow, Quantities
<1>2. /\ PartsOf(f) \in [CardIds -> Nat]
      /\ \A c \in CardIds : PartsOf(f)[c] > 0 => c \in DOMAIN d.cards
      /\ \A c \in DOMAIN d.cards : d.taken[c] + PartsOf(f)[c] <= d.cards[c].quantity
  BY <1>1, SharesWithinLots
<1>3. issue \in Issue /\ issue.parts = PartsOf(f)
  BY <1>2 DEF IssueOf, Issue, IssueRow, IssueStatuses
<1>4. /\ DOMAIN e = {"cards", "lastCard", "issues", "taken", "legacy"}
      /\ e.cards = d.cards /\ e.lastCard = d.lastCard /\ e.legacy = d.legacy
      /\ e.issues = Append(d.issues, issue)
      /\ e.taken = [c \in CardIds |-> d.taken[c] + PartsOf(f)[c]]
  BY DEF AddIssue, Sound, WellFormed
<1>5. Sound(e) /\ OnlyTakes(d, e)
  <2> HIDE DEF e, issue
  <2> QED BY <1>2, <1>3, <1>4, AppendIssueSound
<1> QED
  BY <1>5

\* create_unmatched_issue: a row without allocations takes nothing.
LEMMA AddUnmatchedSound ==
  ASSUME NEW d, Sound(d), NEW row \in IssueRow
  PROVE  Sound(AddUnmatchedIssue(d, row)) /\ OnlyTakes(d, AddUnmatchedIssue(d, row))
<1> DEFINE none == [c \in CardIds |-> 0]
           issue == IssueOf(row, "unmatched", none)
           e == AddUnmatchedIssue(d, row)
<1>1. issue \in Issue /\ issue.parts = none
  BY DEF IssueOf, Issue, IssueRow, IssueStatuses
<1>2. /\ DOMAIN e = {"cards", "lastCard", "issues", "taken", "legacy"}
      /\ e.cards = d.cards /\ e.lastCard = d.lastCard /\ e.legacy = d.legacy
      /\ e.issues = Append(d.issues, issue)
      /\ e.taken = d.taken
  BY DEF AddUnmatchedIssue, Sound, WellFormed
<1>3. e.taken = [c \in CardIds |-> d.taken[c] + none[c]]
  BY <1>2 DEF Sound, WellFormed
<1>4. \A c \in DOMAIN d.cards : c \in CardIds
  BY BoundsAssumption DEF BoundsAssumption, Sound, WellFormed, CardIds
<1>5. \A c \in DOMAIN d.cards : d.taken[c] + none[c] <= d.cards[c].quantity
  BY <1>4 DEF Sound, WellFormed, NeverOverIssuedIn
<1>6. \A c \in CardIds : ~(none[c] > 0)
  OBVIOUS
<1>7. Sound(e) /\ OnlyTakes(d, e)
  <2> HIDE DEF e, issue, none
  <2> QED BY <1>1, <1>2, <1>3, <1>5, <1>6, AppendIssueSound
<1> QED
  BY <1>7

-----------------------------------------------------------------------------
(* The invariant. *)

\* The program starts on tables with no write-offs.
LEMMA OpeningSound ==
  ASSUME NEW t \in OpeningTables
  PROVE  Sound(Opening(t)) /\ Len(Opening(t).issues) = 0
<1>1. PICK n \in 0..MaxCards : DOMAIN t = 1..n /\ t \in [1..n -> Card]
  BY InputsAssumption DEF InputsAssumption
<1>2. Cardinality(DOMAIN t) = n
  BY <1>1, BoundsAssumption, FS_Interval DEF BoundsAssumption
<1> DEFINE e == Opening(t)
<1>3. /\ DOMAIN e = {"cards", "lastCard", "issues", "taken", "legacy"}
      /\ e.cards = t /\ e.lastCard = n /\ e.issues = <<>>
      /\ e.taken = [c \in CardIds |-> 0] /\ e.legacy = LegacyNumbers
  BY <1>2 DEF Opening
<1>4. DOMAIN t \subseteq CardIds /\ \A c \in DOMAIN t : t[c].quantity \in Nat
  BY <1>1, BoundsAssumption DEF BoundsAssumption, CardIds, Card, Quantities
<1>5. LegacyNumbers \in [LegacyIds -> Inventories \cup {NoInventory}]
  BY InputsAssumption DEF InputsAssumption
<1> HIDE DEF e
<1>6. WellFormed(e)
  BY <1>1, <1>3, <1>5 DEF WellFormed
<1>7. NeverOverIssuedIn(e) /\ HistoryAnchoredIn(e) /\ Covered(e)
  BY <1>3, <1>4 DEF NeverOverIssuedIn, HistoryAnchoredIn, Covered
<1>8. Sound(e) /\ Len(e.issues) = 0
  BY <1>3, <1>6, <1>7 DEF Sound
<1> QED
  BY <1>8 DEF e

\* The invariant holds when the program starts.
LEMMA InitInvariant == Init => IInv
<1> SUFFICES ASSUME Init PROVE IInv
  OBVIOUS
<1>1. Sound(db)
  BY OpeningSound DEF Init
<1>2. OnlyTakes(db, db)
  BY <1>1 DEF OnlyTakes, Sound, WellFormed
<1>3. rows \in Seq(IssueRow) /\ Len(rows) = 0 /\ next \in 1..(Len(rows) + 1)
  BY DEF Init
<1>4. TypeOK
  BY <1>1, <1>3 DEF Init, TypeOK, Sound, Phases
<1> QED
  BY <1>1, <1>2, <1>4 DEF Init, IInv

\* A request of one step leaves the tables it committed and no transaction.
LEMMA CommitsInvariant ==
  ASSUME IInv, NEW d, Sound(d), Commits(d)
  PROVE  IInv'
<1>1. db' = d /\ work' = d /\ UNCHANGED request
  BY DEF Commits
<1>2. OnlyTakes(d, d)
  BY DEF OnlyTakes, Sound, WellFormed
<1>3. Sound(db') /\ Sound(work') /\ OnlyTakes(db', work') /\ work' = db'
  BY <1>1, <1>2
<1> QED
  BY <1>1, <1>3 DEF IInv, TypeOK, request, Sound

\* A file of one or two receipt rows is a sequence of cards.
LEMMA UpToTwoType ==
  ASSUME NEW S, NEW rs \in UpToTwo(S), S \subseteq Card
  PROVE  rs \in Seq(Card)
<1>1. CASE rs \in {<<a>> : a \in S}
  <2>1. PICK a \in S : rs = <<a>>
    BY <1>1
  <2>2. a \in Card
    OBVIOUS
  <2> QED BY <2>1, <2>2
<1>2. CASE rs \in S \X S
  <2>1. PICK a \in S, b \in S : rs = <<a, b>>
    BY <1>2
  <2>2. a \in Card /\ b \in Card
    OBVIOUS
  <2> HIDE <1>2
  <2> QED BY <2>1, <2>2
<1> QED
  BY <1>1, <1>2 DEF UpToTwo

\* A row that is written, as a write-off or as a problem row, only takes stock.
LEMMA RowTakes ==
  ASSUME Sound(work), NEW row \in IssueRow, Matches(row) \/ KeepsAsProblem(row)
  PROVE  Sound(work') /\ OnlyTakes(work, work')
<1>1. CASE Matches(row)
  <2>1. PICK shares \in FifoShares(work, AvailableBySerial(work, row.serial), row.quantity) :
          work' = AddIssue(work, row, shares)
    BY <1>1 DEF Matches
  <2>2. AvailableBySerial(work, row.serial) \in SUBSET DOMAIN work.cards
    BY DEF AvailableBySerial, WithSerial
  <2> QED
    BY <2>1, <2>2, AddIssueSound
<1>2. CASE KeepsAsProblem(row)
  BY <1>2, AddUnmatchedSound DEF KeepsAsProblem
<1> QED
  BY <1>1, <1>2

\* Rows that each only take stock together only take stock.
LEMMA OnlyTakesTransitive ==
  ASSUME NEW d1, NEW d2, NEW d3, Sound(d1), Sound(d2), Sound(d3),
         OnlyTakes(d1, d2), OnlyTakes(d2, d3)
  PROVE  OnlyTakes(d1, d3)
BY DEF OnlyTakes, Sound, WellFormed

\* A transaction that wrote nothing only takes stock.
LEMMA OnlyTakesReflexive ==
  ASSUME NEW d, Sound(d)
  PROVE  OnlyTakes(d, d)
BY DEF OnlyTakes, Sound, WellFormed

\* What the tables can do to the stock in one committed step.
Moves(d, e) == Grows(d, e) \/ Drops(d, e) \/ OnlyTakes(d, e)

\* The card the editor finds for an S/N that one card has.
LEMMA OneOfASerial ==
  ASSUME Sound(db), NEW s, CanUpdate(db, s)
  PROVE  (CHOOSE x \in WithSerial(db, s) : \A y \in WithSerial(db, s) : x <= y)
           \in DOMAIN db.cards
<1>1. /\ DOMAIN db.cards \subseteq Nat
      /\ WithSerial(db, s) \subseteq DOMAIN db.cards
  BY DEF Sound, WellFormed, WithSerial
<1>2. IsFiniteSet(DOMAIN db.cards)
  <2>1. db.lastCard \in Nat
    BY BoundsAssumption DEF Sound, WellFormed, BoundsAssumption
  <2>2. IsFiniteSet(1..db.lastCard)
    BY <2>1, FS_Interval
  <2> QED
    BY <2>2, FS_Subset DEF Sound, WellFormed
<1>3. PICK x : WithSerial(db, s) = {x}
  BY <1>1, <1>2, FS_Subset, FS_Singleton DEF CanUpdate
<1>4. x <= x
  BY <1>1, <1>3
<1> QED
  BY <1>1, <1>3, <1>4

\* Every request of one step.
LEMMA SingleRequestsInvariant ==
  ASSUME IInv, SingleRequest
  PROVE  \E d : Sound(d) /\ Commits(d) /\ Moves(db, d)
<1> USE DEF Moves
<1>1. Sound(db)
  BY DEF IInv
<1>2. ASSUME NEW c \in DOMAIN db.cards PROVE db.cards[c] \in Card
  BY <1>1 DEF Sound, WellFormed
<1>3. ASSUME NEW card \in Arrivals, CreateReceipt(card)
      PROVE  \E d : Sound(d) /\ Commits(d) /\ Moves(db, d)
  <2>1. card \in Card
    BY InputsAssumption DEF InputsAssumption
  <2> QED
    BY <1>1, <1>3, <2>1, AddCardSound DEF CreateReceipt, CanReceive
<1>4. ASSUME NEW cards \in UpToTwo(Arrivals), CreateReceiptBatch(cards)
      PROVE  \E d : Sound(d) /\ Commits(d) /\ Moves(db, d)
  <2>1. Arrivals \subseteq Card
    BY InputsAssumption DEF InputsAssumption
  <2>2. cards \in Seq(Card)
    BY <2>1, UpToTwoType
  <2> QED
    BY <1>1, <1>4, <2>2, AddCardsSound DEF CreateReceiptBatch, CanReceiveAll
<1>5. ASSUME NEW cards \in UpToTwo(CableArrivals), CreateCableReceiptBatch(cards)
      PROVE  \E d : Sound(d) /\ Commits(d) /\ Moves(db, d)
  <2>1. CableArrivals \subseteq Card
    BY InputsAssumption DEF InputsAssumption
  <2>2. cards \in Seq(Card)
    BY <2>1, UpToTwoType
  <2> QED
    BY <1>1, <1>5, <2>2, AddCardsSound DEF CreateCableReceiptBatch
<1>6. ASSUME NEW c \in CardIds, NEW date \in Dates \ {NoDate}, FillReceiptDate(c, date)
      PROVE  \E d : Sound(d) /\ Commits(d) /\ Moves(db, d)
  <2>1. c \in DOMAIN db.cards
    BY <1>6 DEF FillReceiptDate, CanFillDate
  <2> DEFINE card == [db.cards[c] EXCEPT !.date = date]
  <2>2. card \in Card /\ card.quantity = db.cards[c].quantity
    BY <1>2, <2>1 DEF Card
  <2>3. Sound(SetCard(db, c, card)) /\ Grows(db, SetCard(db, c, card))
    <3> HIDE DEF card
    <3> QED BY <1>1, <2>1, <2>2, SetCardSound
  <2> QED
    BY <1>6, <2>3 DEF FillReceiptDate, FillDate
<1>7. ASSUME NEW c \in CardIds, NEW place \in Places, FillReceiptFields(c, place)
      PROVE  \E d : Sound(d) /\ Commits(d) /\ Moves(db, d)
  <2>1. c \in DOMAIN db.cards
    BY <1>7 DEF FillReceiptFields, CanFillPlace
  <2> DEFINE card == [db.cards[c] EXCEPT !.place = place]
  <2>2. card \in Card /\ card.quantity = db.cards[c].quantity
    BY <1>2, <2>1 DEF Card
  <2>3. Sound(SetCard(db, c, card)) /\ Grows(db, SetCard(db, c, card))
    <3> HIDE DEF card
    <3> QED BY <1>1, <2>1, <2>2, SetCardSound
  <2> QED
    BY <1>7, <2>3 DEF FillReceiptFields, FillPlace
<1>8. ASSUME NEW c \in CardIds, NEW s \in Serials, CorrectDuplicateSerial(c, s)
      PROVE  \E d : Sound(d) /\ Commits(d) /\ Moves(db, d)
  <2>1. c \in DOMAIN db.cards
    BY <1>8 DEF CorrectDuplicateSerial, CanCorrectSerial
  <2> DEFINE card == [db.cards[c] EXCEPT !.serial = s]
  <2>2. card \in Card /\ card.quantity = db.cards[c].quantity
    BY <1>2, <2>1 DEF Card
  <2>3. Sound(SetCard(db, c, card)) /\ Grows(db, SetCard(db, c, card))
    <3> HIDE DEF card
    <3> QED BY <1>1, <2>1, <2>2, SetCardSound
  <2> QED
    BY <1>8, <2>3 DEF CorrectDuplicateSerial, CorrectSerial
<1>9. ASSUME NEW c \in CardIds, DeleteDuplicateReceipt(c)
      PROVE  \E d : Sound(d) /\ Commits(d) /\ Moves(db, d)
  BY <1>1, <1>9, DeleteCardSound DEF DeleteDuplicateReceipt
<1>10. ASSUME NEW row \in SingleRows, CreateIssue(row)
       PROVE  \E d : Sound(d) /\ Commits(d) /\ Moves(db, d)
  <2>1. row \in IssueRow
    BY InputsAssumption DEF InputsAssumption
  <2>2. AvailableBySerial(db, row.serial) \in SUBSET DOMAIN db.cards
    BY DEF AvailableBySerial, WithSerial
  <2>3. PICK shares \in FifoShares(db, AvailableBySerial(db, row.serial), row.quantity) :
          Commits(AddIssue(db, row, shares))
    BY <1>10 DEF CreateIssue
  <2> QED
    BY <1>1, <2>1, <2>2, <2>3, AddIssueSound
<1>11. ASSUME NEW row \in CableRows, CreateCableIssue(row)
       PROVE  \E d : Sound(d) /\ Commits(d) /\ Moves(db, d)
  <2>1. row \in IssueRow
    BY InputsAssumption DEF InputsAssumption
  <2>2. AvailableCableLots(db, row) \in SUBSET DOMAIN db.cards
    BY DEF AvailableCableLots
  <2>3. PICK shares \in FifoShares(db, AvailableCableLots(db, row), row.quantity) :
          Commits(AddIssue(db, row, shares))
    BY <1>11 DEF CreateCableIssue
  <2> QED
    BY <1>1, <2>1, <2>2, <2>3, AddIssueSound
<1>12. ASSUME NEW s \in Serials, NEW edit \in Edits, UpdatePositionCard(s, edit)
       PROVE  \E d : Sound(d) /\ Commits(d) /\ Moves(db, d)
  <2> DEFINE c == CHOOSE x \in WithSerial(db, s) : \A y \in WithSerial(db, s) : x <= y
             card == [db.cards[c] EXCEPT !.kind = edit.kind, !.item = edit.item,
                                         !.place = edit.place]
  <2>1. c \in DOMAIN db.cards
    BY <1>1, <1>12, OneOfASerial DEF UpdatePositionCard
  <2>2. edit \in Edit
    BY InputsAssumption DEF InputsAssumption
  <2>3. card \in Card /\ card.quantity = db.cards[c].quantity
    BY <1>2, <2>1, <2>2 DEF Card, Edit
  <2>4. UpdateCard(db, s, edit) = SetCard(db, c, card)
    BY DEF UpdateCard
  <2>5. Sound(SetCard(db, c, card)) /\ Grows(db, SetCard(db, c, card))
    <3> HIDE DEF card, c
    <3> QED BY <1>1, <2>1, <2>3, SetCardSound
  <2> QED
    BY <1>12, <2>4, <2>5 DEF UpdatePositionCard
<1> QED
  BY <1>3, <1>4, <1>5, <1>6, <1>7, <1>8, <1>9, <1>10, <1>11, <1>12 DEF SingleRequest

\* A request that takes up a file has written nothing yet.
LEMMA BeginInvariant ==
  ASSUME IInv, NEW file \in Seq(IssueRow), NEW mode \in BOOLEAN,
         NEW first \in {"check", "apply", "cables"}, Begin(file, mode, first)
  PROVE  IInv'
<1>1. file \in Seq(IssueRow)
  OBVIOUS
<1>2. 1 \in 1..(Len(file) + 1)
  BY <1>1
<1>3. /\ phase' = first /\ rows' = file /\ next' = 1 /\ soft' = mode /\ failed' = FALSE
      /\ db' = db /\ work' = work
  BY DEF Begin
<1>4. TypeOK'
  BY <1>1, <1>2, <1>3 DEF IInv, TypeOK, Phases
<1>5. phase' # "idle"
  BY <1>3
<1> QED
  BY <1>3, <1>4, <1>5 DEF IInv

\* A row of a cable file is a write-off of its own.
LEMMA CableRowInvariant ==
  ASSUME IInv, CableRow
  PROVE  IInv' /\ OnlyTakes(db, db')
<1>1. rows[next] \in IssueRow /\ next + 1 \in 1..(Len(rows) + 1)
  BY DEF IInv, TypeOK, CableRow
<1>2. AvailableCableLots(db, rows[next]) \in SUBSET DOMAIN db.cards
  BY DEF AvailableCableLots
<1>3. PICK shares \in FifoShares(db, AvailableCableLots(db, rows[next]), rows[next].quantity) :
        db' = AddIssue(db, rows[next], shares)
  BY DEF CableRow
<1>4. Sound(db') /\ OnlyTakes(db, db')
  BY <1>1, <1>2, <1>3, AddIssueSound DEF IInv
<1>5. /\ work' = db'
      /\ UNCHANGED <<phase, rows, soft, failed>>
      /\ next' = next + 1
      /\ phase = "cables"
  BY DEF CableRow
<1>6. TypeOK'
  BY <1>1, <1>4, <1>5 DEF IInv, TypeOK, Sound
<1>7. OnlyTakes(db', db')
  BY <1>4, OnlyTakesReflexive
<1> QED
  BY <1>4, <1>5, <1>6, <1>7 DEF IInv

\* The request ends and the transaction is gone: rolled back or committed.
LEMMA EndInvariant ==
  ASSUME IInv, NEW d, Sound(d), db' = d, work' = d, NoRequest
  PROVE  IInv'
<1>1. OnlyTakes(d, d)
  BY OnlyTakesReflexive
<1>2. rows' \in Seq(IssueRow) /\ Len(rows') = 0 /\ next' \in 1..(Len(rows') + 1)
  BY DEF NoRequest
<1>3. TypeOK'
  BY <1>2 DEF TypeOK, NoRequest, Phases, Sound
<1> QED
  BY <1>1, <1>3 DEF IInv

\* Every step of the ledger keeps the invariant; one case per action of Next.
LEMMA StepInvariant == IInv /\ [Next]_vars => IInv'
<1> SUFFICES ASSUME IInv, [Next]_vars PROVE IInv'
  OBVIOUS
<1> USE DEF IInv
<1>1. CASE SingleRequest
  BY <1>1, SingleRequestsInvariant, CommitsInvariant
<1>2. ASSUME NEW file \in IssueFiles, NEW mode \in BOOLEAN, BeginImport(file, mode)
      PROVE  IInv'
  BY <1>2, BeginInvariant, InputsAssumption DEF BeginImport, InputsAssumption
<1>3. ASSUME NEW file \in IssueFiles, NEW mode \in BOOLEAN, BeginConfirm(file, mode)
      PROVE  IInv'
  BY <1>3, BeginInvariant, InputsAssumption DEF BeginConfirm, InputsAssumption
<1>4. ASSUME next <= Len(rows) PROVE rows[next] \in IssueRow /\ next + 1 \in 1..(Len(rows) + 1)
  BY <1>4 DEF TypeOK
<1>5. CASE CheckRow
  <2>1. Sound(work') /\ OnlyTakes(work, work')
    BY <1>4, <1>5, RowTakes, OnlyTakesReflexive DEF CheckRow
  <2>2. OnlyTakes(db, work')
    BY <2>1, OnlyTakesTransitive
  <2>3. UNCHANGED <<db, phase, rows, soft>> /\ next' = next + 1 /\ phase = "check"
    BY <1>5 DEF CheckRow
  <2>4. failed' \in BOOLEAN
    BY <1>5 DEF CheckRow, TypeOK
  <2>5. TypeOK'
    BY <1>4, <1>5, <2>1, <2>3, <2>4 DEF TypeOK, Sound, CheckRow
  <2> QED
    BY <2>1, <2>2, <2>3, <2>5
<1>6. CASE CheckDone
  <2>1. CASE failed
    BY <1>6, <2>1, EndInvariant DEF CheckDone
  <2>2. CASE ~failed
    <3>1. /\ work' = db /\ db' = db /\ phase' = "confirmed" /\ next' = 1
          /\ UNCHANGED <<rows, soft, failed>>
      BY <1>6, <2>2 DEF CheckDone
    <3>2. TypeOK'
      BY <3>1 DEF TypeOK, Phases
    <3> QED
      BY <3>1, <3>2, OnlyTakesReflexive
  <2> QED
    BY <2>1, <2>2
<1>7. CASE ApplyRow
  <2>1. Sound(work') /\ OnlyTakes(work, work')
    BY <1>4, <1>7, RowTakes DEF ApplyRow
  <2>2. OnlyTakes(db, work')
    BY <2>1, OnlyTakesTransitive
  <2>3. /\ UNCHANGED <<db, phase, rows, soft, failed>>
        /\ next' = next + 1
        /\ phase # "idle"
    BY <1>7 DEF ApplyRow, Applying
  <2>4. TypeOK'
    BY <1>4, <1>7, <2>1, <2>3 DEF TypeOK, Sound, ApplyRow
  <2> QED
    BY <2>1, <2>2, <2>3, <2>4
<1>8. CASE ApplyRefused
  BY <1>8, EndInvariant DEF ApplyRefused
<1>9. CASE CommitFile
  BY <1>9, EndInvariant DEF CommitFile
<1>10. CASE Crash
  BY <1>10, EndInvariant DEF Crash
<1>11. CASE UNCHANGED vars
  BY <1>11 DEF vars, TypeOK
<1>12. ASSUME NEW file \in CableFiles, BeginCables(file)
       PROVE  IInv'
  <2>1. file \in Seq(IssueRow) /\ FALSE \in BOOLEAN
    BY InputsAssumption DEF InputsAssumption
  <2> QED
    BY <1>12, <2>1, BeginInvariant DEF BeginCables
<1>13. CASE CableRow
  BY <1>13, CableRowInvariant
<1>14. CASE CablesEnd
  BY <1>14, EndInvariant DEF CablesEnd
<1> QED
  BY <1>1, <1>2, <1>3, <1>5, <1>6, <1>7, <1>8, <1>9, <1>10, <1>11, <1>12, <1>13, <1>14
  DEF Next, RequestStep

\* The inductive invariant holds in every reachable state: committed and
\* uncommitted tables are sound, and a transaction of a file only adds write-offs.
THEOREM Invariance == Spec => []IInv
BY InitInvariant, StepInvariant, PTL DEF Spec

\* Every state of the ledger is of its types.
THEOREM TypeCorrect == Spec => []TypeOK
BY Invariance, PTL DEF IInv

\* No card is ever written off beyond what came in on it, and every allocation
\* row of every write-off points at a card that is there, in the file and inside
\* an open transaction alike.
THEOREM BooksKeptSound == Spec => []BooksAreSound
<1>1. IInv => BooksAreSound
  BY DEF IInv, Sound, BooksAreSound
<1> QED
  BY <1>1, Invariance, PTL

-----------------------------------------------------------------------------
(* The ledger implements StockPromise. *)

\* The lots of the promise are the cards of the tables.
LEMMA LotsDomain ==
  ASSUME NEW d, Sound(d)
  PROVE  /\ DOMAIN LotsOf(d) = DOMAIN d.cards
         /\ DOMAIN d.cards \subseteq CardIds
BY BoundsAssumption DEF BoundsAssumption, Sound, WellFormed, CardIds, LotsOf

\* What a sound card is as a lot: the total came in, the rest is left.
LEMMA LotFacts ==
  ASSUME NEW d, Sound(d), NEW c \in DOMAIN d.cards
  PROVE  /\ LotsOf(d)[c].total = d.cards[c].quantity
         /\ LotsOf(d)[c].left = d.cards[c].quantity - d.taken[c]
         /\ d.taken[c] \in Nat
         /\ d.cards[c].quantity \in Nat \ {0}
         /\ d.taken[c] <= d.cards[c].quantity
<1>1. d.cards[c] \in Card
  BY DEF Sound, WellFormed
<1>2. d.cards[c].quantity \in Nat \ {0}
  BY <1>1 DEF Card, Quantities
<1>3. d.taken[c] \in Nat
  BY LotsDomain DEF Sound, WellFormed
<1> QED
  BY <1>2, <1>3 DEF Sound, NeverOverIssuedIn, LotsOf, Available

\* A card with the same quantity and aggregate is the same lot.
LEMMA SameLot ==
  ASSUME NEW d, NEW e, NEW c \in DOMAIN d.cards \cap DOMAIN e.cards,
         d.cards[c].quantity = e.cards[c].quantity, d.taken[c] = e.taken[c]
  PROVE  LotsOf(d)[c] = LotsOf(e)[c]
BY DEF LotsOf, Available

\* Receipts and corrections are the promise's PutIn.
LEMMA GrowthIsPutIn ==
  ASSUME Sound(db), Sound(db'), Grows(db, db')
  PROVE  Promise!PutIn
<1>1. \A c \in DOMAIN db'.cards \ DOMAIN db.cards : db.taken[c] = 0
  BY LotsDomain, AbsentUntaken
<1>2. /\ DOMAIN db.cards \subseteq DOMAIN db'.cards
      /\ db'.taken = db.taken
      /\ \A c \in DOMAIN db.cards : db'.cards[c].quantity = db.cards[c].quantity
  BY DEF Grows, CardsChange
<1>3. /\ DOMAIN LotsOf(db) = DOMAIN db.cards
      /\ DOMAIN LotsOf(db') = DOMAIN db'.cards
      /\ DOMAIN db'.cards \subseteq CardIds
  BY LotsDomain
<1>4. \A c \in DOMAIN db.cards : LotsOf(db')[c] = LotsOf(db)[c]
  BY <1>2, SameLot
<1>5. ASSUME NEW c \in DOMAIN db'.cards \ DOMAIN db.cards
      PROVE  LotsOf(db')[c].total \in Nat \ {0} /\ LotsOf(db')[c].left = LotsOf(db')[c].total
  <2>1. db'.taken[c] = 0
    BY <1>1, <1>2
  <2>2. /\ LotsOf(db')[c].total = db'.cards[c].quantity
        /\ LotsOf(db')[c].left = db'.cards[c].quantity - db'.taken[c]
        /\ db'.cards[c].quantity \in Nat \ {0}
    BY LotFacts
  <2> QED
    BY <2>1, <2>2
<1> QED
  BY <1>2, <1>3, <1>4, <1>5 DEF Promise!PutIn

\* Write-offs, one or a file, are the promise's TakeOut.
LEMMA TakingIsTakeOut ==
  ASSUME Sound(db), Sound(db'), OnlyTakes(db, db')
  PROVE  Promise!TakeOut
<1>1. /\ DOMAIN LotsOf(db) = DOMAIN db.cards
      /\ DOMAIN LotsOf(db') = DOMAIN db.cards
      /\ DOMAIN db.cards \subseteq CardIds
      /\ db'.cards = db.cards
  BY LotsDomain DEF OnlyTakes
<1>2. ASSUME NEW c \in DOMAIN db.cards
      PROVE  /\ LotsOf(db')[c].total = LotsOf(db)[c].total
             /\ LotsOf(db')[c].left \in 0..LotsOf(db)[c].left
  <2>1. db.taken[c] <= db'.taken[c]
    BY <1>1 DEF OnlyTakes
  <2>2. /\ LotsOf(db)[c].total = db.cards[c].quantity
        /\ LotsOf(db)[c].left = db.cards[c].quantity - db.taken[c]
        /\ db.taken[c] \in Nat
        /\ db.cards[c].quantity \in Nat
    BY LotFacts
  <2>3. /\ LotsOf(db')[c].total = db.cards[c].quantity
        /\ LotsOf(db')[c].left = db.cards[c].quantity - db'.taken[c]
        /\ db'.taken[c] \in Nat
        /\ db'.taken[c] <= db.cards[c].quantity
    BY <1>1, LotFacts
  <2> QED
    BY <2>1, <2>2, <2>3
<1> QED
  BY <1>1, <1>2 DEF Promise!TakeOut

\* Deleting a duplicate card is the promise's Forget.
LEMMA DropIsForget ==
  ASSUME Sound(db), Sound(db'), Drops(db, db')
  PROVE  Promise!Forget
<1>1. PICK c \in DOMAIN db.cards :
        /\ \A i \in DOMAIN db.issues : db.issues[i].parts[c] = 0
        /\ db'.cards = [x \in DOMAIN db.cards \ {c} |-> db.cards[x]]
  BY DEF Drops
<1>2. c \in CardIds /\ db.taken[c] \in Nat
  BY LotsDomain, LotFacts
<1>3. db.taken[c] = 0
  BY <1>1, <1>2 DEF Sound, Covered
<1>4. LotsOf(db)[c].left = LotsOf(db)[c].total
  BY <1>3, LotFacts
<1>5. LotsOf(db') = [k \in DOMAIN LotsOf(db) \ {c} |-> LotsOf(db)[k]]
  BY <1>1 DEF Drops, LotsOf, Available
<1>6. c \in DOMAIN LotsOf(db)
  BY DEF LotsOf
<1> QED
  BY <1>4, <1>5, <1>6 DEF Promise!Forget, Promise!Untouched

\* Receipts, write-offs, corrections, deletions and files do to the stock of
\* the cards only what StockPromise allows: nothing reappears, nothing goes
\* below zero, and a card leaves the books only untouched.
THEOREM StockPromiseKept == Spec => KeepsStockPromise
<1>1. Init => Promise!Init
  <2>1. SUFFICES ASSUME Init PROVE Promise!Init
    OBVIOUS
  <2>2. PICK t \in OpeningTables : db = Opening(t)
    BY <2>1 DEF Init
  <2>3. Sound(db) /\ db.taken = [c \in CardIds |-> 0]
    BY <2>2, OpeningSound DEF Opening
  <2>4. /\ DOMAIN LotsOf(db) = DOMAIN db.cards
        /\ DOMAIN db.cards \subseteq CardIds
    BY <2>3, LotsDomain
  <2>5. ASSUME NEW c \in DOMAIN db.cards
        PROVE  LotsOf(db)[c].total \in Nat \ {0} /\ LotsOf(db)[c].left = LotsOf(db)[c].total
    <3>1. db.taken[c] = 0
      BY <2>3, <2>4
    <3> QED
      BY <2>3, <3>1, LotFacts
  <2> QED
    BY <2>4, <2>5 DEF Promise!Init, Promise!Untouched
<1>2. IInv /\ IInv' /\ [Next]_vars => [Promise!Next]_(LotsOf(db))
  <2>1. SUFFICES ASSUME IInv, IInv', [Next]_vars
                 PROVE  Promise!Next \/ LotsOf(db') = LotsOf(db)
    OBVIOUS
  <2>2. Sound(db) /\ Sound(db')
    BY <2>1 DEF IInv
  <2>3. Moves(db, db') => Promise!Next
    BY <2>2, GrowthIsPutIn, TakingIsTakeOut, DropIsForget DEF Moves, Promise!Next
  <2>4. CASE SingleRequest
    <3>1. PICK d : Commits(d) /\ Moves(db, d)
      BY <2>1, <2>4, SingleRequestsInvariant
    <3> QED
      BY <2>3, <3>1 DEF Commits
  <2>5. CASE CommitFile
    BY <2>1, <2>3, <2>5 DEF CommitFile, IInv, Moves
  <2>6. CASE db' = db
    BY <2>6
  <2>7. CASE CableRow
    BY <2>1, <2>3, <2>7, CableRowInvariant DEF Moves
  <2> QED
    BY <2>1, <2>4, <2>5, <2>6, <2>7
    DEF Next, RequestStep, BeginImport, BeginConfirm, BeginCables, Begin, CheckRow,
        CheckDone, ApplyRow, ApplyRefused, CablesEnd, Crash, vars
<1> QED
  BY <1>1, <1>2, Invariance, PTL DEF Spec, KeepsStockPromise, Promise!Spec

-----------------------------------------------------------------------------
(* Totals: what the program adds up of its rows. *)

\* The element a fold takes out of s first.
Chosen(s) == CHOOSE x \in s : TRUE

\* A is the table of the sums of f over the subsets of S, as a fold fills it.
SumTable(f, S, A) ==
  A = [s \in SUBSET S |-> IF s = {} THEN 0 ELSE f[Chosen(s)] + A[s \ {Chosen(s)}]]

\* Some whole numbers have a least one.
LEMMA Least ==
  ASSUME NEW N \in SUBSET Nat, N # {}
  PROVE  \E m \in N : \A k \in N : m <= k
<1>1. \E m \in N : \A k \in N : ~ (<<k, m>> \in OpToRel(<, Nat))
  BY NatLessThanWellFounded, WFMin
<1>2. PICK m \in N : \A k \in N : ~ (k < m)
  BY <1>1 DEF OpToRel
<1>3. \A k \in N : m <= k
  BY <1>2
<1> QED
  BY <1>3

\* A set without its chosen element is smaller by one.
LEMMA Smaller ==
  ASSUME NEW S, IsFiniteSet(S), NEW s \in SUBSET S, s # {}
  PROVE  /\ Chosen(s) \in s /\ s \ {Chosen(s)} \in SUBSET S
         /\ Cardinality(s) \in Nat /\ Cardinality(s) # 0
         /\ Cardinality(s \ {Chosen(s)}) = Cardinality(s) - 1
<1>1. Chosen(s) \in s
  BY DEF Chosen
<1>2. IsFiniteSet(s) /\ Cardinality(s) \in Nat
  BY FS_Subset, FS_CardinalityType
<1>3. Cardinality(s) # 0
  BY <1>2, FS_EmptySet
<1>4. Cardinality(s \ {Chosen(s)}) = Cardinality(s) - 1
  BY <1>1, <1>2, FS_RemoveElement
<1> QED
  BY <1>1, <1>2, <1>3, <1>4

\* The table is there: a smallest size of subsets up to which it cannot be
\* filled would be one more than a size up to which it can.
LEMMA SumTableExists ==
  ASSUME NEW S, IsFiniteSet(S), NEW f
  PROVE  \E A : SumTable(f, S, A)
<1> DEFINE Upto(n) == {s \in SUBSET S : Cardinality(s) <= n}
           Row(A, s) == IF s = {} THEN 0 ELSE f[Chosen(s)] + A[s \ {Chosen(s)}]
           Filled(n, A) == A = [s \in Upto(n) |-> Row(A, s)]
           Gaps == {n \in Nat : ~ \E A : Filled(n, A)}
<1>1. ASSUME NEW s \in SUBSET S
      PROVE  Cardinality(s) \in Nat /\ (Cardinality(s) = 0 <=> s = {})
  BY FS_Subset, FS_CardinalityType, FS_EmptySet
<1>2. Cardinality(S) \in Nat /\ \A s \in SUBSET S : Cardinality(s) <= Cardinality(S)
  BY FS_CardinalityType, FS_Subset
<1>3. Gaps = {}
  <2>1. SUFFICES ASSUME Gaps # {} PROVE FALSE
    OBVIOUS
  <2>2. PICK m \in Gaps : \A k \in Gaps : m <= k
    BY <2>1, Least
  <2>3. m \in Nat /\ ~ \E A : Filled(m, A)
    OBVIOUS
  <2>4. m # 0
    <3>1. SUFFICES ASSUME m = 0 PROVE FALSE
      OBVIOUS
    <3>2. Upto(0) = {{}}
      BY <1>1
    <3>3. Filled(0, [s \in {{}} |-> 0])
      BY <3>2
    <3> QED
      BY <2>3, <3>1, <3>3
  <2>5. PICK A : Filled(m - 1, A)
    <3>1. m - 1 \in Nat /\ ~ (m <= m - 1)
      BY <2>3, <2>4
    <3>2. m - 1 \notin Gaps
      <4> HIDE DEF Gaps
      <4> QED
        BY <2>2, <3>1
    <3> QED
      BY <3>1, <3>2
  <2> DEFINE B == [s \in Upto(m) |-> Row(A, s)]
  <2>6. ASSUME NEW s \in Upto(m) PROVE Row(B, s) = Row(A, s)
    <3>1. CASE s = {}
      BY <3>1
    <3>2. CASE s # {}
      <4> DEFINE r == s \ {Chosen(s)}
      <4>1. r \in SUBSET S /\ Cardinality(r) = Cardinality(s) - 1 /\ Cardinality(s) \in Nat
        BY <3>2, Smaller
      <4>2. r \in Upto(m - 1) /\ r \in Upto(m)
        BY <2>3, <4>1
      <4>3. A[r] = Row(A, r)
        BY <2>5, <4>2
      <4>4. B[r] = Row(A, r)
        BY <4>2
      <4> QED
        BY <3>2, <4>3, <4>4
    <3> QED
      BY <3>1, <3>2
  <2>7. Filled(m, B)
    BY <2>6
  <2> QED
    BY <2>3, <2>7
<1>4. PICK A : Filled(Cardinality(S), A)
  BY <1>2, <1>3
<1>5. Upto(Cardinality(S)) = SUBSET S
  BY <1>2
<1>6. SumTable(f, S, A)
  BY <1>4, <1>5 DEF SumTable
<1> QED
  BY <1>6

\* The total of f is what the table has for the domain of f.
LEMMA TotalIsOfTable ==
  ASSUME NEW f, IsFiniteSet(DOMAIN f)
  PROVE  \E A : SumTable(f, DOMAIN f, A) /\ Total(f) = A[DOMAIN f]
<1>1. Total(f) = (CHOOSE A : SumTable(f, DOMAIN f, A))[DOMAIN f]
  BY DEF Total, MapThenSumSet, MapThenFoldSet, SumTable, Chosen
<1> QED
  BY <1>1, SumTableExists

\* f, of the members of s only.
On(f, s) == [x \in s |-> f[x]]

\* A family of subsets that has every set that it has without any one member, has
\* them all: the smallest it had not would be without a member in it.
LEMMA AllSubsets ==
  ASSUME NEW S, IsFiniteSet(S), NEW G,
         \A s \in SUBSET S : (\A x \in s : s \ {x} \in G) => s \in G
  PROVE  \A s \in SUBSET S : s \in G
<1> DEFINE Sizes == {n \in Nat : \E s \in SUBSET S : Cardinality(s) = n /\ s \notin G}
<1>1. Sizes = {}
  <2>1. SUFFICES ASSUME Sizes # {} PROVE FALSE
    OBVIOUS
  <2>2. PICK m \in Sizes : \A k \in Sizes : m <= k
    BY <2>1, Least
  <2>3. PICK s \in SUBSET S : Cardinality(s) = m /\ s \notin G
    OBVIOUS
  <2>4. PICK x \in s : s \ {x} \notin G
    BY <2>3
  <2>5. IsFiniteSet(s)
    BY FS_Subset
  <2>6. Cardinality(s) \in Nat /\ Cardinality(s \ {x}) = Cardinality(s) - 1
    BY <2>5, FS_CardinalityType, FS_RemoveElement
  <2>7. Cardinality(s \ {x}) \in Nat
    BY <2>5, FS_RemoveElement, FS_CardinalityType
  <2>8. Cardinality(s \ {x}) \in Sizes
    BY <2>4, <2>7
  <2>9. m <= Cardinality(s \ {x})
    <3> HIDE DEF Sizes
    <3> QED
      BY <2>2, <2>8
  <2> QED
    BY <2>3, <2>6, <2>9
<1>2. ASSUME NEW s \in SUBSET S PROVE Cardinality(s) \in Nat
  BY FS_Subset, FS_CardinalityType
<1> QED
  BY <1>1, <1>2

\* Two tables say the same of a set on which their functions agree, and it is a
\* number if theirs are.
LEMMA TablesAgree ==
  ASSUME NEW S, IsFiniteSet(S), NEW f, NEW A, SumTable(f, S, A),
         NEW T, NEW g, NEW B, SumTable(g, T, B),
         S \subseteq T, \A x \in S : f[x] \in Int /\ g[x] = f[x]
  PROVE  \A s \in SUBSET S : A[s] \in Int /\ B[s] = A[s]
<1> DEFINE G == {s \in SUBSET S : A[s] \in Int /\ B[s] = A[s]}
<1>1. ASSUME NEW s \in SUBSET S, \A x \in s : s \ {x} \in G
      PROVE  s \in G
  <2>0. s \in SUBSET T
    OBVIOUS
  <2>1. CASE s = {}
    <3>1. A[s] = 0
      BY <2>1 DEF SumTable
    <3>2. B[s] = 0
      BY <2>0, <2>1 DEF SumTable
    <3> QED
      BY <3>1, <3>2
  <2>2. CASE s # {}
    <3>1. A[s] = f[Chosen(s)] + A[s \ {Chosen(s)}]
      BY <2>2 DEF SumTable
    <3>2. B[s] = g[Chosen(s)] + B[s \ {Chosen(s)}]
      BY <2>0, <2>2 DEF SumTable
    <3>3. Chosen(s) \in s
      BY <2>2 DEF Chosen
    <3>4. s \ {Chosen(s)} \in G /\ f[Chosen(s)] \in Int /\ g[Chosen(s)] = f[Chosen(s)]
      BY <1>1, <3>3
    <3> QED
      BY <3>1, <3>2, <3>4
  <2> QED
    BY <2>1, <2>2
<1>2. \A s \in SUBSET S : s \in G
  <2> HIDE DEF G
  <2> QED
    BY <1>1, AllSubsets
<1> QED
  BY <1>2

\* The total of nothing.
LEMMA TotalOfNone ==
  ASSUME NEW f, DOMAIN f = {}
  PROVE  Total(f) = 0
<1>1. IsFiniteSet(DOMAIN f)
  BY FS_EmptySet
<1>2. PICK A : SumTable(f, DOMAIN f, A) /\ Total(f) = A[DOMAIN f]
  BY <1>1, TotalIsOfTable
<1>3. A[{}] = 0
  BY <1>2 DEF SumTable
<1> QED
  BY <1>2, <1>3

\* One member at a time, in any order.
LEMMA TotalPick ==
  ASSUME NEW S, IsFiniteSet(S), NEW f \in [S -> Int], NEW s \in SUBSET S
  PROVE  /\ Total(On(f, s)) \in Int
         /\ \A x \in s : Total(On(f, s)) = f[x] + Total(On(f, s \ {x}))
<1>1. PICK A : SumTable(f, S, A)
  BY SumTableExists
<1>2. ASSUME NEW r \in SUBSET S
      PROVE  A[r] \in Int /\ Total(On(f, r)) = A[r]
  <2>1. DOMAIN On(f, r) = r /\ IsFiniteSet(r) /\ \A x \in r : On(f, r)[x] = f[x] /\ f[x] \in Int
    BY FS_Subset DEF On
  <2>2. PICK B : SumTable(On(f, r), r, B) /\ Total(On(f, r)) = B[r]
    BY <2>1, TotalIsOfTable
  <2>3. \A s1 \in SUBSET r : B[s1] \in Int /\ A[s1] = B[s1]
    BY <1>1, <2>1, <2>2, TablesAgree
  <2> QED
    BY <2>2, <2>3
<1> DEFINE G == {r \in SUBSET S : \A x \in r : A[r] = f[x] + A[r \ {x}]}
<1>3. ASSUME NEW r \in SUBSET S, \A x \in r : r \ {x} \in G
      PROVE  r \in G
  <2>1. SUFFICES ASSUME NEW x \in r PROVE A[r] = f[x] + A[r \ {x}]
    OBVIOUS
  <2> DEFINE y == Chosen(r)
  <2>2. y \in r
    BY DEF Chosen
  <2>3. A[r] = f[y] + A[r \ {y}]
    BY <1>1, <2>1 DEF SumTable
  <2>4. CASE x = y
    BY <2>3, <2>4
  <2>5. CASE x # y
    <3>1. r \ {y} \in G /\ r \ {x} \in G
      BY <1>3, <2>2
    <3>2. A[r \ {y}] = f[x] + A[(r \ {y}) \ {x}]
      BY <2>5, <3>1
    <3>3. A[r \ {x}] = f[y] + A[(r \ {x}) \ {y}]
      BY <2>2, <2>5, <3>1
    <3>4. (r \ {y}) \ {x} = (r \ {x}) \ {y}
      OBVIOUS
    <3>5. (r \ {x}) \ {y} \in SUBSET S /\ x \in S /\ y \in S
      BY <2>2
    <3> HIDE DEF y, G
    <3>6. A[(r \ {x}) \ {y}] \in Int /\ f[x] \in Int /\ f[y] \in Int
      BY <1>2, <3>5
    <3>7. A[(r \ {y}) \ {x}] = A[(r \ {x}) \ {y}]
      BY <3>4
    <3> QED
      BY <2>3, <3>2, <3>3, <3>6, <3>7
  <2> QED
    BY <2>4, <2>5
<1>4. s \in G
  <2> HIDE DEF G
  <2> QED
    BY <1>3, AllSubsets
<1>5. ASSUME NEW x \in s PROVE Total(On(f, s)) = f[x] + Total(On(f, s \ {x}))
  <2>1. s \ {x} \in SUBSET S
    OBVIOUS
  <2> QED
    BY <1>2, <1>4, <2>1
<1> QED
  BY <1>2, <1>5

LEMMA OnAll ==
  ASSUME NEW S, NEW f \in [S -> Int]
  PROVE  On(f, S) = f /\ \A s : On(f, s) = [x \in s |-> f[x]]
BY DEF On

\* A total of numbers is one.
LEMMA TotalIsInt ==
  ASSUME NEW S, IsFiniteSet(S), NEW f \in [S -> Int]
  PROVE  Total(f) \in Int
BY TotalPick, OnAll

LEMMA TotalOnNone == \A f : Total(On(f, {})) = 0
BY TotalOfNone DEF On

\* Totals add.
LEMMA TotalAdds ==
  ASSUME NEW S, IsFiniteSet(S), NEW f \in [S -> Int], NEW g \in [S -> Int]
  PROVE  Total([x \in S |-> f[x] + g[x]]) = Total(f) + Total(g)
<1> DEFINE h == [x \in S |-> f[x] + g[x]]
           G == {s \in SUBSET S : Total(On(h, s)) = Total(On(f, s)) + Total(On(g, s))}
<1>1. h \in [S -> Int]
  OBVIOUS
<1>2. ASSUME NEW s \in SUBSET S, \A x \in s : s \ {x} \in G
      PROVE  s \in G
  <2>1. CASE s = {}
    BY <2>1, TotalOnNone
  <2>2. CASE s # {}
    <3>1. PICK x \in s : TRUE
      BY <2>2
    <3> DEFINE r == s \ {x}
    <3>2. r \in SUBSET S /\ r \in G
      BY <1>2
    <3>3. Total(On(f, s)) = f[x] + Total(On(f, r)) /\ Total(On(f, r)) \in Int
      BY <3>2, TotalPick
    <3>4. Total(On(g, s)) = g[x] + Total(On(g, r)) /\ Total(On(g, r)) \in Int
      BY <3>2, TotalPick
    <3>5. Total(On(h, s)) = h[x] + Total(On(h, r))
      <4> HIDE DEF h
      <4> QED
        BY <1>1, TotalPick
    <3>6. h[x] = f[x] + g[x] /\ f[x] \in Int /\ g[x] \in Int
      OBVIOUS
    <3>7. Total(On(h, r)) = Total(On(f, r)) + Total(On(g, r))
      BY <3>2
    <3> HIDE DEF h, r
    <3> QED
      BY <3>3, <3>4, <3>5, <3>6, <3>7
  <2> QED
    BY <2>1, <2>2
<1>3. S \in G
  <2> HIDE DEF G
  <2> QED
    BY <1>2, AllSubsets
<1>4. Total(On(h, S)) = Total(On(f, S)) + Total(On(g, S))
  BY <1>3
<1>5. On(h, S) = h /\ On(f, S) = f /\ On(g, S) = g
  <2> HIDE DEF h
  <2> QED
    BY <1>1, OnAll
<1> QED
  BY <1>4, <1>5

LEMMA TotalSubtracts ==
  ASSUME NEW S, IsFiniteSet(S), NEW f \in [S -> Int], NEW g \in [S -> Int]
  PROVE  Total([x \in S |-> f[x] - g[x]]) = Total(f) - Total(g)
<1> DEFINE h == [x \in S |-> f[x] - g[x]]
<1>1. h \in [S -> Int]
  OBVIOUS
<1>2. f = [x \in S |-> h[x] + g[x]]
  OBVIOUS
<1>3. Total(h) \in Int /\ Total(g) \in Int
  <2> HIDE DEF h
  <2> QED
    BY <1>1, TotalIsInt
<1>4. Total([x \in S |-> h[x] + g[x]]) = Total(h) + Total(g)
  <2> HIDE DEF h
  <2> QED
    BY <1>1, TotalAdds
<1>5. Total(f) = Total(h) + Total(g)
  BY <1>2, <1>4, Zenon
<1> HIDE DEF h
<1>6. Total(h) = Total(f) - Total(g)
  BY <1>3, <1>5
<1> QED
  BY <1>6 DEF h

\* What is nought may be left out.
LEMMA TotalWithin ==
  ASSUME NEW S, IsFiniteSet(S), NEW f \in [S -> Int], NEW T \in SUBSET S,
         \A x \in S \ T : f[x] = 0
  PROVE  Total(f) = Total([x \in T |-> f[x]])
<1> DEFINE G == {s \in SUBSET S : Total(On(f, s)) = Total(On(f, s \cap T))}
<1>1. ASSUME NEW s \in SUBSET S, \A x \in s : s \ {x} \in G
      PROVE  s \in G
  <2>1. CASE s = {}
    <3>1. s \cap T = s
      BY <2>1
    <3> QED
      BY <3>1
  <2>2. ASSUME NEW x \in s PROVE s \in G
    <3>1. s \ {x} \in G /\ s \ {x} \in SUBSET S /\ s \cap T \in SUBSET S
      BY <1>1
    <3>2. Total(On(f, s)) = f[x] + Total(On(f, s \ {x})) /\ Total(On(f, s \ {x})) \in Int
      BY <3>1, TotalPick
    <3>3. Total(On(f, s \ {x})) = Total(On(f, (s \ {x}) \cap T))
      BY <3>1
    <3>4. CASE x \in T
      <4>1. x \in s \cap T
        BY <3>4
      <4>2. Total(On(f, s \cap T)) = f[x] + Total(On(f, (s \cap T) \ {x}))
        BY <3>1, <4>1, TotalPick
      <4>3. (s \cap T) \ {x} = (s \ {x}) \cap T
        OBVIOUS
      <4>4. Total(On(f, (s \cap T) \ {x})) = Total(On(f, (s \ {x}) \cap T))
        BY <4>3
      <4>5. Total(On(f, s)) = Total(On(f, s \cap T))
        BY <3>2, <3>3, <4>2, <4>4
      <4> QED
        BY <4>5
    <3>5. CASE x \notin T
      <4>1. f[x] = 0
        BY <3>5
      <4>2. (s \ {x}) \cap T = s \cap T
        BY <3>5
      <4>3. Total(On(f, (s \ {x}) \cap T)) = Total(On(f, s \cap T))
        BY <4>2
      <4>4. Total(On(f, s)) = Total(On(f, s \cap T))
        BY <3>2, <3>3, <4>1, <4>3
      <4> QED
        BY <4>4
    <3> QED
      BY <3>4, <3>5
  <2> QED
    BY <2>1, <2>2
<1>2. S \in G
  <2> HIDE DEF G
  <2> QED
    BY <1>1, AllSubsets
<1>3. S \cap T = T
  OBVIOUS
<1>4. Total(On(f, S)) = Total(On(f, T))
  BY <1>2, <1>3
<1> QED
  BY <1>4 DEF On

\* A total of noughts.
LEMMA TotalOfNoughts ==
  ASSUME NEW S, IsFiniteSet(S), NEW f, DOMAIN f = S, f = [x \in S |-> f[x]],
         \A x \in S : f[x] = 0
  PROVE  Total(f) = 0
<1>1. f \in [S -> Int]
  <2>1. [x \in S |-> f[x]] \in [S -> Int]
    OBVIOUS
  <2> QED
    BY <2>1, Zenon
<1>2. {} \in SUBSET S /\ \A x \in S \ {} : f[x] = 0
  OBVIOUS
<1>4. Total(f) = Total([x \in {} |-> f[x]])
  BY ONLY IsFiniteSet(S), <1>1, <1>2, TotalWithin
<1>3. Total([x \in {} |-> f[x]]) = 0
  BY TotalOfNone
<1> QED
  BY <1>3, <1>4

\* Group by group.
LEMMA TotalOfGroups ==
  ASSUME NEW S, IsFiniteSet(S), NEW f \in [S -> Int],
         NEW T, IsFiniteSet(T), NEW key \in [S -> T]
  PROVE  /\ [k \in T |-> Total([x \in {y \in S : key[y] = k} |-> f[x]])] \in [T -> Int]
         /\ Total(f) = Total([k \in T |-> Total([x \in {y \in S : key[y] = k} |-> f[x]])])
<1> DEFINE Part(s, k) == {y \in s : key[y] = k}
           Parts(s) == [k \in T |-> Total(On(f, Part(s, k)))]
           G == {s \in SUBSET S : Total(On(f, s)) = Total(Parts(s))}
<1>1. ASSUME NEW s \in SUBSET S PROVE Parts(s) \in [T -> Int]
  <2>1. ASSUME NEW k \in T PROVE Total(On(f, Part(s, k))) \in Int
    <3>1. Part(s, k) \in SUBSET S
      OBVIOUS
    <3> QED
      BY <3>1, TotalPick
  <2> QED
    BY <2>1
<1>2. ASSUME NEW s \in SUBSET S, \A x \in s : s \ {x} \in G
      PROVE  s \in G
  <2>1. CASE s = {}
    <3>1. ASSUME NEW k \in T PROVE Parts(s)[k] = 0
      <4>1. Part(s, k) = {}
        BY <2>1
      <4> QED
        BY <4>1, TotalOnNone
    <3>2. DOMAIN Parts(s) = T /\ Parts(s) = [k \in T |-> Parts(s)[k]]
      OBVIOUS
    <3>3. Total(Parts(s)) = 0
      <4> HIDE DEF Parts
      <4> QED
        BY <3>1, <3>2, TotalOfNoughts
    <3>4. Total(On(f, s)) = 0
      BY <2>1, TotalOnNone
    <3> QED
      BY <3>3, <3>4
  <2>2. ASSUME NEW x \in s PROVE s \in G
    <3> DEFINE r == s \ {x}
               k == key[x]
    <3>1. r \in G /\ r \in SUBSET S /\ k \in T /\ f[x] \in Int /\ x \in S
      BY <1>2
    <3>2. Total(On(f, s)) = f[x] + Total(On(f, r))
      BY TotalPick
    <3>3. ASSUME NEW l \in T \ {k} PROVE Parts(s)[l] = Parts(r)[l]
      <4>1. Part(s, l) = Part(r, l)
        OBVIOUS
      <4> QED
        BY <4>1
    <3>4. Parts(s)[k] = f[x] + Parts(r)[k]
      <4>1. x \in Part(s, k) /\ Part(s, k) \in SUBSET S
        OBVIOUS
      <4>2. Part(s, k) \ {x} = Part(r, k)
        OBVIOUS
      <4>3. Total(On(f, Part(s, k))) = f[x] + Total(On(f, Part(s, k) \ {x}))
        BY <4>1, TotalPick
      <4> QED
        BY <3>1, <4>2, <4>3
    <3>5. Parts(s) \in [T -> Int] /\ Parts(r) \in [T -> Int]
      <4> HIDE DEF Parts
      <4> QED
        BY <1>1, <3>1
    <3>6. Total(On(f, r)) = Total(Parts(r))
      BY <3>1
    <3> HIDE DEF Parts, r, k, G
    <3>7. T \in SUBSET T /\ T \ {k} \in SUBSET T
      OBVIOUS
    <3>8. Total(On(Parts(s), T)) = Parts(s)[k] + Total(On(Parts(s), T \ {k}))
      BY <3>1, <3>5, <3>7, TotalPick
    <3>9. /\ Total(On(Parts(r), T)) = Parts(r)[k] + Total(On(Parts(r), T \ {k}))
          /\ Total(On(Parts(r), T \ {k})) \in Int
      BY <3>1, <3>5, <3>7, TotalPick
    <3>10. On(Parts(s), T \ {k}) = On(Parts(r), T \ {k})
      BY <3>3 DEF On
    <3>11. On(Parts(s), T) = Parts(s) /\ On(Parts(r), T) = Parts(r)
      BY <3>5, OnAll
    <3>12. Total(Parts(s)) = Parts(s)[k] + Total(On(Parts(s), T \ {k}))
      BY <3>8, <3>11
    <3>13. Total(Parts(r)) = Parts(r)[k] + Total(On(Parts(s), T \ {k}))
      BY <3>9, <3>10, <3>11
    <3>14. Parts(r)[k] \in Int /\ Total(On(Parts(s), T \ {k})) \in Int
      BY <3>1, <3>5, <3>9, <3>10
    <3>15. Total(On(f, s)) = Total(Parts(s))
      BY <3>1, <3>2, <3>4, <3>6, <3>12, <3>13, <3>14
    <3> QED
      BY <3>15 DEF G
  <2> QED
    BY <2>1, <2>2
<1>3. S \in G
  <2> HIDE DEF G
  <2> QED
    BY <1>2, AllSubsets
<1>4. On(f, S) = f
  BY OnAll
<1>5. Parts(S) = [k \in T |-> Total([x \in {y \in S : key[y] = k} |-> f[x]])]
  BY DEF On
<1> QED
  BY <1>1, <1>3, <1>4, <1>5

\* The same numbers under other names.
LEMMA TotalMoves ==
  ASSUME NEW S, IsFiniteSet(S), NEW f \in [S -> Int],
         NEW T, NEW g \in [T -> Int], NEW h \in [S -> T],
         \A x, y \in S : h[x] = h[y] => x = y,
         \A z \in T : \E x \in S : h[x] = z,
         \A x \in S : g[h[x]] = f[x]
  PROVE  /\ IsFiniteSet(T)
         /\ Total(f) = Total(g)
<1> DEFINE Image(s) == {h[x] : x \in s}
           G == {s \in SUBSET S : Total(On(f, s)) = Total(On(g, Image(s)))}
<1>1. T = Image(S)
  OBVIOUS
<1>2. IsFiniteSet(T)
  <2>1. h \in Surjection(S, T)
    BY DEF Surjection
  <2> QED
    BY <2>1, FS_Surjection
<1>3. ASSUME NEW s \in SUBSET S, \A x \in s : s \ {x} \in G
      PROVE  s \in G
  <2>1. CASE s = {}
    <3>1. Image(s) = {}
      BY <2>1
    <3> QED
      BY <2>1, <3>1, TotalOnNone
  <2>2. ASSUME NEW x \in s PROVE s \in G
    <3> DEFINE r == s \ {x}
    <3>1. r \in G /\ x \in S
      BY <1>3
    <3>2. Image(s) \in SUBSET T /\ h[x] \in Image(s)
      OBVIOUS
    <3>3. Image(s) \ {h[x]} = Image(r)
      OBVIOUS
    <3>4. Total(On(f, s)) = f[x] + Total(On(f, r))
      BY TotalPick
    <3>5. Total(On(g, Image(s))) = g[h[x]] + Total(On(g, Image(s) \ {h[x]}))
      <4> HIDE DEF Image
      <4> QED
        BY <1>2, <3>2, TotalPick
    <3>6. Total(On(f, r)) = Total(On(g, Image(r)))
      BY <3>1
    <3>7. g[h[x]] = f[x]
      BY <3>1
    <3> HIDE DEF r, Image
    <3>8. Total(On(f, s)) = Total(On(g, Image(s)))
      BY <3>3, <3>4, <3>5, <3>6, <3>7
    <3> QED
      BY <3>8
  <2> QED
    BY <2>1, <2>2
<1>4. S \in G
  <2> HIDE DEF G
  <2> QED
    BY <1>3, AllSubsets
<1>5. Total(On(f, S)) = Total(On(g, T))
  BY <1>1, <1>4
<1> QED
  BY <1>2, <1>5, OnAll

\* A total grows with its numbers, and strictly if one of them does.
LEMMA TotalGrows ==
  ASSUME NEW S, IsFiniteSet(S), NEW f \in [S -> Int], NEW g \in [S -> Int],
         \A x \in S : f[x] <= g[x]
  PROVE  /\ Total(f) <= Total(g)
         /\ (\E x \in S : f[x] < g[x]) => Total(f) < Total(g)
<1> DEFINE Less(s) == /\ Total(On(f, s)) <= Total(On(g, s))
                      /\ (\E x \in s : f[x] < g[x]) => Total(On(f, s)) < Total(On(g, s))
           G == {s \in SUBSET S : Less(s)}
<1>1. ASSUME NEW s \in SUBSET S, \A x \in s : s \ {x} \in G
      PROVE  s \in G
  <2>1. ASSUME NEW x \in s
        PROVE  /\ Total(On(f, s)) <= Total(On(g, s))
               /\ f[x] < g[x] => Total(On(f, s)) < Total(On(g, s))
    <3>1. Total(On(f, s \ {x})) <= Total(On(g, s \ {x})) /\ s \ {x} \in SUBSET S
      BY <1>1
    <3>2. Total(On(f, s)) = f[x] + Total(On(f, s \ {x})) /\ Total(On(f, s \ {x})) \in Int
      BY <3>1, TotalPick
    <3>3. Total(On(g, s)) = g[x] + Total(On(g, s \ {x})) /\ Total(On(g, s \ {x})) \in Int
      BY <3>1, TotalPick
    <3>4. f[x] \in Int /\ g[x] \in Int /\ f[x] <= g[x]
      OBVIOUS
    <3> QED
      BY <3>1, <3>2, <3>3, <3>4
  <2>2. CASE s = {}
    <3>1. Total(On(f, s)) = 0 /\ Total(On(g, s)) = 0
      BY <2>2, TotalOnNone
    <3> QED
      BY <2>2, <3>1
  <2> QED
    BY <2>1, <2>2
<1>2. S \in G
  <2> HIDE DEF G
  <2> QED
    BY <1>1, AllSubsets
<1>3. Less(S) /\ On(f, S) = f /\ On(g, S) = g
  BY <1>2, OnAll
<1> QED
  BY <1>3

\* A total of natural numbers is one, and is above nought when one of them is.
LEMMA TotalIsNat ==
  ASSUME NEW S, IsFiniteSet(S), NEW f \in [S -> Int], \A x \in S : f[x] >= 0
  PROVE  /\ Total(f) \in Nat
         /\ Total(f) > 0 <=> \E x \in S : f[x] > 0
         /\ \A x \in S : f[x] <= Total(f)
<1> DEFINE z == [x \in S |-> 0]
<1>1. z \in [S -> Int] /\ \A x \in S : z[x] = 0
  OBVIOUS
<1>2. Total(z) = 0
  BY TotalOfNoughts
<1>3. \A x \in S : z[x] <= f[x]
  BY <1>1
<1>4. Total(f) \in Int
  BY TotalIsInt
<1> HIDE DEF z
<1>5. 0 <= Total(f) /\ ((\E x \in S : f[x] > 0) => Total(f) > 0)
  <2>1. Total(z) <= Total(f) /\ ((\E x \in S : z[x] < f[x]) => Total(z) < Total(f))
    BY <1>1, <1>3, TotalGrows
  <2>2. \A x \in S : f[x] > 0 => z[x] < f[x]
    BY <1>1
  <2> QED
    BY <1>2, <1>4, <2>1, <2>2
<1>6. ASSUME ~ \E x \in S : f[x] > 0 PROVE ~ (Total(f) > 0)
  <2>1. \A x \in S : f[x] = 0
    BY <1>6
  <2>2. DOMAIN f = S /\ f = [x \in S |-> f[x]]
    OBVIOUS
  <2>3. Total(f) = 0
    BY <2>1, <2>2, TotalOfNoughts
  <2> QED
    BY <2>3
<1>7. ASSUME NEW x \in S PROVE f[x] <= Total(f)
  <2> DEFINE h == [y \in S |-> IF y = x THEN f[x] ELSE 0]
  <2>1. h \in [S -> Int] /\ \A y \in S : h[y] <= f[y]
    OBVIOUS
  <2>2. Total(h) <= Total(f)
    <3> HIDE DEF h
    <3> QED
      BY <2>1, TotalGrows
  <2>3. Total(On(h, S)) = h[x] + Total(On(h, S \ {x}))
    <3> HIDE DEF h
    <3>1. S \in SUBSET S
      OBVIOUS
    <3> QED
      BY <2>1, <3>1, TotalPick
  <2>4. On(h, S) = h
    <3> HIDE DEF h
    <3> QED
      BY <2>1, OnAll
  <2>5. Total(On(h, S \ {x})) = 0
    <3>1. DOMAIN On(h, S \ {x}) = S \ {x} /\ \A y \in S \ {x} : On(h, S \ {x})[y] = 0
      BY DEF On
    <3>2. On(h, S \ {x}) = [y \in S \ {x} |-> On(h, S \ {x})[y]]
      BY DEF On
    <3>3. IsFiniteSet(S \ {x})
      BY FS_Subset
    <3> QED
      BY <3>1, <3>2, <3>3, TotalOfNoughts
  <2>6. h[x] = f[x] /\ f[x] \in Int
    OBVIOUS
  <2> HIDE DEF h
  <2> QED
    BY <2>2, <2>3, <2>4, <2>5, <2>6
<1> QED
  BY <1>4, <1>5, <1>6, <1>7

\* Counting.
LEMMA TotalOfOnes ==
  ASSUME NEW S, IsFiniteSet(S)
  PROVE  Cardinality(S) = Total([x \in S |-> 1])
<1> DEFINE f == [x \in S |-> 1]
           G == {s \in SUBSET S : Cardinality(s) = Total(On(f, s))}
<1>0. f \in [S -> Int]
  OBVIOUS
<1>1. ASSUME NEW s \in SUBSET S, \A x \in s : s \ {x} \in G
      PROVE  s \in G
  <2>1. CASE s = {}
    BY <2>1, TotalOnNone, FS_EmptySet
  <2>2. ASSUME NEW x \in s PROVE s \in G
    <3>1. Cardinality(s \ {x}) = Total(On(f, s \ {x})) /\ s \ {x} \in SUBSET S
      BY <1>1
    <3>2. Total(On(f, s)) = f[x] + Total(On(f, s \ {x}))
      <4> HIDE DEF f
      <4> QED
        BY <1>0, TotalPick
    <3>3. f[x] = 1
      OBVIOUS
    <3>4. IsFiniteSet(s)
      BY FS_Subset
    <3>5. Cardinality(s) \in Nat /\ Cardinality(s \ {x}) = Cardinality(s) - 1
      BY <3>4, FS_CardinalityType, FS_RemoveElement
    <3>6. Cardinality(s) = Total(On(f, s))
      <4> HIDE DEF f
      <4> QED
        BY <3>1, <3>2, <3>3, <3>5
    <3> QED
      BY <3>6
  <2> QED
    BY <2>1, <2>2
<1>2. S \in G
  <2> HIDE DEF G
  <2> QED
    BY <1>1, AllSubsets
<1>3. On(f, S) = f
  BY <1>0, OnAll
<1>4. Cardinality(S) = Total(On(f, S))
  BY <1>2
<1> QED
  BY <1>3, <1>4

\* By rows or by columns.
LEMMA TotalSwaps ==
  ASSUME NEW S, IsFiniteSet(S), NEW T, IsFiniteSet(T), NEW f \in [S -> [T -> Int]]
  PROVE  Total([x \in S |-> Total(f[x])]) = Total([y \in T |-> Total([x \in S |-> f[x][y]])])
<1> DEFINE row == [x \in S |-> Total(f[x])]
           Column(y) == [x \in S |-> f[x][y]]
           Columns(s) == [y \in T |-> Total(On(Column(y), s))]
           G == {s \in SUBSET S : Total(On(row, s)) = Total(Columns(s))}
<1>1. row \in [S -> Int]
  <2>1. ASSUME NEW x \in S PROVE Total(f[x]) \in Int
    <3>1. f[x] \in [T -> Int]
      OBVIOUS
    <3> QED
      BY <3>1, TotalIsInt
  <2> QED
    BY <2>1
<1>2. ASSUME NEW y \in T PROVE Column(y) \in [S -> Int]
  OBVIOUS
<1>3. ASSUME NEW s \in SUBSET S PROVE Columns(s) \in [T -> Int]
  <2>1. ASSUME NEW y \in T PROVE Total(On(Column(y), s)) \in Int
    <3> HIDE DEF Column
    <3> QED
      BY <1>2, TotalPick
  <2> QED
    BY <2>1
<1>4. ASSUME NEW s \in SUBSET S, \A x \in s : s \ {x} \in G
      PROVE  s \in G
  <2>1. CASE s = {}
    <3>1. DOMAIN Columns(s) = T /\ Columns(s) = [y \in T |-> Columns(s)[y]]
      OBVIOUS
    <3>2. \A y \in T : Columns(s)[y] = 0
      BY <2>1, TotalOnNone
    <3>3. Total(Columns(s)) = 0
      <4> HIDE DEF Columns
      <4> QED
        BY <3>1, <3>2, TotalOfNoughts
    <3>4. Total(On(row, s)) = 0
      BY <2>1, TotalOnNone
    <3> QED
      BY <3>3, <3>4
  <2>2. ASSUME NEW x \in s PROVE s \in G
    <3> DEFINE r == s \ {x}
    <3>1. r \in G /\ r \in SUBSET S
      BY <1>4
    <3>2. Total(On(row, s)) = row[x] + Total(On(row, r))
      <4> HIDE DEF row
      <4> QED
        BY <1>1, TotalPick
    <3>3. row[x] = Total(f[x])
      OBVIOUS
    <3>4. f[x] \in [T -> Int]
      OBVIOUS
    <3>5. Columns(r) \in [T -> Int]
      <4> HIDE DEF Columns
      <4> QED
        BY <1>3, <3>1
    <3>6. ASSUME NEW y \in T PROVE Columns(s)[y] = f[x][y] + Columns(r)[y]
      <4>1. Total(On(Column(y), s)) = Column(y)[x] + Total(On(Column(y), s \ {x}))
        <5> HIDE DEF Column
        <5> QED
          BY <1>2, TotalPick
      <4>2. Column(y)[x] = f[x][y]
        OBVIOUS
      <4> HIDE DEF Column
      <4> QED
        BY <4>1, <4>2
    <3>7. Columns(s) = [y \in T |-> f[x][y] + Columns(r)[y]]
      <4>1. DOMAIN Columns(s) = T /\ Columns(s) = [y \in T |-> Columns(s)[y]]
        OBVIOUS
      <4> HIDE DEF Columns
      <4> QED
        BY <3>6, <4>1
    <3>8. Total(On(row, r)) = Total(Columns(r))
      BY <3>1
    <3> HIDE DEF row, Columns, r
    <3>9. Total([y \in T |-> f[x][y] + Columns(r)[y]]) = Total(f[x]) + Total(Columns(r))
      BY <3>4, <3>5, TotalAdds
    <3>10. Total(Columns(s)) = Total(f[x]) + Total(Columns(r))
      BY <3>7, <3>9, Zenon
    <3>11. Total(On(row, s)) = Total(Columns(s))
      BY <3>2, <3>3, <3>8, <3>10
    <3> QED
      BY <3>11
  <2> QED
    BY <2>1, <2>2
<1>5. S \in G
  <2> HIDE DEF G
  <2> QED
    BY <1>4, AllSubsets
<1>6. On(row, S) = row
  <2> HIDE DEF row
  <2> QED
    BY <1>1, OnAll
<1>7. Columns(S) = [y \in T |-> Total([x \in S |-> f[x][y]])]
  <2>1. ASSUME NEW y \in T PROVE On(Column(y), S) = Column(y)
    BY DEF On
  <2> QED
    BY <2>1
<1>8. Total(On(row, S)) = Total(Columns(S))
  BY <1>5
<1> HIDE DEF row, Columns
<1>9. Total(row) = Total([y \in T |-> Total([x \in S |-> f[x][y]])])
  BY <1>6, <1>7, <1>8
<1> QED
  BY <1>9 DEF row

\* In two parts.
LEMMA TotalSplits ==
  ASSUME NEW S, IsFiniteSet(S), NEW f \in [S -> Int], NEW T \in SUBSET S
  PROVE  Total(f) = Total([x \in T |-> f[x]]) + Total([x \in S \ T |-> f[x]])
<1> DEFINE g == [x \in S |-> IF x \in T THEN f[x] ELSE 0]
           h == [x \in S |-> IF x \in T THEN 0 ELSE f[x]]
<1>1. g \in [S -> Int] /\ h \in [S -> Int] /\ f = [x \in S |-> g[x] + h[x]]
  OBVIOUS
<1>2. \A x \in S \ T : g[x] = 0
  OBVIOUS
<1>3. \A x \in S \ (S \ T) : h[x] = 0
  OBVIOUS
<1>4. /\ [x \in T |-> g[x]] = [x \in T |-> f[x]]
      /\ [x \in S \ T |-> h[x]] = [x \in S \ T |-> f[x]]
  OBVIOUS
<1>5. S \ T \in SUBSET S
  OBVIOUS
<1> HIDE DEF g, h
<1>6. Total(g) = Total([x \in T |-> g[x]])
  BY <1>1, <1>2, TotalWithin
<1>7. Total(h) = Total([x \in S \ T |-> h[x]])
  BY <1>1, <1>3, <1>5, TotalWithin
<1>8. Total([x \in S |-> g[x] + h[x]]) = Total(g) + Total(h)
  BY <1>1, TotalAdds
<1>9. Total(f) = Total(g) + Total(h)
  BY <1>1, <1>8, Zenon
<1> QED
  BY <1>4, <1>6, <1>7, <1>9

\* With the other sign.
LEMMA TotalNegates ==
  ASSUME NEW S, IsFiniteSet(S), NEW f \in [S -> Int]
  PROVE  Total([x \in S |-> -f[x]]) = -Total(f)
<1> DEFINE g == [x \in S |-> -f[x]]
           z == [x \in S |-> f[x] + g[x]]
<1>1. g \in [S -> Int]
  OBVIOUS
<1>2. DOMAIN z = S /\ z = [x \in S |-> z[x]] /\ \A x \in S : z[x] = 0
  OBVIOUS
<1>3. Total(z) = 0
  <2> HIDE DEF z
  <2> QED
    BY <1>2, TotalOfNoughts
<1> HIDE DEF g
<1>4. Total(z) = Total(f) + Total(g)
  BY <1>1, TotalAdds
<1>5. Total(f) \in Int /\ Total(g) \in Int
  BY <1>1, TotalIsInt
<1>6. Total(g) = -Total(f)
  BY <1>3, <1>4, <1>5
<1> QED
  BY <1>6 DEF g

-----------------------------------------------------------------------------
(* FIFO and the rows of a file. *)

\* FIFO leaves no choice: what one of two allocations takes less of a lot, the
\* other takes more of nothing else.
LEMMA OneAllocation ==
  ASSUME NEW d, Sound(d), NEW lots \in SUBSET DOMAIN d.cards, NEW q \in Nat,
         NEW f \in FifoShares(d, lots, q), NEW g \in FifoShares(d, lots, q)
  PROVE  f = g
<1>1. /\ f \in [lots -> 0..q] /\ g \in [lots -> 0..q]
      /\ \A c \in lots : f[c] <= Available(d, c) /\ g[c] <= Available(d, c)
      /\ \A c1, c2 \in lots : Older(d, c1, c2) /\ f[c2] > 0 => f[c1] = Available(d, c1)
      /\ \A c1, c2 \in lots : Older(d, c1, c2) /\ g[c2] > 0 => g[c1] = Available(d, c1)
  BY DEF FifoShares
<1>2. Total(f) = q /\ Total(g) = q
  BY DEF FifoShares
<1>3. f \in [lots -> Nat] /\ g \in [lots -> Nat]
  BY <1>1
<1>4. IsFiniteSet(lots)
  <2>1. d.lastCard \in Nat /\ DOMAIN d.cards \subseteq 1..d.lastCard
    BY BoundsAssumption DEF Sound, WellFormed, BoundsAssumption
  <2>2. IsFiniteSet(1..d.lastCard)
    BY <2>1, FS_Interval
  <2> QED
    BY <2>1, <2>2, FS_Subset
<1>5. ASSUME NEW c1 \in lots, NEW c2 \in lots, c1 # c2
      PROVE  Older(d, c1, c2) \/ Older(d, c2, c1)
  <2>1. d.cards[c1].date \in Int /\ d.cards[c2].date \in Int /\ c1 \in Int /\ c2 \in Int
    BY DEF Sound, WellFormed, Card, Dates
  <2> QED
    BY <1>5, <2>1 DEF Older
<1>6. \A c \in lots : Available(d, c) \in Int
  <2>1. ASSUME NEW c \in lots PROVE d.cards[c].quantity \in Nat /\ d.taken[c] \in Nat
    BY LotFacts
  <2> QED
    BY <2>1 DEF Available
<1>7. ASSUME NEW h \in [lots -> Nat], NEW k \in [lots -> Nat], NEW c \in lots, h[c] < k[c],
             \A x \in lots : h[x] <= Available(d, x) /\ k[x] <= Available(d, x),
             \A c1, c2 \in lots : Older(d, c1, c2) /\ h[c2] > 0 => h[c1] = Available(d, c1),
             \A c1, c2 \in lots : Older(d, c1, c2) /\ k[c2] > 0 => k[c1] = Available(d, c1)
      PROVE  Total(h) < Total(k)
  <2>1. ASSUME NEW x \in lots PROVE h[x] <= k[x]
    <3>1. h[x] \in Nat /\ k[x] \in Nat /\ h[c] \in Nat /\ k[c] \in Nat
      OBVIOUS
    <3>2. CASE x = c
      BY <1>7, <3>1, <3>2
    <3>3. CASE Older(d, x, c)
      <4>1. k[x] = Available(d, x)
        BY <1>7, <3>1, <3>3
      <4> QED
        BY <1>7, <4>1
    <3>4. CASE Older(d, c, x)
      <4>1. h[c] # Available(d, c)
        BY <1>6, <1>7, <3>1
      <4>2. ~(h[x] > 0)
        BY <1>7, <3>4, <4>1
      <4> QED
        BY <3>1, <4>2
    <3> QED
      BY <1>5, <3>2, <3>3, <3>4
  <2> QED
    BY <1>4, <1>7, <2>1, TotalGrows
<1>8. ASSUME NEW c \in lots PROVE f[c] = g[c]
  <2>1. f[c] \in Nat /\ g[c] \in Nat
    BY <1>3
  <2>2. ~(f[c] < g[c])
    BY <1>1, <1>2, <1>3, <1>7
  <2>3. ~(g[c] < f[c])
    BY <1>1, <1>2, <1>3, <1>7
  <2> QED
    BY <2>1, <2>2, <2>3
<1> QED
  BY <1>1, <1>8

\* What one row of a file makes of an image: a write-off, or a problem row.
RowGives(d, row, mode, e) ==
  \/ CanIssue(d, row) /\ \E shares \in FifoShares(d, AvailableBySerial(d, row.serial), row.quantity) :
                           e = AddIssue(d, row, shares)
  \/ mode /\ ~CanIssue(d, row) /\ IsUnmatched(d, row) /\ e = AddUnmatchedIssue(d, row)

\* What a row makes of an image is determined by the two.
LEMMA RowGivesOne ==
  ASSUME NEW d, Sound(d), NEW row \in IssueRow, NEW mode, NEW e1, NEW e2,
         RowGives(d, row, mode, e1), RowGives(d, row, mode, e2)
  PROVE  e1 = e2
<1>1. CASE CanIssue(d, row)
  <2>1. PICK f \in FifoShares(d, AvailableBySerial(d, row.serial), row.quantity) :
          e1 = AddIssue(d, row, f)
    BY <1>1 DEF RowGives
  <2>2. PICK g \in FifoShares(d, AvailableBySerial(d, row.serial), row.quantity) :
          e2 = AddIssue(d, row, g)
    BY <1>1 DEF RowGives
  <2>3. AvailableBySerial(d, row.serial) \in SUBSET DOMAIN d.cards /\ row.quantity \in Nat
    BY DEF AvailableBySerial, WithSerial, IssueRow, Quantities
  <2>4. f = g
    BY <2>3, OneAllocation
  <2> QED
    BY <2>1, <2>2, <2>4
<1>2. CASE ~CanIssue(d, row)
  BY <1>2 DEF RowGives
<1> QED
  BY <1>1, <1>2

\* The row actions of the ledger are RowGives.
LEMMA RowIsGiven ==
  ASSUME NEW row, Matches(row) \/ KeepsAsProblem(row)
  PROVE  RowGives(work, row, soft, work')
BY DEF Matches, KeepsAsProblem, RowGives

-----------------------------------------------------------------------------
(* Files: written whole, and never refused after their dry run. *)

\* s are the images of the tables before each of the first n rows, and after.
Walk(s, d, file, mode, n) ==
  /\ s[1] = d
  /\ \A i \in 1..n : RowGives(s[i], file[i], mode, s[i + 1])

\* e is d with the first n rows of the file in its history.
Written(d, e, file, n) ==
  /\ Len(e.issues) = Len(d.issues) + n
  /\ \A i \in 1..Len(d.issues) : e.issues[i] = d.issues[i]
  /\ \A i \in 1..n : Records(e.issues[Len(d.issues) + i], file[i])

\* While the dry run has met no row to refuse there is a walk from the committed tables
\* to its image; once it is over, the file is written along that walk.
FileInv ==
  /\ IInv
  /\ phase \in {"idle", "cables"} => work = db
  /\ phase = "check" /\ ~failed =>
       \E s : Walk(s, db, rows, soft, next - 1) /\ s[next] = work
  /\ phase = "confirmed" =>
       \E s : Walk(s, db, rows, soft, Len(rows)) /\ s[next] = work
  /\ phase \in {"apply", "confirmed"} => Written(db, work, rows, next - 1)

\* A walk goes on by one row.
LEMMA WalkOn ==
  ASSUME NEW s, NEW d, NEW file, NEW mode, NEW n \in Nat, Walk(s, d, file, mode, n),
         NEW e, RowGives(s[n + 1], file[n + 1], mode, e)
  PROVE  \E t : Walk(t, d, file, mode, n + 1) /\ t[n + 2] = e
<1> DEFINE t == [i \in 1..(n + 2) |-> IF i = n + 2 THEN e ELSE s[i]]
<1>1. t[1] = s[1] /\ t[n + 2] = e /\ t[n + 1] = s[n + 1]
  OBVIOUS
<1>2. \A i \in 1..n : t[i] = s[i] /\ t[i + 1] = s[i + 1]
  OBVIOUS
<1> HIDE DEF t
<1>3. ASSUME NEW i \in 1..(n + 1) PROVE RowGives(t[i], file[i], mode, t[i + 1])
  <2>1. CASE i = n + 1
    <3>1. i + 1 = n + 2
      BY <2>1
    <3> QED
      BY <1>1, <2>1, <3>1
  <2>2. CASE i # n + 1
    <3>1. i \in 1..n
      BY <2>2
    <3> QED
      BY <1>2, <3>1 DEF Walk
  <2> QED
    BY <2>1, <2>2
<1>4. Walk(t, d, file, mode, n + 1)
  BY <1>1, <1>3 DEF Walk
<1> QED
  BY <1>1, <1>4

\* A row that is written is one more row of the history.
LEMMA RowRecords ==
  ASSUME NEW d, NEW e, NEW f, Sound(d), Sound(e), NEW file, NEW n \in Nat,
         NEW mode, Written(d, e, file, n), file[n + 1] \in IssueRow,
         RowGives(e, file[n + 1], mode, f)
  PROVE  Written(d, f, file, n + 1)
<1>1. PICK issue : f.issues = Append(e.issues, issue) /\ Records(issue, file[n + 1])
  <2>1. ASSUME NEW parts PROVE Records(IssueOf(file[n + 1], "matched", parts), file[n + 1])
    BY DEF Records, IssueOf
  <2>2. ASSUME NEW parts PROVE Records(IssueOf(file[n + 1], "unmatched", parts), file[n + 1])
    BY DEF Records, IssueOf
  <2>3. ASSUME NEW shares
        PROVE  AddIssue(e, file[n + 1], shares).issues =
                 Append(e.issues, IssueOf(file[n + 1], "matched", PartsOf(shares)))
    BY DEF AddIssue, Sound, WellFormed
  <2>4. AddUnmatchedIssue(e, file[n + 1]).issues =
          Append(e.issues, IssueOf(file[n + 1], "unmatched", [c \in CardIds |-> 0]))
    BY DEF AddUnmatchedIssue, Sound, WellFormed
  <2> QED
    BY <2>1, <2>2, <2>3, <2>4 DEF RowGives
<1>2. e.issues \in Seq(Issue) /\ Len(d.issues) \in Nat
  BY DEF Sound, WellFormed
<1>3. /\ Len(f.issues) = Len(e.issues) + 1
      /\ \A i \in 1..Len(e.issues) : f.issues[i] = e.issues[i]
      /\ f.issues[Len(e.issues) + 1] = issue
  BY <1>1, <1>2
<1>a. Len(d.issues) \in Nat /\ Len(e.issues) \in Nat /\ Len(e.issues) = Len(d.issues) + n
  BY <1>2 DEF Written
<1>b. \A a, b \in Nat : b = a + n => a + (n + 1) = b + 1
  OBVIOUS
<1>c. Len(d.issues) + (n + 1) = Len(e.issues) + 1
  BY ONLY <1>a, <1>b
<1>4. ASSUME NEW i \in 1..(n + 1)
      PROVE  Records(f.issues[Len(d.issues) + i], file[i])
  <2>1. CASE i = n + 1
    <3>1. Len(d.issues) + i = Len(e.issues) + 1
      BY ONLY <1>c, <2>1
    <3> QED
      BY <1>1, <1>3, <2>1, <3>1
  <2>2. CASE i # n + 1
    <3>1. i \in 1..n /\ Len(d.issues) + i \in 1..Len(e.issues)
      BY <1>2, <2>2 DEF Written
    <3> QED
      BY <1>3, <3>1 DEF Written
  <2> QED
    BY <2>1, <2>2
<1>5. \A i \in 1..Len(d.issues) : f.issues[i] = d.issues[i]
  BY <1>2, <1>3 DEF Written
<1>6. Len(f.issues) = Len(d.issues) + (n + 1)
  BY ONLY <1>3, <1>c
<1> QED
  BY <1>4, <1>5, <1>6 DEF Written

\* Before the first row nothing is written.
LEMMA NothingWritten ==
  ASSUME NEW d, Sound(d), NEW file
  PROVE  Written(d, d, file, 0)
<1>1. Len(d.issues) \in Nat
  BY DEF Sound, WellFormed
<1> QED
  BY <1>1 DEF Written

\* No file is open at the start.
LEMMA InitFile == Init => FileInv
<1> SUFFICES ASSUME Init PROVE FileInv
  OBVIOUS
<1> QED
  BY InitInvariant DEF Init, FileInv

\* A file that is taken up has a walk of no rows.
LEMMA BeginFile ==
  ASSUME FileInv, NEW file \in Seq(IssueRow), NEW mode \in BOOLEAN,
         NEW first \in {"check", "apply", "cables"}, Begin(file, mode, first)
  PROVE  FileInv'
<1>1. IInv'
  BY BeginInvariant DEF FileInv
<1>2. /\ phase' = first /\ rows' = file /\ next' = 1 /\ soft' = mode /\ failed' = FALSE
      /\ db' = db /\ work' = work /\ work = db
  BY DEF Begin, FileInv
<1>3. Sound(db)
  BY DEF FileInv, IInv
<1>4. first = "check" => \E s : Walk(s, db, file, mode, 0) /\ s[1] = db
  <2>1. Walk(<<db>>, db, file, mode, 0) /\ <<db>>[1] = db
    BY DEF Walk
  <2> QED
    BY <2>1
<1>5. Written(db, db, file, 0)
  BY <1>3, NothingWritten
<1>6. first # "confirmed" /\ first # "idle"
  OBVIOUS
<1>7. Written(db', work', rows', next' - 1)
  BY <1>2, <1>5
<1>8. phase' = "check" /\ ~failed' => \E s : Walk(s, db', rows', soft', next' - 1) /\ s[next'] = work'
  BY <1>2, <1>4
<1> QED
  BY <1>1, <1>2, <1>6, <1>7, <1>8 DEF FileInv

\* A request that ends, or never was one of a file, leaves nothing open.
LEMMA EndFile ==
  ASSUME IInv', phase' \in {"idle", "cables"}, work' = db'
  PROVE  FileInv'
BY DEF FileInv

\* A row of the dry run adds a step to the walk, or the file has failed.
LEMMA CheckFile ==
  ASSUME FileInv, CheckRow, IInv'
  PROVE  FileInv'
<1>1. /\ phase = "check" /\ phase' = "check" /\ next' = next + 1 /\ next \in Nat \ {0}
      /\ UNCHANGED <<db, rows, soft>>
  BY DEF CheckRow, FileInv, IInv, TypeOK
<1>2. ASSUME ~failed'
      PROVE  \E s : Walk(s, db, rows, soft, next) /\ s[next + 1] = work'
  <2>1. ~failed /\ (Matches(rows[next]) \/ KeepsAsProblem(rows[next]))
    BY <1>2 DEF CheckRow
  <2>2. RowGives(work, rows[next], soft, work')
    BY <2>1, RowIsGiven
  <2>3. PICK s : Walk(s, db, rows, soft, next - 1) /\ s[next] = work
    BY <1>1, <2>1 DEF FileInv
  <2>4. next - 1 \in Nat /\ (next - 1) + 1 = next /\ (next - 1) + 2 = next + 1
    BY <1>1
  <2> QED
    BY <2>2, <2>3, <2>4, WalkOn
<1>3. next' - 1 = next
  BY <1>1
<1>4. phase' = "check" /\ ~failed' =>
        \E s : Walk(s, db', rows', soft', next' - 1) /\ s[next'] = work'
  BY <1>1, <1>2, <1>3
<1> QED
  BY <1>1, <1>4 DEF FileInv

\* The dry run is rolled back to the beginning of its walk.
LEMMA CheckDoneFile ==
  ASSUME FileInv, CheckDone, IInv'
  PROVE  FileInv'
<1>1. CASE failed
  BY <1>1, EndFile DEF CheckDone, NoRequest
<1>2. CASE ~failed
  <2>1. /\ phase = "check" /\ next > Len(rows) /\ work' = db /\ db' = db /\ phase' = "confirmed"
        /\ next' = 1 /\ UNCHANGED <<rows, soft, failed>>
    BY <1>2 DEF CheckDone
  <2>2. next - 1 = Len(rows)
    BY <2>1 DEF FileInv, IInv, TypeOK
  <2>3. PICK s : Walk(s, db, rows, soft, Len(rows))
    BY <1>2, <2>1, <2>2 DEF FileInv
  <2>4. s[1] = db
    BY <2>3 DEF Walk
  <2>5. Written(db, db, rows, 0)
    BY NothingWritten DEF FileInv, IInv
  <2>6. Written(db', work', rows', next' - 1)
    BY <2>1, <2>5
  <2>7. \E t : Walk(t, db', rows', soft', Len(rows')) /\ t[next'] = work'
    BY <2>1, <2>3, <2>4
  <2> QED
    BY <2>1, <2>6, <2>7 DEF FileInv
<1> QED
  BY <1>1, <1>2

\* A row that is written follows the walk, as it has no other way to go.
LEMMA ApplyFile ==
  ASSUME FileInv, ApplyRow, IInv'
  PROVE  FileInv'
<1>1. /\ phase \in {"apply", "confirmed"} /\ next' = next + 1 /\ next \in Nat \ {0}
      /\ next <= Len(rows) /\ rows[next] \in IssueRow
      /\ UNCHANGED <<db, phase, rows, soft>>
  BY DEF ApplyRow, Applying, FileInv, IInv, TypeOK
<1>2. RowGives(work, rows[next], soft, work')
  BY RowIsGiven DEF ApplyRow
<1>3. next - 1 \in Nat /\ (next - 1) + 1 = next /\ next' - 1 = next
  BY <1>1
<1>4. Written(db, work', rows, next)
  <2>1. Sound(db) /\ Sound(work) /\ Written(db, work, rows, next - 1)
    BY <1>1 DEF FileInv, IInv
  <2> QED
    BY <1>1, <1>2, <1>3, <2>1, RowRecords
<1>5. ASSUME phase = "confirmed"
      PROVE  \E s : Walk(s, db, rows, soft, Len(rows)) /\ s[next + 1] = work'
  <2>1. PICK s : Walk(s, db, rows, soft, Len(rows)) /\ s[next] = work
    BY <1>5 DEF FileInv
  <2>2. RowGives(work, rows[next], soft, s[next + 1])
    <3>1. next \in 1..Len(rows)
      BY <1>1
    <3> QED
      BY <2>1, <3>1 DEF Walk
  <2>3. Sound(work)
    BY DEF FileInv, IInv
  <2>4. s[next + 1] = work'
    BY <1>1, <1>2, <2>2, <2>3, RowGivesOne
  <2> QED
    BY <2>1, <2>4
<1>6. Written(db', work', rows', next' - 1)
  BY <1>1, <1>3, <1>4
<1>7. phase' = "confirmed" =>
        \E s : Walk(s, db', rows', soft', Len(rows')) /\ s[next'] = work'
  BY <1>1, <1>5
<1>8. phase' # "check" /\ phase' \notin {"idle", "cables"}
  BY <1>1
<1> QED
  BY <1>6, <1>7, <1>8 DEF FileInv

\* Every step keeps what is said of files.
LEMMA FileStep == FileInv /\ [Next]_vars => FileInv'
<1> SUFFICES ASSUME FileInv, [Next]_vars PROVE FileInv'
  OBVIOUS
<1>0. IInv /\ IInv'
  BY StepInvariant DEF FileInv
<1>1. CASE SingleRequest
  <2>1. PICK d : Commits(d)
    BY <1>0, <1>1, SingleRequestsInvariant
  <2>2. phase' = "idle" /\ work' = db'
    BY <2>1 DEF Commits, request
  <2> QED
    BY <1>0, <2>2, EndFile
<1>2. ASSUME NEW file \in IssueFiles, NEW mode \in BOOLEAN, BeginImport(file, mode)
      PROVE  FileInv'
  BY <1>2, BeginFile, InputsAssumption DEF BeginImport, InputsAssumption
<1>3. ASSUME NEW file \in IssueFiles, NEW mode \in BOOLEAN, BeginConfirm(file, mode)
      PROVE  FileInv'
  BY <1>3, BeginFile, InputsAssumption DEF BeginConfirm, InputsAssumption
<1>4. ASSUME NEW file \in CableFiles, BeginCables(file)
      PROVE  FileInv'
  <2>1. file \in Seq(IssueRow) /\ FALSE \in BOOLEAN
    BY InputsAssumption DEF InputsAssumption
  <2> QED
    BY <1>4, <2>1, BeginFile DEF BeginCables
<1>5. CASE CheckRow
  BY <1>0, <1>5, CheckFile
<1>6. CASE CheckDone
  BY <1>0, <1>6, CheckDoneFile
<1>7. CASE ApplyRow
  BY <1>0, <1>7, ApplyFile
<1>8. CASE ApplyRefused
  BY <1>0, <1>8, EndFile DEF ApplyRefused, NoRequest
<1>9. CASE CommitFile
  BY <1>0, <1>9, EndFile DEF CommitFile, NoRequest
<1>10. CASE CableRow
  BY <1>0, <1>10, EndFile DEF CableRow
<1>11. CASE CablesEnd
  BY <1>0, <1>11, EndFile DEF CablesEnd, NoRequest
<1>12. CASE Crash
  BY <1>0, <1>12, EndFile DEF Crash, NoRequest
<1>13. CASE UNCHANGED vars
  BY <1>13 DEF vars, FileInv, IInv, TypeOK
<1> QED
  BY <1>1, <1>2, <1>3, <1>4, <1>5, <1>6, <1>7, <1>8, <1>9, <1>10, <1>11, <1>12, <1>13
  DEF Next, RequestStep

\* So it holds in every reachable state.
LEMMA FilesSound == Spec => []FileInv
BY InitFile, FileStep, PTL DEF Spec

\* A file whose dry run found no error is written without an error, whatever its rows
\* take from each other (confirm_issue_import).
THEOREM CheckedFileIsWritten == Spec => []CheckedFileNeverRefused
<1>1. FileInv => CheckedFileNeverRefused
  <2>1. SUFFICES ASSUME FileInv, phase = "confirmed", next <= Len(rows)
                 PROVE  CanIssue(work, rows[next]) \/ (soft /\ IsUnmatched(work, rows[next]))
    BY DEF CheckedFileNeverRefused
  <2>2. PICK s : Walk(s, db, rows, soft, Len(rows)) /\ s[next] = work
    BY <2>1 DEF FileInv
  <2>3. next \in 1..Len(rows)
    BY <2>1 DEF FileInv, IInv, TypeOK
  <2>4. RowGives(work, rows[next], soft, s[next + 1])
    BY <2>2, <2>3 DEF Walk
  <2> QED
    BY <2>4 DEF RowGives
<1> QED
  BY <1>1, FilesSound, PTL

\* What a request of one step adds to the history: nothing or one write-off.
LEMMA SingleRequestRecords ==
  ASSUME IInv, SingleRequest
  PROVE  /\ phase = "idle"
         /\ db'.issues = db.issues \/ \E issue : db'.issues = Append(db.issues, issue)
<1>1. DOMAIN db = {"cards", "lastCard", "issues", "taken", "legacy"}
  BY DEF IInv, Sound, WellFormed
<1>2. \A c, card : SetCard(db, c, card).issues = db.issues
  BY <1>1 DEF SetCard
<1>3. \A card : AddCard(db, card).issues = db.issues
  BY <1>1 DEF AddCard
<1>4. \A cards : AddCards(db, cards).issues = db.issues
  BY <1>1 DEF AddCards
<1>5. \A c : DeleteCard(db, c).issues = db.issues
  BY <1>1 DEF DeleteCard
<1>6. \A row, shares : \E issue : AddIssue(db, row, shares).issues = Append(db.issues, issue)
  BY <1>1 DEF AddIssue
<1>7. \A s, edit : UpdateCard(db, s, edit).issues = db.issues
  BY <1>2 DEF UpdateCard
<1>8. (\E row \in SingleRows : CreateIssue(row)) \/ (\E row \in CableRows : CreateCableIssue(row))
        => phase = "idle" /\ \E issue : db'.issues = Append(db.issues, issue)
  BY <1>6 DEF CreateIssue, CreateCableIssue, Commits
<1>9. (\E c \in CardIds, date \in Dates \ {NoDate} : FillReceiptDate(c, date))
        \/ (\E c \in CardIds, place \in Places : FillReceiptFields(c, place))
        \/ (\E s \in Serials, edit \in Edits : UpdatePositionCard(s, edit))
        \/ (\E c \in CardIds, s \in Serials : CorrectDuplicateSerial(c, s))
        => phase = "idle" /\ db'.issues = db.issues
  BY <1>2, <1>7 DEF FillReceiptDate, FillReceiptFields, UpdatePositionCard, CorrectDuplicateSerial,
     FillDate, FillPlace, CorrectSerial, Commits
<1>10. (\E card \in Arrivals : CreateReceipt(card))
        \/ (\E cards \in UpToTwo(Arrivals) : CreateReceiptBatch(cards))
        \/ (\E cards \in UpToTwo(CableArrivals) : CreateCableReceiptBatch(cards))
        \/ (\E c \in CardIds : DeleteDuplicateReceipt(c))
        => phase = "idle" /\ db'.issues = db.issues
  BY <1>3, <1>4, <1>5 DEF CreateReceipt, CreateReceiptBatch, CreateCableReceiptBatch,
     DeleteDuplicateReceipt, Commits
<1> QED
  BY <1>8, <1>9, <1>10 DEF SingleRequest

\* A longer history that agrees with an earlier one begins with it.
LEMMA PrefixStays ==
  ASSUME NEW S, NEW a \in Seq(S), NEW b \in Seq(S), Len(a) <= Len(b),
         \A i \in 1..Len(a) : b[i] = a[i]
  PROVE  SubSeq(b, 1, Len(a)) = a
<1>1. Len(a) \in Nat /\ Len(b) \in Nat
  OBVIOUS
<1>2. /\ SubSeq(b, 1, Len(a)) \in Seq(S) /\ Len(SubSeq(b, 1, Len(a))) = Len(a)
      /\ \A i \in 1..Len(a) : SubSeq(b, 1, Len(a))[i] = b[i]
  BY <1>1
<1> QED
  BY <1>2

\* The step of FileAllOrNothing.
AllOrNothing ==
  db'.issues # db.issues =>
       /\ SubSeq(db'.issues, 1, Len(db.issues)) = db.issues
       /\ IF phase \in {"idle", "cables"}
          THEN Len(db'.issues) = Len(db.issues) + 1
          ELSE /\ Len(db'.issues) = Len(db.issues) + Len(rows)
               /\ \A i \in 1..Len(rows) :
                    Records(db'.issues[Len(db.issues) + i], rows[i])

\* One write-off more is what a single request may add.
LEMMA OneMore ==
  ASSUME IInv, phase \in {"idle", "cables"}, NEW issue, db'.issues = Append(db.issues, issue),
         IInv'
  PROVE  AllOrNothing
<1>1. db.issues \in Seq(Issue) /\ db'.issues \in Seq(Issue)
  BY DEF IInv, Sound, WellFormed
<1>2. /\ Len(db'.issues) = Len(db.issues) + 1
      /\ \A i \in 1..Len(db.issues) : db'.issues[i] = db.issues[i]
      /\ Len(db.issues) \in Nat
  BY <1>1
<1>3. Len(db.issues) <= Len(db'.issues)
  BY <1>2
<1>4. SubSeq(db'.issues, 1, Len(db.issues)) = db.issues
  BY <1>1, <1>2, <1>3, PrefixStays
<1> QED
  BY <1>2, <1>4 DEF AllOrNothing

\* The history grows by one request or by a whole file.
LEMMA WholeFile == FileInv /\ [Next]_vars => AllOrNothing
<1> SUFFICES ASSUME FileInv, [Next]_vars PROVE AllOrNothing
  OBVIOUS
<1>0. IInv /\ IInv'
  BY StepInvariant DEF FileInv
<1>1. CASE SingleRequest
  BY <1>0, <1>1, SingleRequestRecords, OneMore DEF AllOrNothing
<1>2. CASE CommitFile
  <2>1. Written(db, work, rows, Len(rows)) /\ db' = work /\ phase \notin {"idle", "cables"}
    <3>1. next - 1 = Len(rows)
      BY <1>0, <1>2 DEF CommitFile, IInv, TypeOK
    <3> QED
      BY <1>2, <3>1 DEF CommitFile, Applying, FileInv
  <2>2. db.issues \in Seq(Issue) /\ work.issues \in Seq(Issue) /\ rows \in Seq(IssueRow)
    BY <1>0 DEF IInv, Sound, WellFormed, TypeOK
  <2>3. Len(db.issues) \in Nat /\ Len(rows) \in Nat
    BY <2>2
  <2>4. Len(db.issues) <= Len(work.issues)
    BY <2>1, <2>3 DEF Written
  <2>5. SubSeq(work.issues, 1, Len(db.issues)) = db.issues
    BY <2>1, <2>2, <2>4, PrefixStays DEF Written
  <2> QED
    BY <2>1, <2>5 DEF Written, AllOrNothing
<1>3. CASE CableRow
  <2>1. PICK shares : db' = AddIssue(db, rows[next], shares)
    BY <1>3 DEF CableRow
  <2>2. \E issue : db'.issues = Append(db.issues, issue)
    BY <1>0, <2>1 DEF AddIssue, IInv, Sound, WellFormed
  <2> QED
    BY <1>0, <1>3, <2>2, OneMore DEF CableRow
<1>4. CASE db' = db
  BY <1>4 DEF AllOrNothing
<1> QED
  BY <1>1, <1>2, <1>3, <1>4
  DEF Next, RequestStep, BeginImport, BeginConfirm, BeginCables, Begin, CheckRow,
      CheckDone, ApplyRow, ApplyRefused, CablesEnd, Crash, vars

\* A file of write-offs is in the history whole and in order, or not at all, whatever
\* row is refused and wherever the process dies (insert_many).
THEOREM FileIsWhole == Spec => FileAllOrNothing
<1>1. FileInv /\ [Next]_vars => AllOrNothing
  BY WholeFile
<1> QED
  BY <1>1, FilesSound, PTL DEF Spec, FileAllOrNothing, AllOrNothing

-----------------------------------------------------------------------------
(* S/N. *)

\* Two cards of e that share an S/N are two cards of d that shared it before.
PairsFrom(d, e) ==
  \A a, b \in DOMAIN e.cards :
    a # b /\ e.cards[a].serial # NoSerial /\ e.cards[a].serial = e.cards[b].serial =>
      /\ {a, b} \subseteq DOMAIN d.cards
      /\ d.cards[a].serial = e.cards[a].serial /\ d.cards[b].serial = e.cards[b].serial

\* A card that keeps its S/N, or takes one nobody else has, makes no pair.
LEMMA SetKeepsPairs ==
  ASSUME NEW d, Sound(d), NEW c \in DOMAIN d.cards, NEW card,
         card.serial = d.cards[c].serial \/ WithSerial(d, card.serial) \subseteq {c}
  PROVE  PairsFrom(d, SetCard(d, c, card))
<1> DEFINE e == SetCard(d, c, card)
<1>1. /\ DOMAIN e.cards = DOMAIN d.cards /\ e.cards[c] = card
      /\ \A x \in DOMAIN d.cards \ {c} : e.cards[x] = d.cards[x]
  BY DEF SetCard, Sound, WellFormed
<1> HIDE DEF e
<1>2. ASSUME NEW x \in DOMAIN d.cards \ {c}, card.serial # NoSerial, d.cards[x].serial = card.serial
      PROVE  card.serial = d.cards[c].serial
  BY <1>2 DEF WithSerial
<1> QED
  BY <1>1, <1>2 DEF PairsFrom, e

\* Cards with S/N of their own, or without any, make no pair.
LEMMA AddKeepsPairs ==
  ASSUME NEW d, Sound(d), NEW rs \in Seq(Card),
         \A i \in 1..Len(rs) :
           rs[i].serial = NoSerial
             \/ /\ WithSerial(d, rs[i].serial) = {}
                /\ \A j \in 1..(i - 1) : rs[j].serial # rs[i].serial
  PROVE  PairsFrom(d, AddCards(d, rs))
<1> DEFINE e == AddCards(d, rs)
           new == (d.lastCard + 1)..(d.lastCard + Len(rs))
<1>1. /\ d.lastCard \in Nat /\ DOMAIN d.cards \subseteq 1..d.lastCard /\ Len(rs) \in Nat
  BY BoundsAssumption DEF Sound, WellFormed, BoundsAssumption
<1>2. e.cards = [c \in DOMAIN d.cards \cup new |->
                   IF c > d.lastCard THEN rs[c - d.lastCard] ELSE d.cards[c]]
  BY DEF AddCards, Sound, WellFormed
<1> HIDE DEF e
<1>3. /\ DOMAIN e.cards = DOMAIN d.cards \cup new
      /\ \A c \in DOMAIN d.cards : e.cards[c] = d.cards[c]
      /\ \A c \in new : c - d.lastCard \in 1..Len(rs) /\ e.cards[c] = rs[c - d.lastCard]
  BY <1>1, <1>2
<1>4. ASSUME NEW a \in new, NEW b \in DOMAIN d.cards, e.cards[a].serial # NoSerial
      PROVE  e.cards[a].serial # e.cards[b].serial
  BY <1>3, <1>4 DEF WithSerial
<1>5. ASSUME NEW a \in new, NEW b \in new, a < b, e.cards[a].serial # NoSerial
      PROVE  e.cards[a].serial # e.cards[b].serial
  <2>1. /\ a - d.lastCard \in 1..Len(rs) /\ b - d.lastCard \in 1..Len(rs)
        /\ a - d.lastCard \in 1..((b - d.lastCard) - 1)
        /\ e.cards[a] = rs[a - d.lastCard] /\ e.cards[b] = rs[b - d.lastCard]
    BY <1>1, <1>3, <1>5
  <2> HIDE DEF new
  <2> QED
    BY <1>5, <2>1
<1>6. ASSUME NEW a \in DOMAIN e.cards, NEW b \in DOMAIN e.cards, a # b,
             e.cards[a].serial # NoSerial, e.cards[a].serial = e.cards[b].serial
      PROVE  a \in DOMAIN d.cards /\ b \in DOMAIN d.cards
  <2>1. CASE a \in new /\ b \in new
    <3>1. a < b \/ b < a
      BY <1>1, <1>6, <2>1
    <3> QED
      BY <1>5, <1>6, <2>1, <3>1
  <2>2. CASE a \in new /\ b \in DOMAIN d.cards
    BY <1>4, <1>6, <2>2
  <2>3. CASE a \in DOMAIN d.cards /\ b \in new
    BY <1>4, <1>6, <2>3
  <2> QED
    BY <1>3, <2>1, <2>2, <2>3
<1>7. PairsFrom(d, e)
  BY <1>3, <1>6 DEF PairsFrom
<1> QED
  BY <1>7 DEF e

\* Write-offs leave the cards alone.
LEMMA SameCards ==
  ASSUME NEW d, NEW e, e.cards = d.cards
  PROVE  PairsFrom(d, e)
BY DEF PairsFrom

\* A card that goes makes no pair.
LEMMA FewerCards ==
  ASSUME NEW d, Sound(d), NEW c
  PROVE  PairsFrom(d, DeleteCard(d, c))
<1>1. DeleteCard(d, c).cards = [x \in DOMAIN d.cards \ {c} |-> d.cards[x]]
  BY DEF DeleteCard, Sound, WellFormed
<1> QED
  BY <1>1 DEF PairsFrom

\* Each request of one step.
LEMMA SingleRequestPairs ==
  ASSUME IInv, SingleRequest
  PROVE  PairsFrom(db, db')
<1>1. Sound(db)
  BY DEF IInv
<1>2. ASSUME NEW c \in DOMAIN db.cards PROVE db.cards[c] \in Card
  BY <1>1 DEF Sound, WellFormed
<1>3. ASSUME NEW card \in Arrivals, CreateReceipt(card)
      PROVE  PairsFrom(db, db')
  <2>1. card \in Card /\ WithSerial(db, card.serial) = {} /\ db' = AddCard(db, card)
    BY <1>3, InputsAssumption DEF InputsAssumption, CreateReceipt, CanReceive, Commits
  <2>2. /\ db.lastCard \in Nat /\ DOMAIN db.cards \subseteq 1..db.lastCard
    BY <1>1, BoundsAssumption DEF Sound, WellFormed, BoundsAssumption
  <2>3. db'.cards = [c \in DOMAIN db.cards \cup {db.lastCard + 1} |->
                       IF c = db.lastCard + 1 THEN card ELSE db.cards[c]]
    BY <1>1, <2>1 DEF AddCard, Sound, WellFormed
  <2>4. db.lastCard + 1 \notin DOMAIN db.cards
    BY <2>2
  <2>5. \A c \in DOMAIN db.cards : card.serial # NoSerial => db.cards[c].serial # card.serial
    BY <2>1 DEF WithSerial
  <2> QED
    BY <2>3, <2>4, <2>5 DEF PairsFrom
<1>4. ASSUME NEW cards \in UpToTwo(Arrivals), CreateReceiptBatch(cards)
      PROVE  PairsFrom(db, db')
  <2>1. Arrivals \subseteq Card
    BY InputsAssumption DEF InputsAssumption
  <2>2. cards \in Seq(Card)
    BY <2>1, UpToTwoType
  <2>3. ASSUME NEW i \in 1..Len(cards), cards[i].serial # NoSerial
        PROVE  /\ WithSerial(db, cards[i].serial) = {}
               /\ \A j \in 1..(i - 1) : cards[j].serial # cards[i].serial
    BY <1>4, <2>3 DEF CreateReceiptBatch, CanReceiveAll
  <2>4. PairsFrom(db, AddCards(db, cards))
    BY <1>1, <2>2, <2>3, AddKeepsPairs
  <2> QED
    BY <1>4, <2>4 DEF CreateReceiptBatch, Commits
<1>5. ASSUME NEW cards \in UpToTwo(CableArrivals), CreateCableReceiptBatch(cards)
      PROVE  PairsFrom(db, db')
  <2>1. CableArrivals \subseteq Card /\ \A c \in CableArrivals : c.serial = NoSerial
    BY InputsAssumption DEF InputsAssumption
  <2>2. cards \in Seq(Card)
    BY <2>1, UpToTwoType
  <2>3. \A i \in 1..Len(cards) : cards[i].serial = NoSerial
    <3>1. CASE cards \in {<<a>> : a \in CableArrivals}
      BY <2>1, <3>1
    <3>2. CASE cards \in CableArrivals \X CableArrivals
      <4>1. PICK a \in CableArrivals, b \in CableArrivals : cards = <<a, b>>
        BY <3>2
      <4> QED
        BY <2>1, <4>1
    <3> QED
      BY <3>1, <3>2 DEF UpToTwo
  <2>4. PairsFrom(db, AddCards(db, cards))
    BY <1>1, <2>2, <2>3, AddKeepsPairs
  <2> QED
    BY <1>5, <2>4 DEF CreateCableReceiptBatch, Commits
<1>6. ASSUME NEW c \in CardIds, NEW date \in Dates \ {NoDate}, FillReceiptDate(c, date)
      PROVE  PairsFrom(db, db')
  <2>1. c \in DOMAIN db.cards /\ db' = SetCard(db, c, [db.cards[c] EXCEPT !.date = date])
    BY <1>6 DEF FillReceiptDate, CanFillDate, FillDate, Commits
  <2>2. [db.cards[c] EXCEPT !.date = date].serial = db.cards[c].serial
    BY <1>2, <2>1 DEF Card
  <2> QED
    BY <1>1, <2>1, <2>2, SetKeepsPairs
<1>7. ASSUME NEW c \in CardIds, NEW place \in Places, FillReceiptFields(c, place)
      PROVE  PairsFrom(db, db')
  <2>1. c \in DOMAIN db.cards /\ db' = SetCard(db, c, [db.cards[c] EXCEPT !.place = place])
    BY <1>7 DEF FillReceiptFields, CanFillPlace, FillPlace, Commits
  <2>2. [db.cards[c] EXCEPT !.place = place].serial = db.cards[c].serial
    BY <1>2, <2>1 DEF Card
  <2> QED
    BY <1>1, <2>1, <2>2, SetKeepsPairs
<1>8. ASSUME NEW c \in CardIds, NEW s \in Serials, CorrectDuplicateSerial(c, s)
      PROVE  PairsFrom(db, db')
  <2>1. /\ c \in DOMAIN db.cards /\ WithSerial(db, s) \subseteq {c}
        /\ db' = SetCard(db, c, [db.cards[c] EXCEPT !.serial = s])
    BY <1>8 DEF CorrectDuplicateSerial, CanCorrectSerial, CorrectSerial, Commits
  <2>2. [db.cards[c] EXCEPT !.serial = s].serial = s
    BY <1>2, <2>1 DEF Card
  <2> QED
    BY <1>1, <2>1, <2>2, SetKeepsPairs
<1>9. ASSUME NEW s \in Serials, NEW edit \in Edits, UpdatePositionCard(s, edit)
      PROVE  PairsFrom(db, db')
  <2> DEFINE c == CHOOSE x \in WithSerial(db, s) : \A y \in WithSerial(db, s) : x <= y
             card == [db.cards[c] EXCEPT !.kind = edit.kind, !.item = edit.item,
                                         !.place = edit.place]
  <2>1. c \in DOMAIN db.cards
    BY <1>1, <1>9, OneOfASerial DEF UpdatePositionCard
  <2>2. card.serial = db.cards[c].serial
    BY <1>2, <2>1 DEF Card
  <2>3. db' = SetCard(db, c, card)
    BY <1>9 DEF UpdatePositionCard, UpdateCard, Commits
  <2> HIDE DEF card, c
  <2> QED
    BY <1>1, <2>1, <2>2, <2>3, SetKeepsPairs
<1>10. ASSUME NEW c \in CardIds, DeleteDuplicateReceipt(c)
      PROVE  PairsFrom(db, db')
  BY <1>1, <1>10, FewerCards DEF DeleteDuplicateReceipt, Commits
<1>11. (\E row \in SingleRows : CreateIssue(row)) \/ (\E row \in CableRows : CreateCableIssue(row))
         => PairsFrom(db, db')
  <2>1. ASSUME NEW row, NEW shares PROVE PairsFrom(db, AddIssue(db, row, shares))
    <3>1. AddIssue(db, row, shares).cards = db.cards
      BY <1>1 DEF AddIssue, Sound, WellFormed
    <3> QED
      BY <3>1, SameCards
  <2> QED
    BY <2>1 DEF CreateIssue, CreateCableIssue, Commits
<1> QED
  BY <1>3, <1>4, <1>5, <1>6, <1>7, <1>8, <1>9, <1>10, <1>11 DEF SingleRequest

\* Each step.
LEMMA PairsStep == IInv /\ [Next]_vars => PairsFrom(db, db')
<1> SUFFICES ASSUME IInv, [Next]_vars PROVE PairsFrom(db, db')
  OBVIOUS
<1>1. CASE SingleRequest
  BY <1>1, SingleRequestPairs
<1>2. CASE CommitFile
  BY <1>2, SameCards DEF CommitFile, IInv, OnlyTakes
<1>3. CASE CableRow
  BY <1>3, CableRowInvariant, SameCards DEF OnlyTakes
<1>4. CASE db' = db
  BY <1>4, SameCards
<1> QED
  BY <1>1, <1>2, <1>3, <1>4
  DEF Next, RequestStep, BeginImport, BeginConfirm, BeginCables, Begin, CheckRow,
      CheckDone, ApplyRow, ApplyRefused, CablesEnd, Crash, vars

\* No operation lets two cards come to share an S/N, with or without a unique index
\* (insert_one, validate_unique, correct_duplicate_serial).
THEOREM NoTwinsCome == Spec => NoNewTwins
<1>1. IInv /\ [Next]_vars => Twins(db') \subseteq Twins(db)
  <2>1. SUFFICES ASSUME IInv, [Next]_vars, NEW p \in Twins(db') PROVE p \in Twins(db)
    OBVIOUS
  <2>2. PairsFrom(db, db')
    BY <2>1, PairsStep
  <2>3. /\ p \in (DOMAIN db'.cards) \X (DOMAIN db'.cards) /\ p[1] < p[2]
        /\ db'.cards[p[1]].serial # NoSerial
        /\ db'.cards[p[1]].serial = db'.cards[p[2]].serial
    BY DEF Twins
  <2>4. /\ p[1] \in DOMAIN db'.cards /\ p[2] \in DOMAIN db'.cards /\ p = <<p[1], p[2]>>
    BY <2>3
  <2>5. DOMAIN db'.cards \subseteq Nat
    <3>1. IInv'
      BY <2>1, StepInvariant
    <3> QED
      BY <3>1 DEF IInv, Sound, WellFormed
  <2>6. p[1] # p[2]
    BY <2>3, <2>4, <2>5
  <2>7. /\ {p[1], p[2]} \subseteq DOMAIN db.cards
        /\ db.cards[p[1]].serial = db'.cards[p[1]].serial
        /\ db.cards[p[2]].serial = db'.cards[p[2]].serial
    BY <2>2, <2>3, <2>4, <2>6 DEF PairsFrom
  <2>8. p \in (DOMAIN db.cards) \X (DOMAIN db.cards)
    BY <2>4, <2>7
  <2> QED
    BY <2>3, <2>7, <2>8 DEF Twins
<1> QED
  BY <1>1, Invariance, PTL DEF Spec, NoNewTwins

-----------------------------------------------------------------------------
(* Accounts. *)

\* A cable has a name, and its S/N, if it has one, is nobody else's.
CablesApart(d) ==
  \A c \in DOMAIN d.cards :
    d.cards[c].kind = "cable" =>
      /\ d.cards[c].item # NoItem
      /\ \A x \in DOMAIN d.cards \ {c} :
           d.cards[c].serial # NoSerial => d.cards[x].serial # d.cards[c].serial

\* The accounts of the committed tables and of the open transaction are balanced,
\* and cables are told apart from the rest.
AccountsInv ==
  /\ IInv
  /\ BalancedIn(db) /\ BalancedIn(work)
  /\ CablesApart(db)

\* One table of write-offs and one aggregate are all BalancedIn looks at.
LEMMA SameIssuesBalanced ==
  ASSUME NEW d, NEW e, BalancedIn(d), e.issues = d.issues, e.taken = d.taken
  PROVE  BalancedIn(e)
BY DEF BalancedIn, Allocated

\* A write-off is added to the aggregate with its allocation rows.
LEMMA AppendBalanced ==
  ASSUME NEW d, Sound(d), BalancedIn(d), NEW e, NEW issue \in Issue,
         e.issues = Append(d.issues, issue),
         e.taken = [c \in CardIds |-> d.taken[c] + issue.parts[c]],
         Total(issue.parts) = IF issue.status = "matched" THEN issue.quantity ELSE 0
  PROVE  BalancedIn(e)
<1> DEFINE n == Len(d.issues)
<1>1. /\ n \in Nat /\ DOMAIN d.issues = 1..n /\ DOMAIN e.issues = 1..(n + 1)
      /\ \A i \in 1..n : e.issues[i] = d.issues[i]
      /\ e.issues[n + 1] = issue
      /\ \A i \in 1..(n + 1) : e.issues[i] \in Issue
  BY DEF Sound, WellFormed
<1>2. ASSUME NEW c \in CardIds PROVE e.taken[c] = Allocated(e, c)
  <2> DEFINE f == [i \in 1..(n + 1) |-> e.issues[i].parts[c]]
  <2>1. f \in [1..(n + 1) -> Int]
    BY <1>1 DEF Issue
  <2>2. IsFiniteSet(1..(n + 1)) /\ 1..(n + 1) \in SUBSET (1..(n + 1)) /\ n + 1 \in 1..(n + 1)
    BY <1>1, FS_Interval
  <2>3. Total(On(f, 1..(n + 1))) = f[n + 1] + Total(On(f, (1..(n + 1)) \ {n + 1}))
    <3> DEFINE D == 1..(n + 1)
               last == n + 1
    <3>1. f \in [D -> Int] /\ IsFiniteSet(D) /\ D \in SUBSET D /\ last \in D
      BY <2>1, <2>2
    <3> HIDE DEF f, D, last
    <3>2. Total(On(f, D)) = f[last] + Total(On(f, D \ {last}))
      BY <3>1, TotalPick
    <3> QED
      BY <3>2 DEF D, last
  <2>4. (1..(n + 1)) \ {n + 1} = 1..n
    BY <1>1
  <2>5. On(f, 1..n) = [i \in 1..n |-> d.issues[i].parts[c]]
    BY <1>1 DEF On
  <2>6. On(f, 1..(n + 1)) = f
    BY DEF On
  <2>7. Total(f) = Allocated(e, c)
    BY <1>1 DEF Allocated
  <2>8. Total(On(f, 1..n)) = d.taken[c]
    BY <1>1, <2>5 DEF Allocated, BalancedIn
  <2>9. f[n + 1] = issue.parts[c] /\ issue.parts[c] \in Int /\ d.taken[c] \in Int
    BY <1>1 DEF Issue, Sound, WellFormed
  <2> HIDE DEF f, n
  <2>10. Allocated(e, c) = issue.parts[c] + d.taken[c]
    BY <2>3, <2>4, <2>6, <2>7, <2>8, <2>9
  <2> QED
    BY <2>9, <2>10
<1>3. ASSUME NEW i \in DOMAIN e.issues
      PROVE  Total(e.issues[i].parts) =
               IF e.issues[i].status = "matched" THEN e.issues[i].quantity ELSE 0
  <2>1. CASE i \in 1..n
    BY <1>1, <2>1 DEF BalancedIn
  <2>2. CASE i = n + 1
    BY <1>1, <2>2
  <2> QED
    BY <1>1, <2>1, <2>2
<1> QED
  BY <1>2, <1>3 DEF BalancedIn

\* The allocation rows of one FIFO loop make up the quantity of the row.
LEMMA AddIssueBalanced ==
  ASSUME NEW d, Sound(d), BalancedIn(d), NEW row \in IssueRow,
         NEW lots \in SUBSET DOMAIN d.cards, NEW f \in FifoShares(d, lots, row.quantity)
  PROVE  BalancedIn(AddIssue(d, row, f))
<1> DEFINE issue == IssueOf(row, "matched", PartsOf(f))
           e == AddIssue(d, row, f)
<1>1. row.quantity \in Nat
  BY DEF IssueRow, Quantities
<1>2. PartsOf(f) \in [CardIds -> Nat]
  BY <1>1, SharesWithinLots
<1>3. /\ issue \in Issue /\ issue.parts = PartsOf(f)
      /\ issue.status = "matched" /\ issue.quantity = row.quantity
  BY <1>2 DEF IssueOf, Issue, IssueRow, IssueStatuses
<1>4. /\ e.issues = Append(d.issues, issue)
      /\ e.taken = [c \in CardIds |-> d.taken[c] + PartsOf(f)[c]]
  BY DEF AddIssue, Sound, WellFormed
<1>5. Total(PartsOf(f)) = row.quantity
  <2>1. f \in [lots -> 0..row.quantity] /\ Total(f) = row.quantity
    BY DEF FifoShares
  <2>2. lots \in SUBSET CardIds
    BY BoundsAssumption DEF BoundsAssumption, Sound, WellFormed, CardIds
  <2>3. IsFiniteSet(CardIds)
    BY BoundsAssumption, FS_Interval DEF BoundsAssumption, CardIds
  <2>4. PartsOf(f) \in [CardIds -> Int]
    BY <1>2
  <2>5. \A c \in CardIds \ lots : PartsOf(f)[c] = 0
    BY <2>1 DEF PartsOf
  <2>6. [c \in lots |-> PartsOf(f)[c]] = f
    <3>1. f = [c \in lots |-> f[c]]
      BY <2>1
    <3>2. \A c \in lots : PartsOf(f)[c] = f[c]
      BY <2>1, <2>2 DEF PartsOf
    <3> QED
      BY <3>1, <3>2
  <2>7. Total(PartsOf(f)) = Total([c \in lots |-> PartsOf(f)[c]])
    BY <2>2, <2>3, <2>4, <2>5, TotalWithin
  <2> QED
    BY <2>1, <2>6, <2>7
<1>6. BalancedIn(e)
  <2> HIDE DEF e, issue
  <2> QED
    BY <1>3, <1>4, <1>5, AppendBalanced
<1> QED
  BY <1>6

\* A problem row is covered by no allocation.
LEMMA AddUnmatchedBalanced ==
  ASSUME NEW d, Sound(d), BalancedIn(d), NEW row \in IssueRow
  PROVE  BalancedIn(AddUnmatchedIssue(d, row))
<1> DEFINE none == [c \in CardIds |-> 0]
           issue == IssueOf(row, "unmatched", none)
           e == AddUnmatchedIssue(d, row)
<1>1. issue \in Issue /\ issue.parts = none /\ issue.status = "unmatched"
  BY DEF IssueOf, Issue, IssueRow, IssueStatuses
<1>2. e.issues = Append(d.issues, issue) /\ e.taken = d.taken
  BY DEF AddUnmatchedIssue, Sound, WellFormed
<1>3. e.taken = [c \in CardIds |-> d.taken[c] + none[c]]
  BY <1>2 DEF Sound, WellFormed
<1>4. Total(none) = 0
  <2>1. IsFiniteSet(CardIds)
    BY BoundsAssumption, FS_Interval DEF BoundsAssumption, CardIds
  <2>2. DOMAIN none = CardIds /\ none = [c \in CardIds |-> none[c]] /\ \A c \in CardIds : none[c] = 0
    OBVIOUS
  <2> HIDE DEF none
  <2> QED
    BY <2>1, <2>2, TotalOfNoughts
<1>5. BalancedIn(e)
  <2> HIDE DEF e, issue, none
  <2> QED
    BY <1>1, <1>2, <1>3, <1>4, AppendBalanced
<1> QED
  BY <1>5

\* The program starts with balanced accounts.
LEMMA InitAccounts == Init => AccountsInv
<1> SUFFICES ASSUME Init PROVE AccountsInv
  OBVIOUS
<1>1. IInv
  BY InitInvariant
<1>2. PICK t \in OpeningTables : db = Opening(t)
  BY DEF Init
<1>3. db.cards = t /\ db.issues = <<>> /\ db.taken = [c \in CardIds |-> 0] /\ work = db
  BY <1>2 DEF Opening, Init
<1>4. DOMAIN db.issues = {}
  BY <1>3
<1>5. \A c \in CardIds : Allocated(db, c) = 0
  BY <1>4, TotalOfNone DEF Allocated
<1>6. BalancedIn(db)
  BY <1>3, <1>4, <1>5 DEF BalancedIn
<1>7. CablesApart(db)
  BY <1>3, CablesAssumption DEF CablesAssumption, CablesApart
<1> QED
  BY <1>1, <1>3, <1>6, <1>7 DEF AccountsInv

\* A row that is written, as a write-off or as a problem row, is accounted for.
LEMMA RowBalances ==
  ASSUME Sound(work), BalancedIn(work), NEW row \in IssueRow, Matches(row) \/ KeepsAsProblem(row)
  PROVE  BalancedIn(work')
<1>1. CASE Matches(row)
  <2>1. PICK shares \in FifoShares(work, AvailableBySerial(work, row.serial), row.quantity) :
          work' = AddIssue(work, row, shares)
    BY <1>1 DEF Matches
  <2>2. AvailableBySerial(work, row.serial) \in SUBSET DOMAIN work.cards
    BY DEF AvailableBySerial, WithSerial
  <2>3. BalancedIn(AddIssue(work, row, shares))
    BY <2>2, AddIssueBalanced
  <2> QED
    BY <2>1, <2>3
<1>2. CASE KeepsAsProblem(row)
  BY <1>2, AddUnmatchedBalanced DEF KeepsAsProblem
<1> QED
  BY <1>1, <1>2

\* A request of one step.
LEMMA SingleRequestBalances ==
  ASSUME IInv, BalancedIn(db), SingleRequest
  PROVE  BalancedIn(db') /\ work' = db'
<1> USE DEF Commits
<1>1. Sound(db)
  BY DEF IInv
<1>3. ASSUME NEW cards, db' = AddCards(db, cards) PROVE BalancedIn(db')
  <2>1. db'.issues = db.issues /\ db'.taken = db.taken
    BY <1>1, <1>3 DEF AddCards, Sound, WellFormed
  <2> QED
    BY <2>1, SameIssuesBalanced
<1>4. ASSUME NEW card, db' = AddCard(db, card) PROVE BalancedIn(db')
  <2>1. db'.issues = db.issues /\ db'.taken = db.taken
    BY <1>1, <1>4 DEF AddCard, Sound, WellFormed
  <2> QED
    BY <2>1, SameIssuesBalanced
<1>5. ASSUME NEW c, NEW card, db' = SetCard(db, c, card) PROVE BalancedIn(db')
  <2>1. db'.issues = db.issues /\ db'.taken = db.taken
    BY <1>1, <1>5 DEF SetCard, Sound, WellFormed
  <2> QED
    BY <2>1, SameIssuesBalanced
<1>6. ASSUME NEW c, db' = DeleteCard(db, c) PROVE BalancedIn(db')
  <2>1. db'.issues = db.issues /\ db'.taken = db.taken
    BY <1>1, <1>6 DEF DeleteCard, Sound, WellFormed
  <2> QED
    BY <2>1, SameIssuesBalanced
<1>7. ASSUME NEW row \in SingleRows, CreateIssue(row) PROVE BalancedIn(db')
  <2>1. row \in IssueRow
    BY InputsAssumption DEF InputsAssumption
  <2>2. AvailableBySerial(db, row.serial) \in SUBSET DOMAIN db.cards
    BY DEF AvailableBySerial, WithSerial
  <2>3. PICK shares \in FifoShares(db, AvailableBySerial(db, row.serial), row.quantity) :
          db' = AddIssue(db, row, shares)
    BY <1>7 DEF CreateIssue
  <2>4. BalancedIn(AddIssue(db, row, shares))
    BY <1>1, <2>1, <2>2, AddIssueBalanced
  <2> QED
    BY <2>3, <2>4
<1>8. ASSUME NEW row \in CableRows, CreateCableIssue(row) PROVE BalancedIn(db')
  <2>1. row \in IssueRow
    BY InputsAssumption DEF InputsAssumption
  <2>2. AvailableCableLots(db, row) \in SUBSET DOMAIN db.cards
    BY DEF AvailableCableLots
  <2>3. PICK shares \in FifoShares(db, AvailableCableLots(db, row), row.quantity) :
          db' = AddIssue(db, row, shares)
    BY <1>8 DEF CreateCableIssue
  <2>4. BalancedIn(AddIssue(db, row, shares))
    BY <1>1, <2>1, <2>2, AddIssueBalanced
  <2> QED
    BY <2>3, <2>4
<1>9. work' = db'
  BY DEF SingleRequest, CreateReceipt, CreateReceiptBatch, CreateCableReceiptBatch,
         FillReceiptDate, FillReceiptFields, UpdatePositionCard, CorrectDuplicateSerial,
         DeleteDuplicateReceipt, CreateIssue, CreateCableIssue
<1>10. \/ \E card : db' = AddCard(db, card)
       \/ \E cards : db' = AddCards(db, cards)
       \/ \E c, card : db' = SetCard(db, c, card)
       \/ \E c : db' = DeleteCard(db, c)
       \/ \E row \in SingleRows : CreateIssue(row)
       \/ \E row \in CableRows : CreateCableIssue(row)
  <2>1. CASE \/ \E card \in Arrivals : CreateReceipt(card)
             \/ \E cards \in UpToTwo(Arrivals) : CreateReceiptBatch(cards)
             \/ \E cards \in UpToTwo(CableArrivals) : CreateCableReceiptBatch(cards)
    BY <2>1, Zenon DEF CreateReceipt, CreateReceiptBatch, CreateCableReceiptBatch
  <2>2. CASE \/ \E c \in CardIds, date \in Dates \ {NoDate} : FillReceiptDate(c, date)
             \/ \E c \in CardIds, place \in Places : FillReceiptFields(c, place)
             \/ \E s \in Serials, edit \in Edits : UpdatePositionCard(s, edit)
             \/ \E c \in CardIds, s \in Serials : CorrectDuplicateSerial(c, s)
    BY <2>2, Zenon DEF FillReceiptDate, FillReceiptFields, UpdatePositionCard, CorrectDuplicateSerial,
                FillDate, FillPlace, UpdateCard, CorrectSerial
  <2>3. CASE \/ \E c \in CardIds : DeleteDuplicateReceipt(c)
             \/ \E row \in SingleRows : CreateIssue(row)
             \/ \E row \in CableRows : CreateCableIssue(row)
    BY <2>3, Zenon DEF DeleteDuplicateReceipt
  <2> QED
    BY <2>1, <2>2, <2>3, Zenon DEF SingleRequest
<1> QED
  BY <1>3, <1>4, <1>5, <1>6, <1>7, <1>8, <1>9, <1>10

-----------------------------------------------------------------------------
(* Cables. *)

\* Every cable of e has a name, and was a cable of d, or is new there, or its S/N was
\* its own in d, or it has none.
CablesFrom(d, e) ==
  \A c \in DOMAIN e.cards :
    e.cards[c].kind = "cable" =>
      /\ e.cards[c].item # NoItem
      /\ \/ c \notin DOMAIN d.cards
         \/ d.cards[c].kind = "cable"
         \/ \A x \in DOMAIN d.cards \ {c} : d.cards[x].serial # d.cards[c].serial

\* Cables stay apart when a card changes nothing of what keeps them so.
LEMMA CablesStayApart ==
  ASSUME NEW d, CablesApart(d), NEW e, PairsFrom(d, e), CablesFrom(d, e)
  PROVE  CablesApart(e)
<1>1. SUFFICES ASSUME NEW c \in DOMAIN e.cards, e.cards[c].kind = "cable",
                      NEW x \in DOMAIN e.cards \ {c},
                      e.cards[c].serial # NoSerial, e.cards[x].serial = e.cards[c].serial
               PROVE  FALSE
  BY DEF CablesApart, CablesFrom
<1>2. /\ c \in DOMAIN d.cards /\ x \in DOMAIN d.cards \ {c}
      /\ d.cards[c].serial = e.cards[c].serial /\ d.cards[x].serial = e.cards[x].serial
  BY <1>1 DEF PairsFrom
<1>3. CASE d.cards[c].kind = "cable"
  BY <1>1, <1>2, <1>3 DEF CablesApart
<1>4. CASE d.cards[c].kind # "cable"
  BY <1>1, <1>2, <1>4 DEF CablesFrom
<1> QED
  BY <1>3, <1>4

\* Write-offs change no card.
LEMMA SameCardsCables ==
  ASSUME NEW d, NEW e, CablesApart(d), e.cards = d.cards
  PROVE  CablesFrom(d, e)
BY DEF CablesApart, CablesFrom

\* A card that stays of its type and item, or had its S/N for itself.
LEMMA SetCardCables ==
  ASSUME NEW d, Sound(d), CablesApart(d), NEW c \in DOMAIN d.cards, NEW card,
         card.kind = "cable" =>
           \/ d.cards[c].kind = "cable" /\ card.item = d.cards[c].item
           \/ /\ card.item # NoItem
              /\ \A x \in DOMAIN d.cards \ {c} : d.cards[x].serial # d.cards[c].serial
  PROVE  CablesFrom(d, SetCard(d, c, card))
<1> DEFINE e == SetCard(d, c, card)
<1>1. /\ DOMAIN e.cards = DOMAIN d.cards /\ e.cards[c] = card
      /\ \A x \in DOMAIN d.cards \ {c} : e.cards[x] = d.cards[x]
  BY DEF SetCard, Sound, WellFormed
<1> HIDE DEF e
<1>2. CablesFrom(d, e)
  BY <1>1 DEF CablesFrom, CablesApart
<1> QED
  BY <1>2 DEF e

\* Receipts of cards and of cables.
LEMMA AddCardsCables ==
  ASSUME NEW d, Sound(d), CablesApart(d), NEW rs \in Seq(Card),
         \A i \in 1..Len(rs) : rs[i].kind = "cable" => rs[i].item # NoItem
  PROVE  CablesFrom(d, AddCards(d, rs))
<1> DEFINE e == AddCards(d, rs)
           new == (d.lastCard + 1)..(d.lastCard + Len(rs))
<1>1. /\ d.lastCard \in Nat /\ DOMAIN d.cards \subseteq 1..d.lastCard /\ Len(rs) \in Nat
  BY BoundsAssumption DEF Sound, WellFormed, BoundsAssumption
<1>2. e.cards = [c \in DOMAIN d.cards \cup new |->
                   IF c > d.lastCard THEN rs[c - d.lastCard] ELSE d.cards[c]]
  BY DEF AddCards, Sound, WellFormed
<1> HIDE DEF e
<1>3. /\ DOMAIN e.cards = DOMAIN d.cards \cup new
      /\ \A c \in DOMAIN d.cards : e.cards[c] = d.cards[c]
      /\ \A c \in new : c - d.lastCard \in 1..Len(rs) /\ e.cards[c] = rs[c - d.lastCard]
      /\ \A c \in new : c \notin DOMAIN d.cards
  BY <1>1, <1>2
<1> HIDE DEF new
<1>4. CablesFrom(d, e)
  BY <1>3 DEF CablesFrom, CablesApart
<1> QED
  BY <1>4 DEF e

\* The members of one or two of S.
LEMMA OfUpToTwo ==
  ASSUME NEW S, NEW rs \in UpToTwo(S)
  PROVE  \A i \in 1..Len(rs) : rs[i] \in S
<1>1. CASE rs \in {<<a>> : a \in S}
  BY <1>1
<1>2. CASE rs \in S \X S
  <2>1. PICK a \in S, b \in S : rs = <<a, b>>
    BY <1>2
  <2> QED
    BY <2>1
<1> QED
  BY <1>1, <1>2 DEF UpToTwo

\* A request of one step.
LEMMA SingleRequestCables ==
  ASSUME IInv, CablesApart(db), SingleRequest
  PROVE  CablesFrom(db, db')
<1>1. Sound(db)
  BY DEF IInv
<1>2. ASSUME NEW c \in DOMAIN db.cards PROVE db.cards[c] \in Card
  BY <1>1 DEF Sound, WellFormed
<1>3. ASSUME NEW card \in Arrivals, CreateReceipt(card)
      PROVE  CablesFrom(db, db')
  <2>1. card.kind # "cable" /\ db' = AddCard(db, card)
    BY <1>3, InputsAssumption DEF InputsAssumption, CreateReceipt, Commits
  <2>2. db'.cards = [c \in DOMAIN db.cards \cup {db.lastCard + 1} |->
                       IF c = db.lastCard + 1 THEN card ELSE db.cards[c]]
    BY <1>1, <2>1 DEF AddCard, Sound, WellFormed
  <2> QED
    BY <2>1, <2>2 DEF CablesFrom, CablesApart
<1>4. ASSUME NEW cards \in UpToTwo(Arrivals), CreateReceiptBatch(cards)
      PROVE  CablesFrom(db, db')
  <2>1. Arrivals \subseteq Card /\ \A c \in Arrivals : c.kind # "cable"
    BY InputsAssumption DEF InputsAssumption
  <2>2. cards \in Seq(Card)
    BY <2>1, UpToTwoType
  <2>3. \A i \in 1..Len(cards) : cards[i].kind = "cable" => cards[i].item # NoItem
    BY <2>1, OfUpToTwo
  <2>4. CablesFrom(db, AddCards(db, cards))
    BY <1>1, <2>2, <2>3, AddCardsCables
  <2> QED
    BY <1>4, <2>4 DEF CreateReceiptBatch, Commits
<1>5. ASSUME NEW cards \in UpToTwo(CableArrivals), CreateCableReceiptBatch(cards)
      PROVE  CablesFrom(db, db')
  <2>1. CableArrivals \subseteq Card /\ \A c \in CableArrivals : c.item # NoItem
    BY InputsAssumption DEF InputsAssumption
  <2>2. cards \in Seq(Card)
    BY <2>1, UpToTwoType
  <2>3. \A i \in 1..Len(cards) : cards[i].kind = "cable" => cards[i].item # NoItem
    BY <2>1, OfUpToTwo
  <2>4. CablesFrom(db, AddCards(db, cards))
    BY <1>1, <2>2, <2>3, AddCardsCables
  <2> QED
    BY <1>5, <2>4 DEF CreateCableReceiptBatch, Commits
<1>6. ASSUME NEW c \in CardIds, NEW date \in Dates \ {NoDate}, FillReceiptDate(c, date)
      PROVE  CablesFrom(db, db')
  <2> DEFINE card == [db.cards[c] EXCEPT !.date = date]
  <2>1. c \in DOMAIN db.cards /\ db' = SetCard(db, c, card)
    BY <1>6 DEF FillReceiptDate, CanFillDate, FillDate, Commits
  <2>2. card.kind = db.cards[c].kind /\ card.item = db.cards[c].item
    BY <1>2, <2>1 DEF Card
  <2> HIDE DEF card
  <2> QED
    BY <1>1, <2>1, <2>2, SetCardCables
<1>7. ASSUME NEW c \in CardIds, NEW place \in Places, FillReceiptFields(c, place)
      PROVE  CablesFrom(db, db')
  <2> DEFINE card == [db.cards[c] EXCEPT !.place = place]
  <2>1. c \in DOMAIN db.cards /\ db' = SetCard(db, c, card)
    BY <1>7 DEF FillReceiptFields, CanFillPlace, FillPlace, Commits
  <2>2. card.kind = db.cards[c].kind /\ card.item = db.cards[c].item
    BY <1>2, <2>1 DEF Card
  <2> HIDE DEF card
  <2> QED
    BY <1>1, <2>1, <2>2, SetCardCables
<1>8. ASSUME NEW c \in CardIds, NEW s \in Serials, CorrectDuplicateSerial(c, s)
      PROVE  CablesFrom(db, db')
  <2> DEFINE card == [db.cards[c] EXCEPT !.serial = s]
  <2>1. c \in DOMAIN db.cards /\ db' = SetCard(db, c, card)
    BY <1>8 DEF CorrectDuplicateSerial, CanCorrectSerial, CorrectSerial, Commits
  <2>2. card.kind = db.cards[c].kind /\ card.item = db.cards[c].item
    BY <1>2, <2>1 DEF Card
  <2> HIDE DEF card
  <2> QED
    BY <1>1, <2>1, <2>2, SetCardCables
<1>9. ASSUME NEW s \in Serials, NEW edit \in Edits, UpdatePositionCard(s, edit)
      PROVE  CablesFrom(db, db')
  <2> DEFINE c == CHOOSE x \in WithSerial(db, s) : \A y \in WithSerial(db, s) : x <= y
             card == [db.cards[c] EXCEPT !.kind = edit.kind, !.item = edit.item,
                                         !.place = edit.place]
  <2>1. c \in DOMAIN db.cards
    BY <1>1, <1>9, OneOfASerial DEF UpdatePositionCard
  <2>2. db' = SetCard(db, c, card)
    BY <1>9 DEF UpdatePositionCard, UpdateCard, Commits
  <2>3. card.kind = edit.kind /\ card.item = edit.item
    BY <1>2, <2>1 DEF Card
  <2>4. edit.kind = "cable" => edit.item # NoItem
    BY InputsAssumption DEF InputsAssumption, Edit
  <2>5. \A x \in DOMAIN db.cards \ {c} : db.cards[x].serial # db.cards[c].serial
    <3>1. PICK y : WithSerial(db, s) = {y}
      <4>1. IsFiniteSet(WithSerial(db, s))
        <5>1. db.lastCard \in Nat /\ DOMAIN db.cards \subseteq 1..db.lastCard
          BY <1>1, BoundsAssumption DEF Sound, WellFormed, BoundsAssumption
        <5>2. IsFiniteSet(1..db.lastCard)
          BY <5>1, FS_Interval
        <5> QED
          BY <5>1, <5>2, FS_Subset DEF WithSerial
      <4> QED
        BY <1>9, <4>1, FS_Singleton DEF UpdatePositionCard, CanUpdate
    <3>2. y \in DOMAIN db.cards /\ s # NoSerial /\ db.cards[y].serial = s
      BY <3>1 DEF WithSerial
    <3>3. y <= y
      BY <1>1, <3>2 DEF Sound, WellFormed
    <3>4. c = y
      BY <3>1, <3>3
    <3> HIDE DEF c
    <3> QED
      BY <3>1, <3>2, <3>4 DEF WithSerial
  <2> HIDE DEF card, c
  <2> QED
    BY <1>1, <2>1, <2>2, <2>3, <2>4, <2>5, SetCardCables
<1>10. ASSUME NEW c \in CardIds, DeleteDuplicateReceipt(c)
       PROVE  CablesFrom(db, db')
  <2>1. db'.cards = [x \in DOMAIN db.cards \ {c} |-> db.cards[x]]
    BY <1>1, <1>10 DEF DeleteDuplicateReceipt, Commits, DeleteCard, Sound, WellFormed
  <2> QED
    BY <2>1 DEF CablesFrom, CablesApart
<1>11. (\E row \in SingleRows : CreateIssue(row)) \/ (\E row \in CableRows : CreateCableIssue(row))
         => CablesFrom(db, db')
  <2>1. ASSUME NEW row, NEW shares PROVE CablesFrom(db, AddIssue(db, row, shares))
    <3>1. AddIssue(db, row, shares).cards = db.cards
      BY <1>1 DEF AddIssue, Sound, WellFormed
    <3> QED
      BY <3>1, SameCardsCables
  <2> QED
    BY <2>1 DEF CreateIssue, CreateCableIssue, Commits
<1> QED
  BY <1>3, <1>4, <1>5, <1>6, <1>7, <1>8, <1>9, <1>10, <1>11 DEF SingleRequest

\* Every step keeps the accounts.
LEMMA StepAccounts == AccountsInv /\ [Next]_vars => AccountsInv'
<1> SUFFICES ASSUME AccountsInv, [Next]_vars PROVE AccountsInv'
  OBVIOUS
<1>1. IInv /\ BalancedIn(db) /\ BalancedIn(work) /\ CablesApart(db) /\ Sound(db) /\ Sound(work)
  BY DEF AccountsInv, IInv
<1>2. IInv'
  BY <1>1, StepInvariant
<1>3. PairsFrom(db, db')
  BY <1>1, PairsStep
<1>4. ASSUME next <= Len(rows) PROVE rows[next] \in IssueRow
  BY <1>1, <1>4 DEF IInv, TypeOK
<1>5. CASE SingleRequest
  <2>1. BalancedIn(db') /\ work' = db' /\ CablesFrom(db, db')
    BY <1>1, <1>5, SingleRequestBalances, SingleRequestCables
  <2>2. CablesApart(db')
    BY <1>1, <1>3, <2>1, CablesStayApart
  <2> QED
    BY <1>2, <2>1, <2>2 DEF AccountsInv
<1>6. CASE CheckRow
  <2>1. db' = db /\ BalancedIn(work')
    BY <1>1, <1>4, <1>6, RowBalances DEF CheckRow
  <2> QED
    BY <1>1, <1>2, <2>1 DEF AccountsInv
<1>7. CASE ApplyRow
  <2>1. db' = db /\ BalancedIn(work')
    BY <1>1, <1>4, <1>7, RowBalances DEF ApplyRow
  <2> QED
    BY <1>1, <1>2, <2>1 DEF AccountsInv
<1>8. CASE CommitFile
  <2>1. db' = work /\ work' = work /\ work.cards = db.cards
    BY <1>1, <1>8 DEF CommitFile, IInv, OnlyTakes
  <2>2. CablesApart(work)
    BY <1>1, <2>1 DEF CablesApart
  <2> QED
    BY <1>1, <1>2, <2>1, <2>2 DEF AccountsInv
<1>9. CASE CableRow
  <2>1. rows[next] \in IssueRow
    BY <1>4, <1>9 DEF CableRow
  <2>2. AvailableCableLots(db, rows[next]) \in SUBSET DOMAIN db.cards
    BY DEF AvailableCableLots
  <2>3. PICK shares \in FifoShares(db, AvailableCableLots(db, rows[next]), rows[next].quantity) :
          db' = AddIssue(db, rows[next], shares)
    BY <1>9 DEF CableRow
  <2>4. BalancedIn(AddIssue(db, rows[next], shares))
    BY <1>1, <2>1, <2>2, AddIssueBalanced
  <2>5. AddIssue(db, rows[next], shares).cards = db.cards
    BY <1>1 DEF AddIssue, Sound, WellFormed
  <2>6. CablesApart(db')
    BY <1>1, <2>3, <2>5 DEF CablesApart
  <2>7. work' = db'
    BY <1>9 DEF CableRow
  <2> QED
    BY <1>2, <2>3, <2>4, <2>6, <2>7 DEF AccountsInv
<1>10. CASE db' = db /\ work' \in {db, work}
  <2>1. work' = db \/ work' = work
    BY <1>10
  <2>2. BalancedIn(work') /\ BalancedIn(db') /\ CablesApart(db')
    BY <1>1, <1>10, <2>1
  <2> QED
    BY <1>2, <2>2 DEF AccountsInv
<1> QED
  BY <1>5, <1>6, <1>7, <1>8, <1>9, <1>10
  DEF Next, RequestStep, BeginImport, BeginConfirm, BeginCables, Begin, CheckDone, ApplyRefused,
      CablesEnd, Crash, vars

\* In every reachable state the accounts are balanced.
LEMMA AccountsAreKept == Spec => []AccountsInv
BY InitAccounts, StepAccounts, PTL DEF Spec

-----------------------------------------------------------------------------
(* The screens, of any tables with balanced accounts. *)

\* Tables with sound books, balanced accounts and cables apart.
Kept(d) == Sound(d) /\ BalancedIn(d) /\ CablesApart(d)

\* The tables, for the provers.
LEMMA KeptFacts ==
  ASSUME NEW d, Kept(d)
  PROVE  /\ IsFiniteSet(DOMAIN d.cards) /\ IsFiniteSet(DOMAIN d.issues) /\ IsFiniteSet(CardIds)
         /\ DOMAIN d.cards \subseteq CardIds /\ CardIds \subseteq Nat
         /\ \A c \in DOMAIN d.cards : d.cards[c] \in Card
         /\ \A i \in DOMAIN d.issues : d.issues[i] \in Issue
         /\ \A i \in DOMAIN d.issues : d.issues[i].parts \in [CardIds -> Int]
         /\ \A i \in DOMAIN d.issues, c \in CardIds : d.issues[i].parts[c] \in Nat
         /\ \A c \in CardIds : d.taken[c] \in Nat /\ Allocated(d, c) = d.taken[c]
<1>1. /\ d.lastCard \in 0..MaxCards /\ MaxCards \in Nat
      /\ DOMAIN d.cards \subseteq 1..d.lastCard
      /\ d.cards \in [DOMAIN d.cards -> Card] /\ d.issues \in Seq(Issue)
      /\ d.taken \in [CardIds -> Nat]
  BY BoundsAssumption DEF Kept, Sound, WellFormed, BoundsAssumption
<1>2. IsFiniteSet(CardIds) /\ CardIds \subseteq Nat /\ DOMAIN d.cards \subseteq CardIds
  <2>1. IsFiniteSet(1..MaxCards)
    BY <1>1, FS_Interval
  <2>2. 1..MaxCards \subseteq Nat /\ 1..d.lastCard \subseteq 1..MaxCards
    BY <1>1
  <2> QED
    BY <1>1, <2>1, <2>2 DEF CardIds
<1>3. IsFiniteSet(DOMAIN d.cards)
  BY <1>2, FS_Subset
<1>4. IsFiniteSet(DOMAIN d.issues)
  <2>1. DOMAIN d.issues = 1..Len(d.issues) /\ Len(d.issues) \in Nat
    BY <1>1
  <2> QED
    BY <2>1, FS_Interval
<1>5. \A i \in DOMAIN d.issues : d.issues[i] \in Issue
  BY <1>1
<1>6. ASSUME NEW i \in DOMAIN d.issues
      PROVE  d.issues[i].parts \in [CardIds -> Nat]
  BY <1>5 DEF Issue
<1>7. /\ \A i \in DOMAIN d.issues : d.issues[i].parts \in [CardIds -> Int]
      /\ \A i \in DOMAIN d.issues, c \in CardIds : d.issues[i].parts[c] \in Nat
  BY <1>6
<1>8. \A c \in CardIds : d.taken[c] \in Nat /\ Allocated(d, c) = d.taken[c]
  BY <1>1 DEF Kept, BalancedIn
<1>9. \A c \in DOMAIN d.cards : d.cards[c] \in Card
  BY <1>1
<1> QED
  BY <1>2, <1>3, <1>4, <1>5, <1>7, <1>8, <1>9

\* What is left of a lot.
LEMMA LeftOfLot ==
  ASSUME NEW d, Kept(d), NEW c \in DOMAIN d.cards
  PROVE  /\ Left(d, c) \in Nat /\ Left(d, c) = Available(d, c)
         /\ d.cards[c].quantity \in Nat
         /\ Left(d, c) <= d.cards[c].quantity
         /\ Allocated(d, c) \in Nat
         /\ d.cards[c].quantity = Left(d, c) + Allocated(d, c)
<1>1. c \in CardIds /\ d.taken[c] \in Nat /\ Allocated(d, c) = d.taken[c] /\ d.cards[c] \in Card
  BY KeptFacts
<1>2. d.taken[c] <= d.cards[c].quantity /\ d.cards[c].quantity \in Nat
  BY <1>1 DEF Kept, Sound, NeverOverIssuedIn, Card, Quantities
<1> QED
  BY <1>1, <1>2 DEF Left, Available

\* What is left of lots: nothing below nought, and something when a lot has it.
LEMMA LeftOfLots ==
  ASSUME NEW d, Kept(d), NEW lots \in SUBSET DOMAIN d.cards
  PROVE  /\ IsFiniteSet(lots)
         /\ [c \in lots |-> Left(d, c)] \in [lots -> Int]
         /\ LeftOf(d, lots) \in Nat
         /\ LeftOf(d, lots) > 0 <=> \E c \in lots : Left(d, c) > 0
<1> DEFINE f == [c \in lots |-> Left(d, c)]
<1>1. IsFiniteSet(lots)
  BY KeptFacts, FS_Subset
<1>2. \A c \in lots : Left(d, c) \in Nat
  BY LeftOfLot
<1>3. f \in [lots -> Int] /\ \A c \in lots : f[c] >= 0 /\ f[c] = Left(d, c)
  BY <1>2
<1>4. Total(f) \in Nat /\ (Total(f) > 0 <=> \E c \in lots : f[c] > 0)
  <2> HIDE DEF f
  <2> QED
    BY <1>1, <1>3, TotalIsNat
<1> QED
  BY <1>1, <1>3, <1>4 DEF LeftOf

\* What a write-off took, by card or altogether.
LEMMA MatchedIsParts ==
  ASSUME NEW d, Kept(d), NEW i \in DOMAIN d.issues
  PROVE  /\ Matched(d, i) = Total(d.issues[i].parts)
         /\ Matched(d, i) = IF d.issues[i].status = "matched" THEN d.issues[i].quantity ELSE 0
         /\ d.issues[i].quantity \in Nat \ {0}
         /\ d.issues[i].status \in {"matched", "unmatched"}
         /\ Matched(d, i) \in Nat
<1>1. /\ IsFiniteSet(CardIds) /\ DOMAIN d.cards \in SUBSET CardIds
      /\ d.issues[i].parts \in [CardIds -> Int]
      /\ \A c \in CardIds : d.issues[i].parts[c] \in Nat
      /\ d.issues[i] \in Issue
  BY KeptFacts
<1>2. \A c \in CardIds \ DOMAIN d.cards : d.issues[i].parts[c] = 0
  BY <1>1 DEF Kept, Sound, HistoryAnchoredIn
<1>3. Total(d.issues[i].parts) = Total([c \in DOMAIN d.cards |-> d.issues[i].parts[c]])
  BY <1>1, <1>2, TotalWithin
<1>4. Total(d.issues[i].parts) = IF d.issues[i].status = "matched" THEN d.issues[i].quantity ELSE 0
  BY DEF Kept, BalancedIn
<1>5. d.issues[i].quantity \in Nat \ {0} /\ d.issues[i].status \in {"matched", "unmatched"}
  BY <1>1 DEF Issue, Quantities, IssueStatuses
<1> QED
  BY <1>3, <1>4, <1>5 DEF Matched

\* What left the stock, by write-off or by card.
LEMMA WhatLeft ==
  ASSUME NEW d, Kept(d)
  PROVE  /\ [c \in DOMAIN d.cards |-> Allocated(d, c)] \in [DOMAIN d.cards -> Int]
         /\ Total([i \in DOMAIN d.issues |-> Total(d.issues[i].parts)])
              = Total([c \in DOMAIN d.cards |-> Allocated(d, c)])
<1> DEFINE f == [i \in DOMAIN d.issues |-> d.issues[i].parts]
           a == [c \in CardIds |-> Allocated(d, c)]
<1>1. /\ IsFiniteSet(DOMAIN d.issues) /\ IsFiniteSet(CardIds)
      /\ f \in [DOMAIN d.issues -> [CardIds -> Int]]
      /\ DOMAIN d.cards \in SUBSET CardIds
      /\ \A c \in CardIds : d.taken[c] \in Nat /\ Allocated(d, c) = d.taken[c]
  BY KeptFacts
<1>2. Total([i \in DOMAIN d.issues |-> Total(f[i])])
        = Total([c \in CardIds |-> Total([i \in DOMAIN d.issues |-> f[i][c]])])
  <2> HIDE DEF f
  <2> QED
    BY <1>1, TotalSwaps
<1>3. [i \in DOMAIN d.issues |-> Total(f[i])] = [i \in DOMAIN d.issues |-> Total(d.issues[i].parts)]
  OBVIOUS
<1>4. [c \in CardIds |-> Total([i \in DOMAIN d.issues |-> f[i][c]])] = a
  <2>1. ASSUME NEW c \in CardIds
        PROVE  [i \in DOMAIN d.issues |-> f[i][c]] = [i \in DOMAIN d.issues |-> d.issues[i].parts[c]]
    OBVIOUS
  <2> QED
    BY <2>1 DEF Allocated
<1>5. a \in [CardIds -> Int] /\ \A c \in CardIds \ DOMAIN d.cards : a[c] = 0
  <2>1. \A c \in CardIds \ DOMAIN d.cards : d.taken[c] = 0
    BY AbsentUntaken DEF Kept
  <2> QED
    BY <1>1, <2>1
<1>6. Total(a) = Total([c \in DOMAIN d.cards |-> a[c]])
  <2> HIDE DEF a
  <2> QED
    BY <1>1, <1>5, TotalWithin
<1>7. [c \in DOMAIN d.cards |-> a[c]] = [c \in DOMAIN d.cards |-> Allocated(d, c)]
  BY <1>1
<1>8. [c \in DOMAIN d.cards |-> Allocated(d, c)] \in [DOMAIN d.cards -> Int]
  BY <1>1
<1> HIDE DEF f, a
<1> QED
  BY <1>2, <1>3, <1>4, <1>6, <1>7, <1>8

\* The total of the dashboard is what is left of all lots.
LEMMA DashboardBalance ==
  ASSUME NEW d, Kept(d)
  PROVE  dashboard_stats(d).balance = LeftOf(d, DOMAIN d.cards)
<1> DEFINE q == [c \in DOMAIN d.cards |-> d.cards[c].quantity]
           a == [c \in DOMAIN d.cards |-> Allocated(d, c)]
<1>1. IsFiniteSet(DOMAIN d.cards) /\ a \in [DOMAIN d.cards -> Int]
  BY KeptFacts, WhatLeft
<1>2. q \in [DOMAIN d.cards -> Int]
  BY LeftOfLot
<1>3. Total([c \in DOMAIN d.cards |-> q[c] - a[c]]) = Total(q) - Total(a)
  <2> HIDE DEF q, a
  <2> QED
    BY <1>1, <1>2, TotalSubtracts
<1>4. [c \in DOMAIN d.cards |-> q[c] - a[c]] = [c \in DOMAIN d.cards |-> Left(d, c)]
  BY DEF Left
<1>5. Total(a) = Total([i \in DOMAIN d.issues |-> Total(d.issues[i].parts)])
  BY WhatLeft
<1>6. dashboard_stats(d).balance = Total(q) - Total([i \in DOMAIN d.issues |-> Total(d.issues[i].parts)])
  BY DEF dashboard_stats
<1> HIDE DEF q, a
<1>7. Total([c \in DOMAIN d.cards |-> Left(d, c)]) = Total(q) - Total(a)
  BY <1>3, <1>4
<1> QED
  BY <1>5, <1>6, <1>7 DEF LeftOf

-----------------------------------------------------------------------------
(* The positions and the boards. *)

\* The positions, for the provers.
LEMMA PositionFacts ==
  ASSUME NEW d, Kept(d)
  PROVE  /\ IsFiniteSet(Positions(d))
         /\ \A S \in SUBSET Positions(d) : IsFiniteSet(S)
         /\ stock_balance(d) \in [Positions(d) -> Int]
         /\ \A k \in Positions(d) : stock_balance(d)[k] >= 0
         /\ \A k \in Positions(d) :
              k \in Positive(d) <=> \E c \in DOMAIN d.cards : Key(d.cards[c]) = k /\ Left(d, c) > 0
         /\ Positive(d) \in SUBSET Positions(d)
         /\ \A k \in Positions(d) \ Positive(d) : stock_balance(d)[k] = 0
<1> DEFINE h == [c \in DOMAIN d.cards |-> Key(d.cards[c])]
<1>1. IsFiniteSet(Positions(d))
  <2>1. h \in Surjection(DOMAIN d.cards, Positions(d))
    BY DEF Surjection, Positions
  <2> QED
    BY <2>1, KeptFacts, FS_Surjection
<1>2. ASSUME NEW k \in Positions(d)
      PROVE  /\ stock_balance(d)[k] \in Nat
             /\ stock_balance(d)[k] > 0 <=>
                  \E c \in DOMAIN d.cards : Key(d.cards[c]) = k /\ Left(d, c) > 0
  <2> DEFINE lots == {c \in DOMAIN d.cards : Key(d.cards[c]) = k}
  <2>1. lots \in SUBSET DOMAIN d.cards
    OBVIOUS
  <2>2. LeftOf(d, lots) \in Nat /\ (LeftOf(d, lots) > 0 <=> \E c \in lots : Left(d, c) > 0)
    <3> HIDE DEF lots
    <3> QED
      BY <2>1, LeftOfLots
  <2>3. stock_balance(d)[k] = LeftOf(d, lots)
    BY DEF stock_balance
  <2> QED
    BY <2>2, <2>3
<1>3. stock_balance(d) \in [Positions(d) -> Int]
  <2>1. DOMAIN stock_balance(d) = Positions(d)
        /\ stock_balance(d) = [k \in Positions(d) |-> stock_balance(d)[k]]
    BY DEF stock_balance
  <2> QED
    BY <1>2, <2>1
<1>4. \A S \in SUBSET Positions(d) : IsFiniteSet(S)
  BY <1>1, FS_Subset
<1>5. \A k : k \in Positive(d) <=> k \in Positions(d) /\ stock_balance(d)[k] > 0
  BY DEF Positive
<1> QED
  BY <1>1, <1>2, <1>3, <1>4, <1>5

\* Positions are told with the lots they group.
LEMMA PositionsAreLots ==
  ASSUME NEW d, Kept(d), NEW S \in SUBSET Positions(d)
  PROVE  InPositions(d, S) = LeftOf(d, {c \in DOMAIN d.cards : Key(d.cards[c]) \in S})
<1> DEFINE lots == {c \in DOMAIN d.cards : Key(d.cards[c]) \in S}
           f == [c \in lots |-> Left(d, c)]
           key == [c \in lots |-> Key(d.cards[c])]
<1>1. lots \in SUBSET DOMAIN d.cards /\ key \in [lots -> S] /\ IsFiniteSet(S)
  BY PositionFacts
<1>2. IsFiniteSet(lots) /\ f \in [lots -> Int]
  <2> HIDE DEF lots
  <2> QED
    BY <1>1, LeftOfLots
<1>3. Total(f) = Total([k \in S |-> Total([x \in {y \in lots : key[y] = k} |-> f[x]])])
  <2> HIDE DEF lots, f, key
  <2> QED
    BY <1>1, <1>2, TotalOfGroups
<1>4. ASSUME NEW k \in S
      PROVE  Total([x \in {y \in lots : key[y] = k} |-> f[x]]) = stock_balance(d)[k]
  <2>1. {y \in lots : key[y] = k} = {c \in DOMAIN d.cards : Key(d.cards[c]) = k}
    OBVIOUS
  <2>2. [x \in {y \in lots : key[y] = k} |-> f[x]]
          = [x \in {c \in DOMAIN d.cards : Key(d.cards[c]) = k} |-> Left(d, x)]
    BY <2>1
  <2>3. k \in Positions(d)
    OBVIOUS
  <2>4. stock_balance(d)[k] = Total([x \in {c \in DOMAIN d.cards : Key(d.cards[c]) = k} |-> Left(d, x)])
    BY <2>3 DEF stock_balance, LeftOf
  <2> QED
    BY <2>2, <2>4, Zenon
<1>5. [k \in S |-> Total([x \in {y \in lots : key[y] = k} |-> f[x]])] = [k \in S |-> stock_balance(d)[k]]
  BY <1>4
<1>6. Total(f) = InPositions(d, S)
  BY <1>3, <1>5, Zenon DEF InPositions
<1>7. LeftOf(d, lots) = Total(f)
  BY DEF LeftOf
<1> QED
  BY <1>6, <1>7

\* A position with nothing left adds nothing.
LEMMA PositiveIsEnough ==
  ASSUME NEW d, Kept(d), NEW S \in SUBSET Positions(d)
  PROVE  InPositions(d, S) = InPositions(d, S \cap Positive(d))
<1> DEFINE f == [k \in S |-> stock_balance(d)[k]]
           T == S \cap Positive(d)
<1>1. f \in [S -> Int] /\ IsFiniteSet(S) /\ T \in SUBSET S /\ \A k \in S \ T : f[k] = 0
  BY PositionFacts
<1>2. Total(f) = Total([k \in T |-> f[k]])
  <2> HIDE DEF f, T
  <2> QED
    BY <1>1, TotalWithin
<1>3. [k \in T |-> f[k]] = [k \in T |-> stock_balance(d)[k]]
  OBVIOUS
<1> QED
  BY <1>2, <1>3 DEF InPositions

\* Positions by their type: their stock and their number.
LEMMA PositionsByKind ==
  ASSUME NEW d, Kept(d), NEW S \in SUBSET Positions(d)
  PROVE  LET T == {k.kind : k \in S}
         IN /\ InPositions(d, S) = Total([t \in T |-> InPositions(d, {k \in S : k.kind = t})])
            /\ Cardinality(S) = Total([t \in T |-> Cardinality({k \in S : k.kind = t})])
<1> DEFINE T == {k.kind : k \in S}
           f == [k \in S |-> stock_balance(d)[k]]
           one == [k \in S |-> 1]
           key == [k \in S |-> k.kind]
           Group(t) == {k \in S : k.kind = t}
<1>1. f \in [S -> Int] /\ one \in [S -> Int] /\ IsFiniteSet(S) /\ key \in [S -> T]
  BY PositionFacts
<1>2. IsFiniteSet(T)
  <2>1. key \in Surjection(S, T)
    BY DEF Surjection
  <2> HIDE DEF key, T
  <2> QED
    BY <1>1, <2>1, FS_Surjection
<1>3. \A t \in T : {y \in S : key[y] = t} = Group(t)
  OBVIOUS
<1>4. Total(f) = Total([t \in T |-> Total([x \in {y \in S : key[y] = t} |-> f[x]])])
  <2> HIDE DEF T, f, key
  <2> QED
    BY <1>1, <1>2, TotalOfGroups
<1>5. Total(one) = Total([t \in T |-> Total([x \in {y \in S : key[y] = t} |-> one[x]])])
  <2> HIDE DEF T, one, key
  <2> QED
    BY <1>1, <1>2, TotalOfGroups
<1>6. ASSUME NEW t \in T
      PROVE  /\ Total([x \in {y \in S : key[y] = t} |-> f[x]]) = InPositions(d, Group(t))
             /\ Total([x \in {y \in S : key[y] = t} |-> one[x]]) = Cardinality(Group(t))
  <2>1. [x \in {y \in S : key[y] = t} |-> f[x]] = [k \in Group(t) |-> stock_balance(d)[k]]
    BY <1>3
  <2>2. [x \in {y \in S : key[y] = t} |-> one[x]] = [k \in Group(t) |-> 1]
    BY <1>3
  <2>3. IsFiniteSet(Group(t))
    BY <1>1, FS_Subset
  <2>4. Cardinality(Group(t)) = Total([k \in Group(t) |-> 1])
    <3> HIDE DEF Group
    <3> QED
      BY <2>3, TotalOfOnes
  <2>5. InPositions(d, Group(t)) = Total([k \in Group(t) |-> stock_balance(d)[k]])
    BY DEF InPositions
  <2> QED
    BY <2>1, <2>2, <2>4, <2>5, Zenon
<1>7. /\ [t \in T |-> Total([x \in {y \in S : key[y] = t} |-> f[x]])] = [t \in T |-> InPositions(d, Group(t))]
      /\ [t \in T |-> Total([x \in {y \in S : key[y] = t} |-> one[x]])] = [t \in T |-> Cardinality(Group(t))]
  BY <1>6
<1>8. Cardinality(S) = Total(one)
  BY <1>1, TotalOfOnes
<1>9. InPositions(d, S) = Total(f)
  BY DEF InPositions
<1>10. InPositions(d, S) = Total([t \in T |-> InPositions(d, Group(t))])
  BY <1>4, <1>7, <1>9, Zenon
<1>11. Cardinality(S) = Total([t \in T |-> Cardinality(Group(t))])
  BY <1>5, <1>7, <1>8, Zenon
<1> QED
  BY <1>10, <1>11

\* Lots, group by group.
LEMMA LotsByGroup ==
  ASSUME NEW d, Kept(d), NEW lots \in SUBSET DOMAIN d.cards,
         NEW T, IsFiniteSet(T), NEW key \in [lots -> T]
  PROVE  LeftOf(d, lots) = Total([k \in T |-> LeftOf(d, {c \in lots : key[c] = k})])
<1> DEFINE f == [c \in lots |-> Left(d, c)]
<1>1. IsFiniteSet(lots) /\ f \in [lots -> Int]
  BY LeftOfLots
<1>2. Total(f) = Total([k \in T |-> Total([x \in {y \in lots : key[y] = k} |-> f[x]])])
  <2> HIDE DEF f
  <2> QED
    BY <1>1, TotalOfGroups
<1>3. ASSUME NEW k \in T
      PROVE  Total([x \in {y \in lots : key[y] = k} |-> f[x]]) = LeftOf(d, {c \in lots : key[c] = k})
  <2>1. [x \in {y \in lots : key[y] = k} |-> f[x]] = [x \in {y \in lots : key[y] = k} |-> Left(d, x)]
    OBVIOUS
  <2> QED
    BY <2>1, Zenon DEF LeftOf
<1>4. [k \in T |-> Total([x \in {y \in lots : key[y] = k} |-> f[x]])]
        = [k \in T |-> LeftOf(d, {c \in lots : key[c] = k})]
  BY <1>3
<1>5. LeftOf(d, lots) = Total(f)
  BY DEF LeftOf
<1> QED
  BY <1>2, <1>4, <1>5, Zenon

\* All positions, and of them those with stock.
LEMMA BoardIsPositions ==
  ASSUME NEW d, Kept(d)
  PROVE  /\ dashboard_stats(d).balance = InPositions(d, Positions(d))
         /\ dashboard_stats(d).balance = InPositions(d, Positive(d))
<1>1. Positions(d) \in SUBSET Positions(d) /\ Positions(d) \cap Positive(d) = Positive(d)
  BY PositionFacts
<1>2. {c \in DOMAIN d.cards : Key(d.cards[c]) \in Positions(d)} = DOMAIN d.cards
  BY DEF Positions
<1>3. InPositions(d, Positions(d)) = LeftOf(d, DOMAIN d.cards)
  BY <1>1, <1>2, PositionsAreLots
<1>4. InPositions(d, Positions(d)) = InPositions(d, Positive(d))
  BY <1>1, PositiveIsEnough
<1> QED
  BY <1>3, <1>4, DashboardBalance

\* The two kinds of the dashboard.
LEMMA BoardIsKinds ==
  ASSUME NEW d, Kept(d)
  PROVE  dashboard_stats(d).balance = dashboard_stats(d).equipment + dashboard_stats(d).cables
<1> DEFINE S == Positive(d)
           C == {k \in Positive(d) : k.kind = "cable"}
           E == {k \in Positive(d) : k.kind # "cable"}
           f == [k \in S |-> stock_balance(d)[k]]
<1>1. f \in [S -> Int] /\ IsFiniteSet(S) /\ E \in SUBSET S /\ C = S \ E
  BY PositionFacts
<1>2. Total(f) = Total([k \in E |-> f[k]]) + Total([k \in S \ E |-> f[k]])
  <2> HIDE DEF S, C, E, f
  <2> QED
    BY <1>1, TotalSplits
<1>3. /\ [k \in E |-> f[k]] = [k \in E |-> stock_balance(d)[k]]
      /\ [k \in S \ E |-> f[k]] = [k \in C |-> stock_balance(d)[k]]
  <2>1. \A k \in S : f[k] = stock_balance(d)[k]
    OBVIOUS
  <2> HIDE DEF S, C, E, f
  <2> QED
    BY <1>1, <2>1
<1>4. InPositions(d, S) = InPositions(d, E) + InPositions(d, C)
  BY <1>2, <1>3 DEF InPositions
<1>5. dashboard_stats(d).equipment = InPositions(d, E) /\ dashboard_stats(d).cables = InPositions(d, C)
  BY DEF dashboard_stats
<1> QED
  BY <1>4, <1>5, BoardIsPositions

\* The types of the first page.
LEMMA BoardIsTypes ==
  ASSUME NEW d, Kept(d)
  PROVE  LET types == warehouse_type_summary(d)
         IN /\ dashboard_stats(d).balance = Total([t \in DOMAIN types |-> types[t].quantity])
            /\ dashboard_stats(d).positions = Total([t \in DOMAIN types |-> types[t].positions])
<1> DEFINE types == warehouse_type_summary(d)
           S == Positive(d)
           T == {k.kind : k \in S}
<1>1. S \in SUBSET Positions(d)
  BY PositionFacts
<1>2. /\ InPositions(d, S) = Total([t \in T |-> InPositions(d, {k \in S : k.kind = t})])
      /\ Cardinality(S) = Total([t \in T |-> Cardinality({k \in S : k.kind = t})])
  <2> HIDE DEF S
  <2> QED
    BY <1>1, PositionsByKind
<1>3. /\ DOMAIN types = T
      /\ \A t \in T : /\ types[t].quantity = InPositions(d, {k \in S : k.kind = t})
                      /\ types[t].positions = Cardinality({k \in S : k.kind = t})
  BY DEF warehouse_type_summary
<1>4. dashboard_stats(d).positions = Cardinality(S)
  BY DEF dashboard_stats
<1>5. dashboard_stats(d).balance = InPositions(d, S)
  BY BoardIsPositions
<1> HIDE DEF types, S, T
<1>6. /\ [t \in DOMAIN types |-> types[t].quantity] = [t \in T |-> InPositions(d, {k \in S : k.kind = t})]
      /\ [t \in DOMAIN types |-> types[t].positions] = [t \in T |-> Cardinality({k \in S : k.kind = t})]
  BY <1>3
<1>7. /\ dashboard_stats(d).balance = Total([t \in DOMAIN types |-> types[t].quantity])
      /\ dashboard_stats(d).positions = Total([t \in DOMAIN types |-> types[t].positions])
  BY <1>2, <1>4, <1>5, <1>6
<1> QED
  BY <1>7 DEF types

\* The first level of the tree.
LEMMA BoardIsTree ==
  ASSUME NEW d, Kept(d), NEW state \in {"any", "positive"}
  PROVE  dashboard_stats(d).balance = CategoryTotal(stock_tree(d, state))
<1> DEFINE tree == stock_tree(d, state)
           S == IF state = "positive" THEN Positive(d) ELSE Positions(d)
           T == {k.kind : k \in S}
<1>1. S \in SUBSET Positions(d)
  BY PositionFacts
<1>2. InPositions(d, S) = Total([t \in T |-> InPositions(d, {k \in S : k.kind = t})])
  <2> HIDE DEF S
  <2> QED
    BY <1>1, PositionsByKind
<1>3. /\ DOMAIN tree = T
      /\ \A t \in T : tree[t].available = InPositions(d, {k \in S : k.kind = t})
  BY DEF stock_tree
<1>4. dashboard_stats(d).balance = InPositions(d, S)
  BY BoardIsPositions
<1> HIDE DEF tree, S, T
<1>5. [t \in DOMAIN tree |-> tree[t].available] = [t \in T |-> InPositions(d, {k \in S : k.kind = t})]
  BY <1>3
<1>6. dashboard_stats(d).balance = CategoryTotal(tree)
  BY <1>2, <1>4, <1>5 DEF CategoryTotal
<1> QED
  BY <1>6 DEF tree

\* The cables by item.
LEMMA BoardIsCables ==
  ASSUME NEW d, Kept(d)
  PROVE  /\ dashboard_stats(d).cables = Total(cable_balance(d))
         /\ IsFiniteSet(DOMAIN cable_balance(d))
<1> DEFINE lots == {c \in DOMAIN d.cards : d.cards[c].kind = "cable"}
           T == {d.cards[c].item : c \in lots}
           key == [c \in lots |-> d.cards[c].item]
           S == {k \in Positions(d) : k.kind = "cable"}
<1>1. lots \in SUBSET DOMAIN d.cards /\ key \in [lots -> T] /\ S \in SUBSET Positions(d)
  OBVIOUS
<1>2. IsFiniteSet(T)
  <2>1. IsFiniteSet(lots)
    BY <1>1, KeptFacts, FS_Subset
  <2>2. key \in Surjection(lots, T)
    BY DEF Surjection
  <2> HIDE DEF key, T, lots
  <2> QED
    BY <2>1, <2>2, FS_Surjection
<1>3. LeftOf(d, lots) = Total([i \in T |-> LeftOf(d, {c \in lots : key[c] = i})])
  <2> HIDE DEF lots, T, key
  <2> QED
    BY <1>1, <1>2, LotsByGroup
<1>4. cable_balance(d) = [i \in T |-> LeftOf(d, {c \in lots : d.cards[c].item = i})]
  BY DEF cable_balance
<1>5. \A i \in T : {c \in lots : key[c] = i} = {c \in lots : d.cards[c].item = i}
  OBVIOUS
<1>6. LeftOf(d, lots) = Total(cable_balance(d))
  <2>1. [i \in T |-> LeftOf(d, {c \in lots : key[c] = i})]
          = [i \in T |-> LeftOf(d, {c \in lots : d.cards[c].item = i})]
    BY <1>5
  <2> HIDE DEF lots, T, key
  <2> QED
    BY <1>3, <1>4, <2>1
<1>7. {c \in DOMAIN d.cards : Key(d.cards[c]) \in S} = lots
  BY DEF Key, Positions
<1>8. InPositions(d, S) = LeftOf(d, lots)
  <2>1. InPositions(d, S) = LeftOf(d, {c \in DOMAIN d.cards : Key(d.cards[c]) \in S})
    <3> HIDE DEF S
    <3> QED
      BY <1>1, PositionsAreLots
  <2> QED
    BY <1>7, <2>1, Zenon
<1>9. S \cap Positive(d) = {k \in Positive(d) : k.kind = "cable"}
  BY PositionFacts
<1>10. InPositions(d, S) = InPositions(d, S \cap Positive(d))
  <2> HIDE DEF S
  <2> QED
    BY <1>1, PositiveIsEnough
<1>11. dashboard_stats(d).cables = InPositions(d, {k \in Positive(d) : k.kind = "cable"})
  BY DEF dashboard_stats
<1>12. DOMAIN cable_balance(d) = T
  BY <1>4
<1> HIDE DEF lots, T, key, S
<1> QED
  BY <1>2, <1>6, <1>8, <1>9, <1>10, <1>11, <1>12

\* The categories of the first page.
LEMMA BoardIsCategories ==
  ASSUME NEW d, Kept(d)
  PROVE  dashboard_stats(d).balance = Total(warehouse_categories(d))
<1> DEFINE lots == DOMAIN d.cards
           key == [c \in lots |-> d.cards[c].kind]
<1>1. key \in [lots -> Kinds]
  BY KeptFacts DEF Card
<1>2. IsFiniteSet(Kinds)
  <2>1. Kinds = {"equipment"} \cup {"component"} \cup {"cable"}
    BY DEF Kinds
  <2> QED
    BY <2>1, FS_Singleton, FS_Union
<1>3. LeftOf(d, lots) = Total([t \in Kinds |-> LeftOf(d, {c \in lots : key[c] = t})])
  <2>1. lots \in SUBSET DOMAIN d.cards
    OBVIOUS
  <2> HIDE DEF lots, key
  <2> QED
    BY <1>1, <1>2, <2>1, LotsByGroup
<1>4. \A t \in Kinds : {c \in lots : key[c] = t} = {c \in DOMAIN d.cards : d.cards[c].kind = t}
  OBVIOUS
<1>5. [t \in Kinds |-> LeftOf(d, {c \in lots : key[c] = t})] = warehouse_categories(d)
  BY <1>4 DEF warehouse_categories
<1> QED
  BY <1>3, <1>5, DashboardBalance

-----------------------------------------------------------------------------
(* Histories, told row by row. *)

\* Rows that are listed one by one.
LEMMA ListedTotal ==
  ASSUME NEW S, IsFiniteSet(S), NEW E, NEW r \in [S -> E],
         \A x, y \in S : r[x] = r[y] => x = y,
         \A z \in E : \E x \in S : r[x] = z,
         \A y \in S : r[y].quantity \in Int
  PROVE  /\ IsFiniteSet(E)
         /\ \A e \in E : e.quantity \in Int
         /\ Total([e \in E |-> e.quantity]) = Total([y \in S |-> r[y].quantity])
<1> DEFINE f == [y \in S |-> r[y].quantity]
           g == [e \in E |-> e.quantity]
<1>1. f \in [S -> Int] /\ g \in [E -> Int]
  OBVIOUS
<1>2. \A x \in S : g[r[x]] = f[x]
  OBVIOUS
<1>3. IsFiniteSet(E) /\ Total(f) = Total(g)
  <2> HIDE DEF f, g
  <2> QED
    BY <1>1, <1>2, TotalMoves
<1>4. \A e \in E : e.quantity \in Int
  OBVIOUS
<1> QED
  BY <1>3, <1>4

\* The total of one row is its number.
LEMMA TotalOfOne ==
  ASSUME NEW x, NEW f \in [{x} -> Int]
  PROVE  Total(f) = f[x]
<1>1. IsFiniteSet({x}) /\ {x} \in SUBSET {x} /\ x \in {x}
  BY FS_Singleton
<1>2. Total(On(f, {x})) = f[x] + Total(On(f, {x} \ {x}))
  BY <1>1, TotalPick
<1>3. {x} \ {x} = {}
  OBVIOUS
<1>4. Total(On(f, {x} \ {x})) = 0
  BY <1>3, TotalOnNone
<1>5. On(f, {x}) = f /\ f[x] \in Int
  BY OnAll
<1> QED
  BY <1>2, <1>4, <1>5

\* Two kinds of events of one history.
LEMMA ToldBoth ==
  ASSUME NEW history, NEW a, NEW b, a # b,
         NEW A, A = {x \in history : x.event \in {a}}, IsFiniteSet(A),
         NEW B, B = {x \in history : x.event \in {b}}, IsFiniteSet(B),
         \A x \in A \cup B : x.quantity \in Int
  PROVE  Told(history, {a, b}) = Told(history, {a}) + Told(history, {b})
<1> DEFINE E == {x \in history : x.event \in {a, b}}
           f == [x \in E |-> x.quantity]
<1>1. E = A \cup B /\ E \ A = B /\ A \in SUBSET E
  OBVIOUS
<1>2. IsFiniteSet(E) /\ f \in [E -> Int]
  <2>1. IsFiniteSet(A \cup B)
    BY FS_Union
  <2>2. \A x \in E : x.quantity \in Int
    BY <1>1
  <2>3. f \in [E -> Int]
    <3> HIDE DEF E
    <3> QED
      BY <2>2
  <2> QED
    BY <1>1, <2>1, <2>3
<1>3. Total(f) = Total([x \in A |-> f[x]]) + Total([x \in E \ A |-> f[x]])
  <2>1. IsFiniteSet(E) /\ f \in [E -> Int] /\ A \in SUBSET E
    BY <1>1, <1>2
  <2> HIDE DEF E, f
  <2> QED
    BY ONLY <2>1, TotalSplits
<1>4. [x \in A |-> f[x]] = [x \in A |-> x.quantity]
  BY <1>1
<1>5. [x \in E \ A |-> f[x]] = [x \in B |-> x.quantity]
  BY <1>1
<1>6. /\ Told(history, {a, b}) = Total(f)
      /\ Told(history, {a}) = Total([x \in A |-> x.quantity])
      /\ Told(history, {b}) = Total([x \in B |-> x.quantity])
  BY DEF Told
<1> HIDE DEF E, f
<1> QED
  BY <1>3, <1>4, <1>5, <1>6

\* The history of the warehouse.
LEMMA BoardIsHistory ==
  ASSUME NEW d, Kept(d)
  PROVE  dashboard_stats(d).balance =
           Told(warehouse_history(d), {"receipt"}) - Told(warehouse_history(d), {"issue"})
             + Total([i \in DOMAIN d.issues |-> list_rows(d)[i].unmatched])
<1> DEFINE H == warehouse_history(d)
           C == DOMAIN d.cards
           I == DOMAIN d.issues
           rc == [c \in C |-> [event |-> "receipt", of |-> c, quantity |-> d.cards[c].quantity]]
           ri == [i \in I |-> [event |-> "issue", of |-> i, quantity |-> d.issues[i].quantity]]
           EC == {x \in H : x.event \in {"receipt"}}
           EI == {x \in H : x.event \in {"issue"}}
           q == [i \in I |-> d.issues[i].quantity]
           u == [i \in I |-> list_rows(d)[i].unmatched]
           p == [i \in I |-> Total(d.issues[i].parts)]
<1>1. IsFiniteSet(C) /\ IsFiniteSet(I)
  BY KeptFacts
<1>2. H = {rc[c] : c \in C} \cup {ri[i] : i \in I}
  BY DEF warehouse_history
<1>3. EC = {rc[c] : c \in C} /\ EI = {ri[i] : i \in I}
  <2>1. /\ \A c \in C : rc[c].event = "receipt"
        /\ \A i \in I : ri[i].event = "issue"
    OBVIOUS
  <2> HIDE DEF rc, ri, H
  <2> QED
    BY <1>2, <2>1
<1>4. /\ DOMAIN rc = C /\ \A x, y \in C : rc[x] = rc[y] => x = y
      /\ \A c \in C : rc[c].quantity = d.cards[c].quantity /\ rc[c].quantity \in Int
  <2>1. \A x, y \in C : rc[x] = rc[y] => x = y
    <3>1. \A x \in C : rc[x].of = x
      OBVIOUS
    <3> HIDE DEF rc
    <3> QED
      BY <3>1
  <2> QED
    BY <2>1, LeftOfLot
<1>5. /\ DOMAIN ri = I /\ \A x, y \in I : ri[x] = ri[y] => x = y
      /\ \A i \in I : ri[i].quantity = d.issues[i].quantity /\ ri[i].quantity \in Int
  <2>1. \A x, y \in I : ri[x] = ri[y] => x = y
    <3>1. \A x \in I : ri[x].of = x
      OBVIOUS
    <3> HIDE DEF ri
    <3> QED
      BY <3>1
  <2>2. \A i \in I : d.issues[i].quantity \in Int
    BY MatchedIsParts
  <2> QED
    BY <2>1, <2>2
<1>6. Told(H, {"receipt"}) = Total([c \in C |-> d.cards[c].quantity])
  <2>1. Total([e \in EC |-> e.quantity]) = Total([c \in C |-> rc[c].quantity])
    <3>1. /\ IsFiniteSet(C) /\ rc \in [C -> EC]
          /\ \A z \in EC : \E x \in C : rc[x] = z
          /\ \A x, y \in C : rc[x] = rc[y] => x = y
          /\ \A x \in C : rc[x].quantity \in Int
      <4>1. rc = [x \in C |-> rc[x]]
        OBVIOUS
      <4> HIDE DEF EC, rc, C
      <4> QED
        BY <1>1, <1>3, <1>4, <4>1
    <3> HIDE DEF EC, rc, C
    <3> QED
      BY ONLY <3>1, ListedTotal
  <2>2. [c \in C |-> rc[c].quantity] = [c \in C |-> d.cards[c].quantity]
    OBVIOUS
  <2> QED
    BY <2>1, <2>2, Zenon DEF Told
<1>7. Told(H, {"issue"}) = Total(q)
  <2>1. Total([e \in EI |-> e.quantity]) = Total([i \in I |-> ri[i].quantity])
    <3>1. /\ IsFiniteSet(I) /\ ri \in [I -> EI]
          /\ \A z \in EI : \E x \in I : ri[x] = z
          /\ \A x, y \in I : ri[x] = ri[y] => x = y
          /\ \A x \in I : ri[x].quantity \in Int
      <4>1. ri = [x \in I |-> ri[x]]
        OBVIOUS
      <4> HIDE DEF EI, ri, I
      <4> QED
        BY <1>1, <1>3, <1>5, <4>1
    <3> HIDE DEF EI, ri, I
    <3> QED
      BY ONLY <3>1, ListedTotal
  <2>2. [i \in I |-> ri[i].quantity] = q
    OBVIOUS
  <2> QED
    BY <2>1, <2>2, Zenon DEF Told
<1>8. q \in [I -> Int] /\ u \in [I -> Int] /\ \A i \in I : p[i] = q[i] - u[i]
  <2>1. ASSUME NEW i \in I
        PROVE  /\ d.issues[i].quantity \in Int
               /\ list_rows(d)[i].unmatched \in Int
               /\ Total(d.issues[i].parts) = d.issues[i].quantity - list_rows(d)[i].unmatched
    <3>1. list_rows(d)[i].unmatched =
            IF d.issues[i].quantity > Matched(d, i) THEN d.issues[i].quantity - Matched(d, i) ELSE 0
      BY DEF list_rows
    <3> QED
      BY <3>1, MatchedIsParts
  <2> QED
    BY <2>1
<1>9. Total([i \in I |-> q[i] - u[i]]) = Total(q) - Total(u)
  <2> HIDE DEF q, u, I
  <2> QED
    BY <1>1, <1>8, TotalSubtracts
<1>10. [i \in I |-> q[i] - u[i]] = p
  <2>1. p = [i \in I |-> p[i]]
    OBVIOUS
  <2> HIDE DEF q, u, p
  <2> QED
    BY <1>8, <2>1
<1>11. dashboard_stats(d).balance = Total([c \in C |-> d.cards[c].quantity]) - Total(p)
  BY DEF dashboard_stats
<1>12. Total(q) \in Int /\ Total(u) \in Int /\ Total([c \in C |-> d.cards[c].quantity]) \in Int
  <2>1. [c \in C |-> d.cards[c].quantity] \in [C -> Int]
    BY LeftOfLot
  <2> HIDE DEF q, u, I, C
  <2> QED
    BY <1>1, <1>8, <2>1, TotalIsInt
<1>13. Total(p) = Total(q) - Total(u)
  BY <1>9, <1>10, Zenon
<1> HIDE DEF H, C, I, rc, ri, EC, EI, q, p
<1>14. dashboard_stats(d).balance = Told(H, {"receipt"}) - Told(H, {"issue"}) + Total(u)
  <2> HIDE DEF u
  <2> QED
    BY <1>6, <1>7, <1>11, <1>12, <1>13
<1> QED
  BY <1>14 DEF u, H, I

\* The events of one card's history, by kind.
LEMMA EventsOfCard ==
  ASSUME NEW d, Kept(d), NEW lots, NEW target
  PROVE  LET H == History(d, lots, target)
         IN /\ {x \in H : x.event \in {"receipt"}} =
                 {[event |-> "receipt", of |-> c, quantity |-> d.cards[c].quantity] : c \in lots}
            /\ {x \in H : x.event \in {"issue"}} =
                 {[event |-> "issue", of |-> x, quantity |-> -d.issues[x[1]].parts[x[2]]] :
                    x \in {y \in (DOMAIN d.issues) \X lots : d.issues[y[1]].parts[y[2]] > 0}}
            /\ {x \in H : x.event \in {"component"}} =
                 {[event |-> "component", of |-> i, quantity |-> LinkedQuantity(d, i)] :
                    i \in for_target(d, target).operations}
<1> DEFINE H == History(d, lots, target)
           R == {[event |-> "receipt", of |-> c, quantity |-> d.cards[c].quantity] : c \in lots}
           G == {[event |-> "issue", of |-> x, quantity |-> -d.issues[x[1]].parts[x[2]]] :
                    x \in {y \in (DOMAIN d.issues) \X lots : d.issues[y[1]].parts[y[2]] > 0}}
           P == {[event |-> "component", of |-> i, quantity |-> LinkedQuantity(d, i)] :
                    i \in for_target(d, target).operations}
<1>1. H = R \cup G \cup P
  BY DEF History
<1>2. \A x \in R : x.event = "receipt"
  OBVIOUS
<1>3. \A x \in G : x.event = "issue"
  OBVIOUS
<1>4. \A x \in P : x.event = "component"
  OBVIOUS
<1>5. /\ {x \in H : x.event \in {"receipt"}} = R
      /\ {x \in H : x.event \in {"issue"}} = G
      /\ {x \in H : x.event \in {"component"}} = P
  <2> HIDE DEF H, R, G, P
  <2> QED
    BY <1>1, <1>2, <1>3, <1>4
<1> QED
  BY <1>5, Zenon

\* The write-offs of one card, told one by one.
LEMMA IssuesOfCard ==
  ASSUME NEW d, Kept(d), NEW c \in DOMAIN d.cards,
         NEW target, NEW H, H = History(d, {c}, target),
         NEW B, B = {x \in H : x.event \in {"issue"}}
  PROVE  /\ IsFiniteSet(B)
         /\ \A x \in B : x.quantity \in Int
         /\ Total([x \in B |-> x.quantity]) = -Allocated(d, c)
<1> DEFINE I == DOMAIN d.issues
           S == {i \in I : d.issues[i].parts[c] > 0}
           n == [i \in S |-> [event |-> "issue", of |-> <<i, c>>, quantity |-> -d.issues[i].parts[c]]]
           p == [i \in I |-> d.issues[i].parts[c]]
           ps == [i \in S |-> p[i]]
<1>0. B = {[event |-> "issue", of |-> x, quantity |-> -d.issues[x[1]].parts[x[2]]] :
                    x \in {y \in (DOMAIN d.issues) \X {c} : d.issues[y[1]].parts[y[2]] > 0}}
  <2>1. {x \in History(d, {c}, target) : x.event \in {"issue"}} =
          {[event |-> "issue", of |-> x, quantity |-> -d.issues[x[1]].parts[x[2]]] :
                    x \in {y \in (DOMAIN d.issues) \X {c} : d.issues[y[1]].parts[y[2]] > 0}}
    BY EventsOfCard
  <2> QED
    BY <2>1
<1>1. /\ IsFiniteSet(I) /\ c \in CardIds /\ \A i \in I : d.issues[i].parts[c] \in Nat
  BY KeptFacts
<1>2. S \in SUBSET I /\ IsFiniteSet(S)
  BY <1>1, FS_Subset
<1>3. n \in [S -> B]
  <2>1. ASSUME NEW i \in S PROVE n[i] \in B
    <3>1. <<i, c>> \in {y \in (DOMAIN d.issues) \X {c} : d.issues[y[1]].parts[y[2]] > 0}
      OBVIOUS
    <3> QED
      BY <1>0, <3>1
  <2> QED
    BY <2>1
<1>4. \A x, y \in S : n[x] = n[y] => x = y
  <2>1. \A x \in S : n[x].of[1] = x
    OBVIOUS
  <2> HIDE DEF n
  <2> QED
    BY <2>1
<1>5. ASSUME NEW z \in B PROVE \E i \in S : n[i] = z
  <2>1. PICK x \in {y \in (DOMAIN d.issues) \X {c} : d.issues[y[1]].parts[y[2]] > 0} :
           z = [event |-> "issue", of |-> x, quantity |-> -d.issues[x[1]].parts[x[2]]]
    BY <1>0
  <2>2. x[1] \in S /\ x[2] = c /\ x = <<x[1], c>>
    OBVIOUS
  <2>3. n[x[1]] = [event |-> "issue", of |-> <<x[1], c>>, quantity |-> -d.issues[x[1]].parts[c]]
    BY <2>2
  <2>4. n[x[1]] = z
    BY <2>1, <2>2, <2>3
  <2> QED
    BY <2>2, <2>4
<1>6. \A i \in S : n[i].quantity = -p[i] /\ n[i].quantity \in Int
  BY <1>1
<1>7. /\ IsFiniteSet(B) /\ \A x \in B : x.quantity \in Int
      /\ Total([x \in B |-> x.quantity]) = Total([i \in S |-> n[i].quantity])
  <2>1. \A i \in S : n[i].quantity \in Int
    BY <1>6
  <2> HIDE DEF S, n
  <2> QED
    BY ONLY <1>2, <1>3, <1>4, <1>5, <2>1, ListedTotal
<1>8. [i \in S |-> n[i].quantity] = [i \in S |-> -ps[i]]
  BY <1>6
<1>9. p \in [I -> Int] /\ ps \in [S -> Int] /\ \A i \in I \ S : p[i] = 0
  BY <1>1
<1>10. Total([i \in S |-> -ps[i]]) = -Total(ps)
  <2> HIDE DEF S, ps
  <2> QED
    BY <1>2, <1>9, TotalNegates
<1>11. Total(p) = Total(ps)
  <2>1. Total(p) = Total([i \in S |-> p[i]])
    <3> HIDE DEF S, p, I
    <3> QED
      BY ONLY <1>1, <1>2, <1>9, TotalWithin
  <2> QED
    BY <2>1
<1>12. Allocated(d, c) = Total(p)
  BY DEF Allocated
<1> HIDE DEF I, S, n, p, ps
<1>13. Total([x \in B |-> x.quantity]) = -Allocated(d, c)
  BY <1>7, <1>8, <1>10, <1>11, <1>12
<1> QED
  BY <1>7, <1>13

\* What a card tells of itself.
LEMMA CardTellsItself ==
  ASSUME NEW d, Kept(d), NEW c \in DOMAIN d.cards
  PROVE  LET Shown == position_card(d, {c})
         IN /\ Told(Shown.history, {"receipt", "issue"}) = Shown.balance
            /\ Shown.balance \in 0..d.cards[c].quantity
            /\ Shown.balance = Left(d, c)
<1> DEFINE H == position_card(d, {c}).history
           A == {x \in H : x.event \in {"receipt"}}
           B == {x \in H : x.event \in {"issue"}}
           one == [event |-> "receipt", of |-> c, quantity |-> d.cards[c].quantity]
<1>0. PICK target : H = History(d, {c}, target)
  BY DEF position_card
<1>1. /\ A = {[event |-> "receipt", of |-> x, quantity |-> d.cards[x].quantity] : x \in {c}}
      /\ B = {[event |-> "issue", of |-> x, quantity |-> -d.issues[x[1]].parts[x[2]]] :
                 x \in {y \in (DOMAIN d.issues) \X {c} : d.issues[y[1]].parts[y[2]] > 0}}
  <2> HIDE DEF H
  <2> QED
    BY <1>0, EventsOfCard
<1>2. A = {one}
  BY <1>1
<1>3. /\ Left(d, c) \in Nat /\ d.cards[c].quantity \in Nat /\ Left(d, c) <= d.cards[c].quantity
      /\ Allocated(d, c) \in Nat /\ d.cards[c].quantity = Left(d, c) + Allocated(d, c)
  BY LeftOfLot
<1>4. /\ IsFiniteSet(A) /\ \A x \in A : x.quantity \in Int
      /\ Total([x \in A |-> x.quantity]) = d.cards[c].quantity
  <2>1. [x \in {one} |-> x.quantity] \in [{one} -> Int] /\ IsFiniteSet({one})
        /\ [x \in {one} |-> x.quantity][one] = one.quantity /\ one.quantity = d.cards[c].quantity
    <3>1. one.quantity = d.cards[c].quantity
      OBVIOUS
    <3> HIDE DEF one
    <3>2. [x \in {one} |-> x.quantity][one] = one.quantity
      OBVIOUS
    <3>3. [x \in {one} |-> x.quantity] \in [{one} -> Int]
      BY <1>3, <3>1
    <3> QED
      BY <3>1, <3>2, <3>3, FS_Singleton
  <2>2. Total([x \in {one} |-> x.quantity]) = [x \in {one} |-> x.quantity][one]
    <3> HIDE DEF one
    <3> QED
      BY <2>1, TotalOfOne
  <2>3. \A x \in {one} : x.quantity \in Int
    BY <1>3
  <2> HIDE DEF A, one
  <2> QED
    BY <1>2, <2>1, <2>2, <2>3
<1>5. /\ IsFiniteSet(B) /\ \A x \in B : x.quantity \in Int
      /\ Total([x \in B |-> x.quantity]) = -Allocated(d, c)
  <2> HIDE DEF H
  <2> QED
    BY <1>0, IssuesOfCard
<1>6. Told(H, {"receipt", "issue"}) = Told(H, {"receipt"}) + Told(H, {"issue"})
  <2>1. A = {x \in H : x.event \in {"receipt"}} /\ B = {x \in H : x.event \in {"issue"}}
    OBVIOUS
  <2>2. \A x \in A \cup B : x.quantity \in Int
    BY <1>4, <1>5
  <2>3. "receipt" # "issue"
    OBVIOUS
  <2> HIDE DEF A, B, H
  <2> QED
    BY ONLY <1>4, <1>5, <2>1, <2>2, <2>3, ToldBoth
<1>7. Told(H, {"receipt"}) = d.cards[c].quantity /\ Told(H, {"issue"}) = -Allocated(d, c)
  BY <1>4, <1>5 DEF Told
<1>8. position_card(d, {c}).balance = Left(d, c)
  <2>1. [x \in {c} |-> Left(d, x)] \in [{c} -> Int] /\ [x \in {c} |-> Left(d, x)][c] = Left(d, c)
    BY <1>3
  <2>2. position_card(d, {c}).balance = Total([x \in {c} |-> Left(d, x)])
    BY DEF position_card, LeftOf
  <2> QED
    BY <2>1, <2>2, TotalOfOne
<1> HIDE DEF H
<1>9. Told(H, {"receipt", "issue"}) = Left(d, c)
  BY <1>3, <1>6, <1>7
<1> QED
  BY <1>3, <1>8, <1>9 DEF H

\* The key of a card's position opens the lots of the positions with this key.
LEMMA KeyOpens ==
  ASSUME NEW d, Kept(d), NEW c \in DOMAIN d.cards
  PROVE  LET key == position_key(d.cards[c])
         IN /\ c \in lots_of_key(d, key)
            /\ position_card(d, lots_of_key(d, key)).balance =
                 InPositions(d, {k \in Positions(d) : position_key(k) = key})
<1> DEFINE key == position_key(d.cards[c])
           S == {k \in Positions(d) : position_key(k) = key}
           lots == {x \in DOMAIN d.cards : Key(d.cards[x]) \in S}
<1>1. \A x \in DOMAIN d.cards : position_key(Key(d.cards[x])) = position_key(d.cards[x])
  BY DEF position_key, Key
<1>2. \A x \in DOMAIN d.cards : Key(d.cards[x]) \in Positions(d)
  BY DEF Positions
<1>3. lots = {x \in DOMAIN d.cards : position_key(d.cards[x]) = key}
  <2> HIDE DEF key
  <2> QED
    BY <1>1, <1>2
<1>4. lots_of_key(d, key) = {x \in DOMAIN d.cards : position_key(d.cards[x]) = key}
  BY DEF lots_of_key, position_key, WithSerial, LotsOfItem
<1>5. InPositions(d, S) = LeftOf(d, lots)
  <2>1. S \in SUBSET Positions(d)
    OBVIOUS
  <2> HIDE DEF S
  <2> QED
    BY <2>1, PositionsAreLots
<1>6. position_card(d, lots_of_key(d, key)).balance = LeftOf(d, lots_of_key(d, key))
  BY DEF position_card
<1>7. c \in lots_of_key(d, key)
  BY <1>4
<1>8. lots = lots_of_key(d, key)
  BY <1>3, <1>4
<1> HIDE DEF lots, S, key
<1>9. position_card(d, lots_of_key(d, key)).balance = InPositions(d, S)
  BY <1>5, <1>6, <1>8
<1> QED
  BY <1>7, <1>9 DEF key, S

-----------------------------------------------------------------------------
(* Scans, searches and targets. *)

\* What a row took for its target is the quantity of the row.
LEMMA LinkedIsQuantity ==
  ASSUME NEW d, Kept(d), NEW i \in DOMAIN d.issues
  PROVE  LinkedQuantity(d, i) = d.issues[i].quantity /\ d.issues[i].quantity \in Int
BY MatchedIsParts DEF LinkedQuantity

\* What was written off to an equipment, as its card tells it.
LEMMA ComponentsTold ==
  ASSUME NEW d, Kept(d), NEW s \in Serials, WithSerial(d, s) # {}
  PROVE  Told(position_card(d, WithSerial(d, s)).history, {"component"}) = for_target(d, s).quantity
<1> DEFINE W == WithSerial(d, s)
           P == for_target(d, s).operations
           n == [i \in P |-> [event |-> "component", of |-> i, quantity |-> LinkedQuantity(d, i)]]
           B == {x \in History(d, W, s) : x.event \in {"component"}}
<1>1. Min(W) \in W
  <2>1. W \in SUBSET Nat
    <3>1. DOMAIN d.cards \subseteq CardIds /\ CardIds \subseteq Nat
      BY KeptFacts
    <3> QED
      BY <3>1 DEF WithSerial
  <2>2. PICK m \in W : \A k \in W : m <= k
    BY <2>1, Least
  <2> QED
    BY <2>2 DEF Min
<1>2. position_card(d, W).history = History(d, W, s)
  <2>1. d.cards[Min(W)].serial = s
    BY <1>1 DEF WithSerial
  <2> QED
    BY <2>1 DEF position_card
<1>3. /\ B = {[event |-> "component", of |-> i, quantity |-> LinkedQuantity(d, i)] :
               i \in for_target(d, s).operations}
  BY EventsOfCard
<1>4. P \in SUBSET DOMAIN d.issues /\ IsFiniteSet(P)
  <2>1. P \in SUBSET DOMAIN d.issues
    BY DEF for_target
  <2> QED
    BY <2>1, KeptFacts, FS_Subset
<1>5. /\ n \in [P -> B]
      /\ \A z \in B : \E i \in P : n[i] = z
      /\ \A i \in P : n[i].quantity = LinkedQuantity(d, i) /\ n[i].of = i
  BY <1>3
<1>6. \A i \in P : n[i].quantity \in Int
  BY <1>4, <1>5, LinkedIsQuantity
<1>7. Total([x \in B |-> x.quantity]) = Total([i \in P |-> n[i].quantity])
  <2>1. \A x, y \in P : n[x] = n[y] => x = y
    <3> HIDE DEF n, P
    <3> QED
      BY <1>5
  <2> HIDE DEF P, n, B
  <2> QED
    BY ONLY <1>4, <1>5, <1>6, <2>1, ListedTotal
<1>8. [i \in P |-> n[i].quantity] = [i \in P |-> LinkedQuantity(d, i)]
  BY <1>5
<1>9. for_target(d, s).quantity = Total([i \in P |-> LinkedQuantity(d, i)])
  BY DEF for_target
<1>10. Told(History(d, W, s), {"component"}) = Total([x \in B |-> x.quantity])
  BY DEF Told
<1> HIDE DEF W, P, n, B
<1>11. Told(position_card(d, W).history, {"component"}) = for_target(d, s).quantity
  BY <1>2, <1>7, <1>8, <1>9, <1>10
<1> QED
  BY <1>11 DEF W

\* The same, as the events of a report tell it.
LEMMA TargetEvents ==
  ASSUME NEW d, Kept(d), NEW s \in Serials
  PROVE  for_target(d, s).quantity =
           Total([e \in {x \in issue_events(d) : d.issues[x.issue].target = s} |-> e.quantity])
<1> DEFINE P == for_target(d, s).operations
           B == {x \in issue_events(d) : d.issues[x.issue].target = s}
           n == [i \in P |-> [issue |-> i, quantity |-> d.issues[i].quantity,
                              parts |-> {c \in DOMAIN d.cards : d.issues[i].parts[c] > 0}]]
<1>1. P = {i \in DOMAIN d.issues : d.issues[i].target = s}
  BY MarkersAssumption DEF for_target, MarkersAssumption
<1>2. IsFiniteSet(P) /\ P \in SUBSET DOMAIN d.issues
  BY <1>1, KeptFacts, FS_Subset
<1>3. B = {[issue |-> i, quantity |-> d.issues[i].quantity,
            parts |-> {c \in DOMAIN d.cards : d.issues[i].parts[c] > 0}] : i \in P}
  BY <1>1 DEF issue_events
<1>4. /\ n \in [P -> B]
      /\ \A z \in B : \E i \in P : n[i] = z
      /\ \A i \in P : n[i].quantity = d.issues[i].quantity /\ n[i].issue = i
  <2> HIDE DEF B, P
  <2> QED
    BY <1>3
<1>5. \A i \in P : n[i].quantity \in Int /\ n[i].quantity = LinkedQuantity(d, i)
  BY <1>2, <1>4, LinkedIsQuantity
<1>6. Total([x \in B |-> x.quantity]) = Total([i \in P |-> n[i].quantity])
  <2>1. \A x, y \in P : n[x] = n[y] => x = y
    <3> HIDE DEF n, P
    <3> QED
      BY <1>4
  <2> HIDE DEF P, n, B
  <2> QED
    BY ONLY <1>2, <1>4, <1>5, <2>1, ListedTotal
<1>7. [i \in P |-> n[i].quantity] = [i \in P |-> LinkedQuantity(d, i)]
  BY <1>5
<1>8. for_target(d, s).quantity = Total([i \in P |-> LinkedQuantity(d, i)])
  BY DEF for_target
<1> HIDE DEF P, n, B
<1>9. for_target(d, s).quantity = Total([x \in B |-> x.quantity])
  BY <1>6, <1>7, <1>8
<1> QED
  BY <1>9 DEF B

\* A scanned S/N is found when a lot of it has stock, and so do the card and a
\* write-off tell.
LEMMA FoundInStock ==
  ASSUME NEW d, Kept(d), NEW s \in Serials
  PROVE  /\ (inventory_compare(d, {s}).found = {s})
              <=> (position_card(d, WithSerial(d, s)).status = "in stock")
         /\ (inventory_compare(d, {s}).found = {s}) <=> (AvailableBySerial(d, s) # {})
<1>0. s # NoSerial
  BY MarkersAssumption DEF MarkersAssumption
<1>1. AvailableBySerial(d, s) # {} <=> \E c \in DOMAIN d.cards : d.cards[c].serial = s /\ Left(d, c) > 0
  BY <1>0, LeftOfLot DEF AvailableBySerial, WithSerial
<1>2. inventory_compare(d, {s}).found = {s} <=> \E k \in Positive(d) : k.serial = s
  BY <1>0 DEF inventory_compare
<1>3. (\E k \in Positive(d) : k.serial = s)
        <=> \E c \in DOMAIN d.cards : d.cards[c].serial = s /\ Left(d, c) > 0
  <2>1. \A c \in DOMAIN d.cards : Key(d.cards[c]) \in Positions(d) /\ Key(d.cards[c]).serial = d.cards[c].serial
    BY DEF Positions, Key
  <2> QED
    BY <2>1, PositionFacts
<1>4. LeftOf(d, WithSerial(d, s)) > 0 <=> \E c \in DOMAIN d.cards : d.cards[c].serial = s /\ Left(d, c) > 0
  <2>1. WithSerial(d, s) \in SUBSET DOMAIN d.cards
    BY DEF WithSerial
  <2>2. LeftOf(d, WithSerial(d, s)) > 0 <=> \E c \in WithSerial(d, s) : Left(d, c) > 0
    BY <2>1, LeftOfLots
  <2> QED
    BY <1>0, <2>2 DEF WithSerial
<1>5. position_card(d, WithSerial(d, s)).status = "in stock" <=> LeftOf(d, WithSerial(d, s)) > 0
  BY DEF position_card
<1> QED
  BY <1>1, <1>2, <1>3, <1>4, <1>5

\* An S/N that a card carries is searched for among the identifiers.
LEMMA SearchIsExact ==
  ASSUME NEW d, NEW s, WithSerial(d, s) # {}
  PROVE  global_search(d, s) = lots_of_key(d, <<"sn", s>>) \cup WithInventory(d, s)
BY DEF global_search, exact_identifiers, lots_of_key

-----------------------------------------------------------------------------
(* One picture. *)

LEMMA OnePicture == AccountsInv => OnePictureOfStock
<1> SUFFICES ASSUME AccountsInv PROVE OnePictureOfStock
  OBVIOUS
<1>0. Kept(db)
  BY DEF Kept, AccountsInv, IInv
<1> DEFINE board == dashboard_stats(db)
           types == warehouse_type_summary(db)
<1>1. BalancedIn(db)
  BY <1>0 DEF Kept
<1>2. /\ board.balance = InPositions(db, Positions(db))
      /\ board.balance = board.equipment + board.cables
      /\ board.balance = Total([t \in DOMAIN types |-> types[t].quantity])
      /\ board.positions = Total([t \in DOMAIN types |-> types[t].positions])
  BY <1>0, BoardIsPositions, BoardIsKinds, BoardIsTypes
<1>3. /\ board.balance = CategoryTotal(stock_tree(db, "any"))
      /\ board.balance = CategoryTotal(stock_tree(db, "positive"))
  BY <1>0, BoardIsTree
<1>4. board.cables = Total(cable_balance(db)) /\ board.balance = Total(warehouse_categories(db))
  BY <1>0, BoardIsCables, BoardIsCategories
<1>5. board.balance = Told(warehouse_history(db), {"receipt"})
                        - Told(warehouse_history(db), {"issue"})
                        + Total([i \in DOMAIN db.issues |-> list_rows(db)[i].unmatched])
  BY <1>0, BoardIsHistory
<1>6. ASSUME NEW c \in DOMAIN db.cards
      PROVE  LET key == position_key(db.cards[c])
             IN /\ Told(position_card(db, {c}).history, {"receipt", "issue"})
                     = position_card(db, {c}).balance
                /\ position_card(db, {c}).balance \in 0..db.cards[c].quantity
                /\ c \in lots_of_key(db, key)
                /\ position_card(db, lots_of_key(db, key)).balance =
                     InPositions(db, {k \in Positions(db) : position_key(k) = key})
  BY <1>0, CardTellsItself, KeyOpens
<1>7. ASSUME NEW s \in Serials
      PROVE  LET seen == inventory_compare(db, {s})
                 card == position_card(db, WithSerial(db, s))
             IN /\ WithSerial(db, s) # {} =>
                     /\ Told(card.history, {"component"}) = for_target(db, s).quantity
                     /\ global_search(db, s) = lots_of_key(db, <<"sn", s>>) \cup WithInventory(db, s)
                /\ (seen.found = {s}) = (card.status = "in stock")
                /\ (seen.found = {s}) = (AvailableBySerial(db, s) # {})
                /\ for_target(db, s).quantity =
                     Total([e \in {x \in issue_events(db) : db.issues[x.issue].target = s}
                              |-> e.quantity])
  <2>1. /\ (inventory_compare(db, {s}).found = {s})
             <=> (position_card(db, WithSerial(db, s)).status = "in stock")
        /\ (inventory_compare(db, {s}).found = {s}) <=> (AvailableBySerial(db, s) # {})
    BY <1>0, FoundInStock
  <2>2. /\ (inventory_compare(db, {s}).found = {s})
             = (position_card(db, WithSerial(db, s)).status = "in stock")
        /\ (inventory_compare(db, {s}).found = {s}) = (AvailableBySerial(db, s) # {})
    BY <2>1
  <2> QED
    BY <1>0, <2>2, ComponentsTold, SearchIsExact, TargetEvents
<1>8. ASSUME NEW i \in DOMAIN db.issues
      PROVE  (list_rows(db)[i].status = "posted") = (db.issues[i].status = "matched")
  <2>1. list_rows(db)[i].status = IF db.issues[i].quantity > Matched(db, i) THEN "not matched" ELSE "posted"
    BY DEF list_rows
  <2>2. list_rows(db)[i].status = "posted" <=> db.issues[i].status = "matched"
    <3>1. /\ Matched(db, i) = IF db.issues[i].status = "matched" THEN db.issues[i].quantity ELSE 0
          /\ db.issues[i].quantity \in Nat \ {0}
          /\ db.issues[i].status \in {"matched", "unmatched"}
      BY <1>0, MatchedIsParts
    <3>2. db.issues[i].quantity > Matched(db, i) <=> db.issues[i].status # "matched"
      BY <3>1
    <3> QED
      BY <2>1, <3>2
  <2> QED
    BY <2>2
<1> QED
  BY <1>1, <1>2, <1>3, <1>4, <1>5, <1>6, <1>7, <1>8, Zenon DEF OnePictureOfStock

-----------------------------------------------------------------------------
(* The rules of the groups. *)

LEMMA FirstArm ==
  ASSUME NEW N \in SUBSET Nat, NEW n \in N, \A i \in N : n <= i
  PROVE  Min(N) = n
<1>1. \A x \in N : (\A y \in N : x <= y) => x = n
  OBVIOUS
<1> QED
  BY <1>1 DEF Min

\* The three rules of the groups place every card alike.
LEMMA GroupsAreOne == GroupsAgree
<1> SUFFICES ASSUME NEW e \in ItemTypes, NEW c \in ItemTypes, NEW k \in CableTypes
             PROVE  operational_category(e, c, k) = category_sql(e, c, k)
  BY DEF GroupsAgree
<1> DEFINE item == IF c # "" THEN c ELSE e
           arms == <<<<k = "assembly", "assemblies">>, <<k # "", "cables">>,
                <<item = "transceiver", "transceivers">>, <<item = "memory", "memory">>,
                <<item = "drive", "drives">>, <<item = "adapter", "adapters">>,
                <<item = "accessory", "other">>, <<c = "other", "other">>,
                <<c # "", "components">>, <<e = "other", "other">>,
                <<e # "", "equipment">>, <<TRUE, "other">>>>
           N == {i \in DOMAIN arms : arms[i][1]}
           group == operational_category(e, c, k)
<1>1. category_sql(e, c, k) = arms[Min(N)][2]
  BY DEF category_sql
<1>2. DOMAIN arms = 1..12
  OBVIOUS
<1>3. /\ arms[1][1] <=> k = "assembly"
      /\ arms[2][1] <=> k # ""
      /\ arms[3][1] <=> item = "transceiver"
      /\ arms[4][1] <=> item = "memory"
      /\ arms[5][1] <=> item = "drive"
      /\ arms[6][1] <=> item = "adapter"
      /\ arms[7][1] <=> item = "accessory"
      /\ arms[8][1] <=> c = "other"
      /\ arms[9][1] <=> c # ""
      /\ arms[10][1] <=> e = "other"
      /\ arms[11][1] <=> e # ""
      /\ arms[12][1]
  OBVIOUS
<1>4. /\ arms[1][2] = "assemblies" /\ arms[2][2] = "cables" /\ arms[3][2] = "transceivers"
      /\ arms[4][2] = "memory" /\ arms[5][2] = "drives" /\ arms[6][2] = "adapters"
      /\ arms[7][2] = "other" /\ arms[8][2] = "other" /\ arms[9][2] = "components"
      /\ arms[10][2] = "other" /\ arms[11][2] = "equipment" /\ arms[12][2] = "other"
  OBVIOUS
<1>5. /\ N \subseteq 1..12
      /\ \A n \in 1..12 : n \in N <=> arms[n][1]
  <2> HIDE DEF arms
  <2> QED
    BY <1>2
<1>6. /\ 1 \in N <=> k = "assembly"
      /\ 2 \in N <=> k # ""
      /\ 3 \in N <=> item = "transceiver"
      /\ 4 \in N <=> item = "memory"
      /\ 5 \in N <=> item = "drive"
      /\ 6 \in N <=> item = "adapter"
      /\ 7 \in N <=> item = "accessory"
      /\ 8 \in N <=> c = "other"
      /\ 9 \in N <=> c # ""
      /\ 10 \in N <=> e = "other"
      /\ 11 \in N <=> e # ""
      /\ 12 \in N
  <2>1. 1 \in 1..12 /\ 2 \in 1..12 /\ 3 \in 1..12 /\ 4 \in 1..12 /\ 5 \in 1..12 /\ 6 \in 1..12
        /\ 7 \in 1..12 /\ 8 \in 1..12 /\ 9 \in 1..12 /\ 10 \in 1..12 /\ 11 \in 1..12 /\ 12 \in 1..12
    OBVIOUS
  <2> HIDE DEF arms, item, N
  <2> QED
    BY <1>3, <1>5, <2>1, Zenon
<1>7. ASSUME NEW n \in N, \A i \in 1..12 : i \in N => n <= i
      PROVE  category_sql(e, c, k) = arms[n][2]
  <2>1. Min(N) = n
    <3>1. N \in SUBSET Nat /\ \A i \in N : n <= i
      <4> HIDE DEF N, arms
      <4> QED
        BY <1>5, <1>7
    <3> HIDE DEF N
    <3> QED
      BY <3>1, FirstArm
  <2> HIDE DEF N, arms
  <2> QED
    BY <1>1, <2>1
<1>8. group = IF k # "" THEN IF k = "assembly" THEN "assemblies" ELSE "cables"
              ELSE IF item \in DOMAIN TypeGroup THEN TypeGroup[item]
              ELSE IF c # "" THEN IF c = "other" THEN "other" ELSE "components"
              ELSE IF e \in {"", "other"} THEN "other" ELSE "equipment"
  BY DEF operational_category
<1>9. /\ \A t : t \in DOMAIN TypeGroup <=>
                  t \in {"transceiver", "memory", "drive", "adapter", "accessory"}
      /\ TypeGroup["transceiver"] = "transceivers" /\ TypeGroup["memory"] = "memory"
      /\ TypeGroup["drive"] = "drives" /\ TypeGroup["adapter"] = "adapters"
      /\ TypeGroup["accessory"] = "other"
  BY DEF TypeGroup
<1>10. item = (IF c # "" THEN c ELSE e)
  OBVIOUS
<1> HIDE DEF item, arms, N, group
<1>11. CASE k = "assembly"
  <2>1. 1 \in N
    BY <1>6, <1>9, <1>10, <1>11
  <2>2. \A i \in 1..12 : i \in N => 1 <= i
    BY <2>1
  <2>3. category_sql(e, c, k) = arms[1][2]
    BY <1>7, <2>1, <2>2
  <2> QED
    BY <1>4, <1>8, <1>9, <1>10, <1>11, <2>3 DEF group
<1>12. CASE k # "" /\ k # "assembly"
  <2>1. 2 \in N /\ 1 \notin N
    BY <1>6, <1>9, <1>10, <1>12
  <2>2. \A i \in 1..12 : i \in N => 2 <= i
    BY <2>1
  <2>3. category_sql(e, c, k) = arms[2][2]
    BY <1>7, <2>1, <2>2
  <2> QED
    BY <1>4, <1>8, <1>9, <1>10, <1>12, <2>3 DEF group
<1>13. CASE k = "" /\ item = "transceiver"
  <2>1. 3 \in N /\ 1 \notin N /\ 2 \notin N
    BY <1>6, <1>9, <1>10, <1>13
  <2>2. \A i \in 1..12 : i \in N => 3 <= i
    BY <2>1
  <2>3. category_sql(e, c, k) = arms[3][2]
    BY <1>7, <2>1, <2>2
  <2> QED
    BY <1>4, <1>8, <1>9, <1>10, <1>13, <2>3 DEF group
<1>14. CASE k = "" /\ item = "memory"
  <2>1. 4 \in N /\ 1 \notin N /\ 2 \notin N /\ 3 \notin N
    BY <1>6, <1>9, <1>10, <1>14
  <2>2. \A i \in 1..12 : i \in N => 4 <= i
    BY <2>1
  <2>3. category_sql(e, c, k) = arms[4][2]
    BY <1>7, <2>1, <2>2
  <2> QED
    BY <1>4, <1>8, <1>9, <1>10, <1>14, <2>3 DEF group
<1>15. CASE k = "" /\ item = "drive"
  <2>1. 5 \in N /\ 1 \notin N /\ 2 \notin N /\ 3 \notin N /\ 4 \notin N
    BY <1>6, <1>9, <1>10, <1>15
  <2>2. \A i \in 1..12 : i \in N => 5 <= i
    BY <2>1
  <2>3. category_sql(e, c, k) = arms[5][2]
    BY <1>7, <2>1, <2>2
  <2> QED
    BY <1>4, <1>8, <1>9, <1>10, <1>15, <2>3 DEF group
<1>16. CASE k = "" /\ item = "adapter"
  <2>1. 6 \in N /\ 1 \notin N /\ 2 \notin N /\ 3 \notin N /\ 4 \notin N /\ 5 \notin N
    BY <1>6, <1>9, <1>10, <1>16
  <2>2. \A i \in 1..12 : i \in N => 6 <= i
    BY <2>1
  <2>3. category_sql(e, c, k) = arms[6][2]
    BY <1>7, <2>1, <2>2
  <2> QED
    BY <1>4, <1>8, <1>9, <1>10, <1>16, <2>3 DEF group
<1>17. CASE k = "" /\ item = "accessory"
  <2>1. 7 \in N /\ 1 \notin N /\ 2 \notin N /\ 3 \notin N /\ 4 \notin N /\ 5 \notin N /\ 6 \notin N
    BY <1>6, <1>9, <1>10, <1>17
  <2>2. \A i \in 1..12 : i \in N => 7 <= i
    BY <2>1
  <2>3. category_sql(e, c, k) = arms[7][2]
    BY <1>7, <2>1, <2>2
  <2> QED
    BY <1>4, <1>8, <1>9, <1>10, <1>17, <2>3 DEF group
<1>18. CASE k = "" /\ item \notin DOMAIN TypeGroup /\ c = "other"
  <2>1. 8 \in N /\ 1 \notin N /\ 2 \notin N /\ 3 \notin N /\ 4 \notin N /\ 5 \notin N /\ 6 \notin N /\ 7 \notin N
    BY <1>6, <1>9, <1>10, <1>18
  <2>2. \A i \in 1..12 : i \in N => 8 <= i
    BY <2>1
  <2>3. category_sql(e, c, k) = arms[8][2]
    BY <1>7, <2>1, <2>2
  <2> QED
    BY <1>4, <1>8, <1>9, <1>10, <1>18, <2>3 DEF group
<1>19. CASE k = "" /\ item \notin DOMAIN TypeGroup /\ c # "" /\ c # "other"
  <2>1. 9 \in N /\ 1 \notin N /\ 2 \notin N /\ 3 \notin N /\ 4 \notin N /\ 5 \notin N /\ 6 \notin N /\ 7 \notin N /\ 8 \notin N
    BY <1>6, <1>9, <1>10, <1>19
  <2>2. \A i \in 1..12 : i \in N => 9 <= i
    BY <2>1
  <2>3. category_sql(e, c, k) = arms[9][2]
    BY <1>7, <2>1, <2>2
  <2> QED
    BY <1>4, <1>8, <1>9, <1>10, <1>19, <2>3 DEF group
<1>20. CASE k = "" /\ item \notin DOMAIN TypeGroup /\ c = "" /\ e = "other"
  <2>1. 10 \in N /\ 1 \notin N /\ 2 \notin N /\ 3 \notin N /\ 4 \notin N /\ 5 \notin N /\ 6 \notin N /\ 7 \notin N /\ 8 \notin N /\ 9 \notin N
    BY <1>6, <1>9, <1>10, <1>20
  <2>2. \A i \in 1..12 : i \in N => 10 <= i
    BY <2>1
  <2>3. category_sql(e, c, k) = arms[10][2]
    BY <1>7, <2>1, <2>2
  <2> QED
    BY <1>4, <1>8, <1>9, <1>10, <1>20, <2>3 DEF group
<1>21. CASE k = "" /\ item \notin DOMAIN TypeGroup /\ c = "" /\ e # "" /\ e # "other"
  <2>1. 11 \in N /\ 1 \notin N /\ 2 \notin N /\ 3 \notin N /\ 4 \notin N /\ 5 \notin N /\ 6 \notin N /\ 7 \notin N /\ 8 \notin N /\ 9 \notin N /\ 10 \notin N
    BY <1>6, <1>9, <1>10, <1>21
  <2>2. \A i \in 1..12 : i \in N => 11 <= i
    BY <2>1
  <2>3. category_sql(e, c, k) = arms[11][2]
    BY <1>7, <2>1, <2>2
  <2> QED
    BY <1>4, <1>8, <1>9, <1>10, <1>21, <2>3 DEF group
<1>22. CASE k = "" /\ item \notin DOMAIN TypeGroup /\ c = "" /\ e = ""
  <2>1. 12 \in N /\ 1 \notin N /\ 2 \notin N /\ 3 \notin N /\ 4 \notin N /\ 5 \notin N /\ 6 \notin N /\ 7 \notin N /\ 8 \notin N /\ 9 \notin N /\ 10 \notin N /\ 11 \notin N
    BY <1>6, <1>9, <1>10, <1>22
  <2>2. \A i \in 1..12 : i \in N => 12 <= i
    BY <2>1
  <2>3. category_sql(e, c, k) = arms[12][2]
    BY <1>7, <2>1, <2>2
  <2> QED
    BY <1>4, <1>8, <1>9, <1>10, <1>22, <2>3 DEF group
<1> QED
  BY <1>9, <1>11, <1>12, <1>13, <1>14, <1>15, <1>16, <1>17, <1>18, <1>19, <1>20, <1>21, <1>22

-----------------------------------------------------------------------------
(* The lists of problems. *)

\* Cards that share an S/N, once for the S/N and each for itself.
LEMMA DuplicatesAreMany ==
  ASSUME NEW d, Kept(d)
  PROVE  LET D == duplicate_serials(d)
         IN Cardinality(UNION {WithSerial(d, s) : s \in D}) >= 2 * Cardinality(D)
<1> DEFINE D == duplicate_serials(d)
           U == UNION {WithSerial(d, s) : s \in D}
           key == [c \in U |-> d.cards[c].serial]
           one == [c \in U |-> 1]
           Group(s) == {c \in U : key[c] = s}
           size == [s \in D |-> Cardinality(WithSerial(d, s))]
           ones == [s \in D |-> 1]
           two == [s \in D |-> ones[s] + ones[s]]
<1>1. U \in SUBSET DOMAIN d.cards /\ IsFiniteSet(U)
  <2>1. U \in SUBSET DOMAIN d.cards
    BY DEF WithSerial
  <2> QED
    BY <2>1, KeptFacts, FS_Subset
<1>2. \A s \in D : /\ IsFiniteSet(WithSerial(d, s)) /\ Cardinality(WithSerial(d, s)) \in Nat
                   /\ Cardinality(WithSerial(d, s)) >= 2
                   /\ WithSerial(d, s) # {}
  <2> TAKE s \in D
  <2>1. IsFiniteSet(WithSerial(d, s))
    <3>1. WithSerial(d, s) \in SUBSET DOMAIN d.cards
      BY DEF WithSerial
    <3> QED
      BY <3>1, KeptFacts, FS_Subset
  <2>2. Cardinality(WithSerial(d, s)) > 1
    BY DEF duplicate_serials
  <2>3. Cardinality(WithSerial(d, s)) \in Nat
    BY <2>1, FS_CardinalityType
  <2>4. WithSerial(d, s) # {}
    BY <2>2, FS_EmptySet
  <2> QED
    BY <2>1, <2>2, <2>3, <2>4
<1>3. key \in [U -> D]
  BY DEF WithSerial
<1>4. \A s \in D : Group(s) = WithSerial(d, s)
  BY DEF WithSerial
<1>5. IsFiniteSet(D)
  <2>1. \A s \in D : \E c \in U : key[c] = s
    <3> TAKE s \in D
    <3>1. PICK c \in Group(s) : TRUE
      BY <1>2, <1>4
    <3> QED
      BY <3>1
  <2>2. key \in Surjection(U, D)
    <3> HIDE DEF U, D, key
    <3> QED
      BY <1>3, <2>1 DEF Surjection
  <2> HIDE DEF U, D, key
  <2> QED
    BY <1>1, <2>2, FS_Surjection
<1>6. one \in [U -> Int] /\ ones \in [D -> Int] /\ two \in [D -> Int] /\ \A s \in D : two[s] = 2
  OBVIOUS
<1>7. Cardinality(U) = Total(one)
  <2> HIDE DEF U
  <2> QED
    BY <1>1, TotalOfOnes
<1>8. Total(one) = Total([s \in D |-> Total([c \in {y \in U : key[y] = s} |-> one[c]])])
  <2> HIDE DEF U, D, key, one
  <2> QED
    BY <1>1, <1>3, <1>5, <1>6, TotalOfGroups
<1>9. ASSUME NEW s \in D
      PROVE  Total([c \in {y \in U : key[y] = s} |-> one[c]]) = size[s]
  <2>1. [c \in {y \in U : key[y] = s} |-> one[c]] = [c \in WithSerial(d, s) |-> 1]
    <3>1. {y \in U : key[y] = s} = WithSerial(d, s)
      BY <1>4
    <3>2. \A c \in {y \in U : key[y] = s} : one[c] = 1
      OBVIOUS
    <3> HIDE DEF U, key, one
    <3> QED
      BY <3>1, <3>2
  <2>2. Total([c \in WithSerial(d, s) |-> 1]) = Cardinality(WithSerial(d, s))
    BY <1>2, TotalOfOnes
  <2>3. size[s] = Cardinality(WithSerial(d, s))
    OBVIOUS
  <2> QED
    BY <2>1, <2>2, <2>3, Zenon
<1>10. Total(one) = Total(size)
  <2>1. [s \in D |-> Total([c \in {y \in U : key[y] = s} |-> one[c]])] = [s \in D |-> size[s]]
    <3> HIDE DEF U, D, key, one, size
    <3> QED
      BY <1>9
  <2>2. size = [s \in D |-> size[s]]
    OBVIOUS
  <2> HIDE DEF U, D, key, one, size
  <2> QED
    BY <1>8, <2>1, <2>2, Zenon
<1>11. size \in [D -> Int] /\ \A s \in D : two[s] <= size[s]
  BY <1>2, <1>6
<1>12. Total(two) <= Total(size)
  <2> HIDE DEF D, two, size
  <2> QED
    BY <1>5, <1>6, <1>11, TotalGrows
<1>13. Total(two) = Total(ones) + Total(ones)
  <2> HIDE DEF D, ones
  <2> QED
    BY <1>5, <1>6, TotalAdds
<1>14. Cardinality(D) = Total(ones) /\ Cardinality(D) \in Nat
  <2> HIDE DEF D
  <2> QED
    BY <1>5, TotalOfOnes, FS_CardinalityType
<1>15. Total(size) \in Int
  <2> HIDE DEF D, size
  <2> QED
    BY <1>5, <1>11, TotalIsInt
<1> HIDE DEF D, U, one, ones, two, size, key, Group
<1>16. Cardinality(U) >= 2 * Cardinality(D)
  BY <1>7, <1>10, <1>12, <1>13, <1>14, <1>15
<1> QED
  BY <1>16 DEF U, D

\* The lists of problems.
LEMMA RealProblems == AccountsInv => ProblemsAreReal
<1> SUFFICES ASSUME AccountsInv PROVE ProblemsAreReal
  OBVIOUS
<1>0. Kept(db)
  BY DEF Kept, AccountsInv, IInv
<1> DEFINE all == data_quality_problems(db, NoDate, NoDate)
           summary == data_quality_summary(db)
<1>1. all.negative = {}
  <2>1. \A k \in Positions(db) : stock_balance(db)[k] >= 0 /\ stock_balance(db)[k] \in Int
    BY <1>0, PositionFacts
  <2>2. all.negative = {k \in Positions(db) : stock_balance(db)[k] < 0}
    BY DEF data_quality_problems, negative_balances
  <2> QED
    BY <2>1, <2>2
<1>2. all.unmatched = {i \in DOMAIN db.issues : db.issues[i].status = "unmatched"}
  <2>1. ASSUME NEW i \in DOMAIN db.issues
        PROVE  db.issues[i].quantity - Matched(db, i) > 0 <=> db.issues[i].status = "unmatched"
    <3>1. /\ Matched(db, i) = IF db.issues[i].status = "matched" THEN db.issues[i].quantity ELSE 0
          /\ db.issues[i].quantity \in Nat \ {0}
          /\ db.issues[i].status \in {"matched", "unmatched"}
      BY <1>0, MatchedIsParts
    <3> QED
      BY <3>1
  <2>2. all.unmatched = {i \in DOMAIN db.issues : db.issues[i].quantity - Matched(db, i) > 0}
    BY DEF data_quality_problems, unmatched_issues
  <2> QED
    BY <2>1, <2>2
<1>3. ASSUME NEW s \in Serials
      PROVE  s \in all.duplicates <=> WithSerial(db, s) # {} /\ ~CanUpdate(db, s)
  <2>1. IsFiniteSet(WithSerial(db, s))
    <3>1. WithSerial(db, s) \in SUBSET DOMAIN db.cards
      BY DEF WithSerial
    <3> QED
      BY <1>0, <3>1, KeptFacts, FS_Subset
  <2>2. /\ Cardinality(WithSerial(db, s)) \in Nat
        /\ Cardinality(WithSerial(db, s)) = 0 <=> WithSerial(db, s) = {}
    BY <2>1, FS_CardinalityType, FS_EmptySet
  <2>3. s \in all.duplicates <=> Cardinality(WithSerial(db, s)) > 1
    BY DEF data_quality_problems, duplicate_serials
  <2> QED
    BY <2>2, <2>3 DEF CanUpdate
<1>4. Cardinality(summary.duplicates) >= 2 * summary.counts.duplicates
  <2>1. /\ summary.duplicates = UNION {WithSerial(db, s) : s \in duplicate_serials(db)}
        /\ summary.counts.duplicates = Cardinality(duplicate_serials(db))
    BY DEF data_quality_summary, data_quality_problem_counts
  <2> HIDE DEF summary
  <2> QED
    BY <1>0, <2>1, DuplicatesAreMany
<1>5. all.incomplete = data_quality_problems(db, NoDate, 1).incomplete
                         \cup data_quality_problems(db, 2, NoDate).incomplete
  <2>1. \A c \in incomplete_rows(db) : db.cards[c].date \in 0..2
    BY <1>0, KeptFacts DEF Card, Dates, incomplete_rows
  <2> QED
    BY <2>1 DEF data_quality_problems, NoDate
<1> QED
  BY <1>1, <1>2, <1>3, <1>4, <1>5 DEF ProblemsAreReal

-----------------------------------------------------------------------------
(* Whatever is in stock can leave. *)

\* Of lots with stock one is the first.
LEMMA FirstExists ==
  ASSUME NEW d, Kept(d), NEW s, AvailableBySerial(d, s) # {}
  PROVE  FirstCandidate(d, s) \in AvailableBySerial(d, s)
<1> DEFINE L == AvailableBySerial(d, s)
           D == {d.cards[c].date : c \in L}
<1>1. L \in SUBSET DOMAIN d.cards /\ L \in SUBSET Nat /\ \A c \in L : d.cards[c].date \in Nat
  <2>1. L \in SUBSET DOMAIN d.cards
    BY DEF AvailableBySerial, WithSerial
  <2>2. \A c \in DOMAIN d.cards : c \in Nat /\ d.cards[c].date \in Nat
    BY KeptFacts DEF Card, Dates
  <2> QED
    BY <2>1, <2>2
<1>2. D \in SUBSET Nat /\ D # {}
  BY <1>1
<1>3. PICK m \in D : \A t \in D : m <= t
  <2> HIDE DEF D
  <2> QED
    BY <1>2, Least
<1> DEFINE E == {c \in L : d.cards[c].date = m}
<1>4. E \in SUBSET Nat /\ E # {}
  BY <1>1
<1>5. PICK c \in E : \A x \in E : c <= x
  <2> HIDE DEF E
  <2> QED
    BY <1>4, Least
<1>6. c \in L
  OBVIOUS
<1>7. \A x \in L \ {c} : Older(d, c, x)
  <2> TAKE x \in L \ {c}
  <2>1. /\ c \in Nat /\ x \in Nat /\ d.cards[c].date = m /\ m \in Nat
        /\ d.cards[x].date \in Nat /\ m <= d.cards[x].date /\ x # c
    BY <1>1, <1>2, <1>3
  <2>2. d.cards[x].date = m => c <= x
    BY <1>5
  <2> QED
    BY <2>1, <2>2 DEF Older
<1>8. \E x \in L : \A y \in L \ {x} : Older(d, x, y)
  BY <1>6, <1>7
<1> HIDE DEF L
<1>9. (CHOOSE x \in L : \A y \in L \ {x} : Older(d, x, y)) \in L
  BY <1>8
<1> QED
  BY <1>9 DEF L, FirstCandidate

\* The stock of lots is what is left of them, and no less than that of fewer.
LEMMA StockOfLots ==
  ASSUME NEW d, Kept(d), NEW lots \in SUBSET DOMAIN d.cards
  PROVE  /\ InStock(d, lots) = LeftOf(d, lots) /\ InStock(d, lots) \in Nat
         /\ \A c \in lots : Available(d, c) > 0 => InStock(d, lots) >= 1
         /\ \A fewer \in SUBSET lots : LeftOf(d, fewer) <= LeftOf(d, lots)
         /\ LeftOf(d, lots) = LeftOf(d, {c \in lots : Available(d, c) > 0})
<1> DEFINE f == [c \in lots |-> Left(d, c)]
           some == {c \in lots : Available(d, c) > 0}
<1>1. \A c \in lots : Left(d, c) \in Nat /\ Left(d, c) = Available(d, c)
  BY LeftOfLot
<1>2. IsFiniteSet(lots) /\ f \in [lots -> Int] /\ LeftOf(d, lots) \in Nat
  BY LeftOfLots
<1>3. InStock(d, lots) = LeftOf(d, lots)
  <2>1. [c \in lots |-> Left(d, c)] = [c \in lots |-> Available(d, c)]
    BY <1>1
  <2> QED
    BY <2>1, Zenon DEF InStock, LeftOf
<1>4. \A c \in lots : Available(d, c) > 0 => LeftOf(d, lots) >= 1
  <2>1. LeftOf(d, lots) > 0 <=> \E c \in lots : Left(d, c) > 0
    BY LeftOfLots
  <2> QED
    BY <1>1, <1>2, <2>1
<1>5. ASSUME NEW fewer \in SUBSET lots
      PROVE  LeftOf(d, fewer) <= LeftOf(d, lots)
  <2>1. Total(f) = Total([c \in fewer |-> f[c]]) + Total([c \in lots \ fewer |-> f[c]])
    <3> HIDE DEF f
    <3> QED
      BY ONLY <1>2, fewer \in SUBSET lots, TotalSplits
  <2>2. /\ [c \in fewer |-> f[c]] = [c \in fewer |-> Left(d, c)]
        /\ [c \in lots \ fewer |-> f[c]] = [c \in lots \ fewer |-> Left(d, c)]
    OBVIOUS
  <2>3. LeftOf(d, lots) = LeftOf(d, fewer) + LeftOf(d, lots \ fewer)
    BY <2>1, <2>2, Zenon DEF LeftOf
  <2>4. LeftOf(d, fewer) \in Nat /\ LeftOf(d, lots \ fewer) \in Nat
    <3>1. fewer \in SUBSET DOMAIN d.cards /\ lots \ fewer \in SUBSET DOMAIN d.cards
      OBVIOUS
    <3> QED
      BY <3>1, LeftOfLots
  <2> QED
    BY <1>2, <2>3, <2>4
<1>6. LeftOf(d, lots) = LeftOf(d, some)
  <2>1. some \in SUBSET lots /\ \A c \in lots \ some : f[c] = 0
    BY <1>1
  <2>2. Total(f) = Total([c \in some |-> f[c]])
    <3> HIDE DEF f, some
    <3> QED
      BY <1>2, <2>1, TotalWithin
  <2>3. [c \in some |-> f[c]] = [c \in some |-> Left(d, c)]
    OBVIOUS
  <2> QED
    BY <2>2, <2>3, Zenon DEF LeftOf
<1> QED
  BY <1>2, <1>3, <1>4, <1>5, <1>6

\* A lot of an S/N can leave.
LEMMA SerialLeaves ==
  ASSUME NEW d, Kept(d), NEW c \in DOMAIN d.cards, Available(d, c) > 0,
         d.cards[c].serial # NoSerial,
         NEW t, t # d.cards[c].serial, t # NoSerial, IsTargetEquipment(d, t),
         NEW one, one = [serial |-> d.cards[c].serial, item |-> NoItem, place |-> NoPlace,
                         target |-> t, task |-> TRUE, quantity |-> 1],
         NEW named, named = [serial |-> NoSerial, item |-> d.cards[c].item, place |-> NoPlace,
                             target |-> NoSerial, task |-> TRUE, quantity |-> 1]
  PROVE  CanIssue(d, one) \/ CanIssueCable(d, named)
<1> DEFINE s == d.cards[c].serial
           L == AvailableBySerial(d, s)
           first == FirstCandidate(d, s)
<1>1. c \in L /\ L \in SUBSET DOMAIN d.cards
  BY DEF AvailableBySerial, WithSerial
<1>2. first \in L
  BY <1>1, FirstExists
<1>3. InStock(d, L) >= 1
  <2> HIDE DEF L
  <2> QED
    BY <1>1, StockOfLots
<1>4. CASE d.cards[first].kind # "cable"
  <2>1. CanIssue(d, one)
    BY <1>1, <1>3, <1>4 DEF CanIssue
  <2> QED
    BY <2>1
<1>5. CASE d.cards[first].kind = "cable"
  <2>1. first = c
    <3>1. first \in DOMAIN d.cards /\ d.cards[first].serial = s
      BY <1>2 DEF AvailableBySerial, WithSerial
    <3>2. CablesApart(d)
      BY DEF Kept
    <3> QED
      BY <1>5, <3>1, <3>2 DEF CablesApart
  <2>2. d.cards[c].item # NoItem
    BY <1>5, <2>1 DEF Kept, CablesApart
  <2>3. /\ AvailableCableLots(d, named) \in SUBSET DOMAIN d.cards
        /\ c \in AvailableCableLots(d, named)
    BY DEF AvailableCableLots
  <2>4. InStock(d, AvailableCableLots(d, named)) >= 1
    BY <2>3, StockOfLots
  <2>5. CanIssueCable(d, named)
    BY <2>2, <2>4 DEF CanIssueCable
  <2> QED
    BY <2>5
<1> QED
  BY <1>4, <1>5

\* All that the list of cables offers can leave.
LEMMA CableLeaves ==
  ASSUME NEW d, Kept(d), NEW i \in cable_items(d),
         NEW row, row.serial = NoSerial, row.item = i, row.place = NoPlace,
         row.quantity = cable_balance(d)[i]
  PROVE  CanIssueCable(d, row)
<1> DEFINE some == {c \in DOMAIN d.cards : d.cards[c].kind = "cable" /\ d.cards[c].item = i}
           lots == {c \in DOMAIN d.cards : d.cards[c].item = i}
           left == {c \in lots : Available(d, c) > 0}
<1>1. i \in DOMAIN cable_balance(d)
  BY DEF cable_items
<1>2. PICK c \in DOMAIN d.cards : d.cards[c].kind = "cable" /\ d.cards[c].item = i
  BY <1>1 DEF cable_balance
<1>3. i # NoItem
  BY <1>2 DEF Kept, CablesApart
<1>4. cable_balance(d)[i] = LeftOf(d, some)
  <2> DEFINE cables == {x \in DOMAIN d.cards : d.cards[x].kind = "cable"}
  <2>1. cable_balance(d)[i] = LeftOf(d, {x \in cables : d.cards[x].item = i})
    BY <1>1 DEF cable_balance
  <2>2. {x \in cables : d.cards[x].item = i} = some
    OBVIOUS
  <2> QED
    BY <2>1, <2>2, Zenon
<1>5. AvailableCableLots(d, row) = left
  BY DEF AvailableCableLots
<1>6. /\ LeftOf(d, some) <= LeftOf(d, lots)
      /\ LeftOf(d, lots) = LeftOf(d, left)
  <2>1. lots \in SUBSET DOMAIN d.cards /\ some \in SUBSET lots
    OBVIOUS
  <2> HIDE DEF lots, some
  <2> QED
    BY <2>1, StockOfLots
<1>7. InStock(d, left) = LeftOf(d, left)
  <2>1. left \in SUBSET DOMAIN d.cards
    OBVIOUS
  <2> HIDE DEF left
  <2> QED
    BY <2>1, StockOfLots
<1>8. LeftOf(d, some) \in Nat /\ LeftOf(d, lots) \in Nat
  <2>1. lots \in SUBSET DOMAIN d.cards /\ some \in SUBSET DOMAIN d.cards
    OBVIOUS
  <2> HIDE DEF lots, some
  <2> QED
    BY <2>1, LeftOfLots
<1> HIDE DEF some, lots, left
<1>9. InStock(d, AvailableCableLots(d, row)) >= row.quantity
  BY <1>4, <1>5, <1>6, <1>7, <1>8
<1> QED
  BY <1>3, <1>9 DEF CanIssueCable

\* Whatever is in stock can leave it.
LEMMA NothingStuck == AccountsInv => NoStockIsStuck
<1> SUFFICES ASSUME AccountsInv PROVE NoStockIsStuck
  OBVIOUS
<1>0. Kept(db)
  BY DEF Kept, AccountsInv, IInv
<1> DEFINE One(s, i, t) == [serial |-> s, item |-> i, place |-> NoPlace, target |-> t,
                            task |-> TRUE, quantity |-> 1]
<1>1. ASSUME NEW c \in DOMAIN db.cards, Available(db, c) > 0, db.cards[c].serial # NoSerial,
             \E t \in Serials \ {db.cards[c].serial} : IsTargetEquipment(db, t)
      PROVE  \/ \E t \in Serials \cup {NoSerial} : CanIssue(db, One(db.cards[c].serial, NoItem, t))
             \/ CanIssueCable(db, One(NoSerial, db.cards[c].item, NoSerial))
  <2>1. PICK t \in Serials \ {db.cards[c].serial} : IsTargetEquipment(db, t)
    BY <1>1
  <2>2. t # NoSerial /\ t # db.cards[c].serial /\ t \in Serials \cup {NoSerial}
    BY MarkersAssumption DEF MarkersAssumption
  <2>3. \/ CanIssue(db, One(db.cards[c].serial, NoItem, t))
        \/ CanIssueCable(db, One(NoSerial, db.cards[c].item, NoSerial))
    BY <1>0, <1>1, <2>1, <2>2, SerialLeaves
  <2> QED
    BY <2>2, <2>3
<1>2. ASSUME NEW i \in cable_items(db)
      PROVE  CanIssueCable(db, [One(NoSerial, i, NoSerial) EXCEPT !.quantity = cable_balance(db)[i]])
  <2> DEFINE row == [One(NoSerial, i, NoSerial) EXCEPT !.quantity = cable_balance(db)[i]]
  <2>1. /\ row.serial = NoSerial /\ row.item = i /\ row.place = NoPlace
        /\ row.quantity = cable_balance(db)[i]
    OBVIOUS
  <2> HIDE DEF row
  <2>2. CanIssueCable(db, row)
    BY <1>0, <2>1, CableLeaves
  <2> QED
    BY <2>2 DEF row
<1> QED
  BY <1>1, <1>2 DEF NoStockIsStuck

\* Every screen tells the same stock, the problems it lists are real, a card is in
\* one group, and whatever is in stock can leave it: StockIsOneAndMoves of the
\* tables, the queries and the write-offs of src/inventory/warehouse.
THEOREM StockIsOne == Spec => []StockIsOneAndMoves
<1>1. AccountsInv => StockIsOneAndMoves
  BY GroupsAreOne, OnePicture, RealProblems, NothingStuck DEF StockIsOneAndMoves
<1> QED
  BY <1>1, AccountsAreKept, PTL
=============================================================================
