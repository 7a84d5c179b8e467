-------------------------- MODULE WarehouseLedger --------------------------
(***************************************************************************)
(* Receipts, write-offs and card corrections of one warehouse.             *)
(*                                                                         *)
(* Every POST runs under the service's RLock, so one request at a time     *)
(* changes the tables. A request that writes one thing is one action. A    *)
(* file of write-offs is a request of many steps: the transaction's own    *)
(* image `work` moves row by row while `db` is what the file holds, what   *)
(* the unlocked GET handlers read and what a crash leaves.                 *)
(***************************************************************************)
EXTENDS StockTables

CONSTANTS
  OpeningTables,  \* card tables the program may find when it starts
  LegacyNumbers,  \* equipment.inventory_number at the start
  Arrivals,       \* rows of a receipt of equipment and components
  CableArrivals,  \* rows of a cable receipt
  CableRows,      \* requests to write off cable
  CableFiles,     \* files of them: sequences of rows
  Edits,          \* forms of the card editor
  SingleRows,     \* requests to write off one position
  IssueFiles,     \* files of write-offs: sequences of rows
  ProvenanceCards \* cards named by migration_full_* or delivery rows

ASSUME InputsAssumption ==
  /\ \A t \in OpeningTables :
       \E n \in 0..MaxCards : DOMAIN t = 1..n /\ t \in [1..n -> Card]
  /\ LegacyNumbers \in [LegacyIds -> Inventories \cup {NoInventory}]
  /\ Arrivals \subseteq {c \in Card : /\ c.serial # NoSerial
                                      /\ c.kind # "cable"
                                      /\ c.quantity = 1
                                      /\ c.date # NoDate
                                      /\ c.legacy = NoLegacy}
  /\ CableArrivals \subseteq {c \in Card : /\ c.serial = NoSerial
                                           /\ c.inventory = NoInventory
                                           /\ c.kind = "cable"
                                           /\ c.item # NoItem
                                           /\ c.date # NoDate
                                           /\ c.legacy = NoLegacy}
  /\ CableRows \subseteq IssueRow
  /\ CableFiles \subseteq Seq(IssueRow)
  /\ Edits \subseteq Edit
  /\ SingleRows \subseteq IssueRow
  /\ IssueFiles \subseteq Seq(IssueRow)

\* A cable has a name and a cable type. Receipts of cable are written without an
\* S/N, the migration, which may write one S/N twice, leaves the cable type empty,
\* and the card editor, which sets it, refuses an S/N that several cards share.
ASSUME CablesAssumption ==
  \A t \in OpeningTables : \A c \in DOMAIN t :
    t[c].kind = "cable" =>
      /\ t[c].item # NoItem
      /\ \A x \in DOMAIN t \ {c} : t[c].serial # NoSerial => t[x].serial # t[c].serial

VARIABLES
  db,      \* the committed tables
  work,    \* the image the open transaction sees; equal to db when none is open
  phase,   \* what the request that holds the lock is doing
  rows,    \* the file it works through
  next,    \* the row it is at
  soft,    \* rows of unknown S/N are kept as problem rows
  failed   \* the dry run met a row it must refuse

vars == <<db, work, phase, rows, next, soft, failed>>
request == <<phase, rows, next, soft, failed>>

\* "check" is the dry run of preview/confirm, "apply" a file written without
\* one, "confirmed" a file written after its dry run found no error, "cables" a
\* file of cable write-offs.
Phases == {"idle", "check", "apply", "confirmed", "cables"}

TypeOK ==
  /\ WellFormed(db)
  /\ WellFormed(work)
  /\ phase \in Phases
  /\ rows \in Seq(IssueRow)
  /\ next \in 1..(Len(rows) + 1)
  /\ soft \in BOOLEAN
  /\ failed \in BOOLEAN

Opening(table) ==
  [cards |-> table, lastCard |-> Cardinality(DOMAIN table), issues |-> <<>>,
   taken |-> [c \in CardIds |-> 0], legacy |-> LegacyNumbers]

NoRequest ==
  /\ phase' = "idle"
  /\ rows' = <<>>
  /\ next' = 1
  /\ soft' = FALSE
  /\ failed' = FALSE

Init ==
  /\ \E t \in OpeningTables : db = Opening(t)
  /\ work = db
  /\ phase = "idle"
  /\ rows = <<>>
  /\ next = 1
  /\ soft = FALSE
  /\ failed = FALSE

-----------------------------------------------------------------------------
(* Requests of one step: the call commits or raises and changes nothing. *)

Commits(d) ==
  /\ phase = "idle"
  /\ db' = d
  /\ work' = d
  /\ UNCHANGED request

CreateReceipt(card) ==
  /\ CanReceive(db, card)
  /\ Commits(AddCard(db, card))

CreateReceiptBatch(cards) ==
  /\ CanReceiveAll(db, cards)
  /\ Commits(AddCards(db, cards))

CreateCableReceiptBatch(cards) ==
  /\ db.lastCard + Len(cards) <= MaxCards
  /\ Commits(AddCards(db, cards))

FillReceiptDate(c, date) ==
  /\ CanFillDate(db, c)
  /\ Commits(FillDate(db, c, date))

FillReceiptFields(c, place) ==
  /\ CanFillPlace(db, c)
  /\ Commits(FillPlace(db, c, place))

UpdatePositionCard(s, edit) ==
  /\ CanUpdate(db, s)
  /\ Commits(UpdateCard(db, s, edit))

CorrectDuplicateSerial(c, s) ==
  /\ CanCorrectSerial(db, c, s)
  /\ Commits(CorrectSerial(db, c, s))

DeleteDuplicateReceipt(c) ==
  /\ CanDeleteDuplicate(db, c, ProvenanceCards)
  /\ Commits(DeleteCard(db, c))

CreateIssue(row) ==
  /\ Len(db.issues) < MaxIssues
  /\ CanIssue(db, row)
  /\ \E shares \in FifoShares(db, AvailableBySerial(db, row.serial), row.quantity) :
       Commits(AddIssue(db, row, shares))

CreateCableIssue(row) ==
  /\ Len(db.issues) < MaxIssues
  /\ CanIssueCable(db, row)
  /\ \E shares \in FifoShares(db, AvailableCableLots(db, row), row.quantity) :
       Commits(AddIssue(db, row, shares))

-----------------------------------------------------------------------------
(* A file of write-offs. *)

Begin(file, mode, first) ==
  /\ phase = "idle"
  /\ Len(db.issues) + Len(file) <= MaxIssues
  /\ phase' = first
  /\ rows' = file
  /\ next' = 1
  /\ soft' = mode
  /\ failed' = FALSE
  /\ UNCHANGED <<db, work>>

\* create_issue_batch, create_issue_by_serials, create_issue_pairs,
\* import_issues: straight to insert_many.
BeginImport(file, mode) == Begin(file, mode, "apply")

\* confirm_issue_import: the stored preview's rows are dry-run again first.
BeginConfirm(file, mode) == Begin(file, mode, "check")

Matches(row) ==
  /\ CanIssue(work, row)
  /\ \E shares \in FifoShares(work, AvailableBySerial(work, row.serial), row.quantity) :
       work' = AddIssue(work, row, shares)

KeepsAsProblem(row) ==
  /\ soft
  /\ ~CanIssue(work, row)
  /\ IsUnmatched(work, row)
  /\ work' = AddUnmatchedIssue(work, row)

Refuses(row) ==
  /\ ~CanIssue(work, row)
  /\ ~(soft /\ IsUnmatched(work, row))

\* Mutant: each row is dry-run against the untouched tables.
CheckRowForgets ==
  /\ phase = "check"
  /\ next <= Len(rows)
  /\ failed' = (failed \/ Refuses(rows[next]))
  /\ next' = next + 1
  /\ UNCHANGED <<db, work, phase, rows, soft>>

\* One row of the dry run, inside its own SAVEPOINT.
CheckRow ==
  /\ phase = "check"
  /\ next <= Len(rows)
  /\ \/ (Matches(rows[next]) \/ KeepsAsProblem(rows[next])) /\ failed' = failed
     \/ Refuses(rows[next]) /\ work' = work /\ failed' = TRUE
  /\ next' = next + 1
  /\ UNCHANGED <<db, phase, rows, soft>>

\* The dry run rolls back; the request goes on to write, or raises.
CheckDone ==
  /\ phase = "check"
  /\ next > Len(rows)
  /\ work' = db
  /\ db' = db
  /\ IF failed
     THEN NoRequest
     ELSE /\ phase' = "confirmed"
          /\ next' = 1
          /\ UNCHANGED <<rows, soft, failed>>

Applying == phase \in {"apply", "confirmed"}

\* Mutant: every row is committed at once.
ApplyRowCommits ==
  /\ Applying
  /\ next <= Len(rows)
  /\ Matches(rows[next]) \/ KeepsAsProblem(rows[next])
  /\ db' = work'
  /\ next' = next + 1
  /\ UNCHANGED <<phase, rows, soft, failed>>

ApplyRow ==
  /\ Applying
  /\ next <= Len(rows)
  /\ Matches(rows[next]) \/ KeepsAsProblem(rows[next])
  /\ next' = next + 1
  /\ UNCHANGED <<db, phase, rows, soft, failed>>

\* Mutant: the request starts the file again instead of raising.
ApplyRefusedRetries ==
  /\ Applying
  /\ next <= Len(rows)
  /\ Refuses(rows[next])
  /\ work' = db
  /\ next' = 1
  /\ UNCHANGED <<db, phase, rows, soft, failed>>

ApplyRefused ==
  /\ Applying
  /\ next <= Len(rows)
  /\ Refuses(rows[next])
  /\ work' = db
  /\ db' = db
  /\ NoRequest

CommitFile ==
  /\ Applying
  /\ next > Len(rows)
  /\ db' = work
  /\ work' = work
  /\ NoRequest

-----------------------------------------------------------------------------
(* A file of cable write-offs: every row in a transaction of its own. *)

BeginCables(file) == Begin(file, FALSE, "cables")

CableRow ==
  /\ phase = "cables"
  /\ next <= Len(rows)
  /\ CanIssueCable(db, rows[next])
  /\ \E shares \in FifoShares(db, AvailableCableLots(db, rows[next]), rows[next].quantity) :
       db' = AddIssue(db, rows[next], shares)
  /\ work' = db'
  /\ next' = next + 1
  /\ UNCHANGED <<phase, rows, soft, failed>>

\* The last row is written, or a row raises: the ones before it stay.
CablesEnd ==
  /\ phase = "cables"
  /\ next <= Len(rows) => ~CanIssueCable(db, rows[next])
  /\ work' = db
  /\ db' = db
  /\ NoRequest

-----------------------------------------------------------------------------

\* The process dies in the middle of a file; the journal is rolled back.
Crash ==
  /\ phase # "idle"
  /\ work' = db
  /\ db' = db
  /\ NoRequest

RequestStep ==
  \/ CheckRow \/ CheckDone
  \/ ApplyRow \/ ApplyRefused \/ CommitFile
  \/ CableRow \/ CablesEnd

UpToTwo(S) == {<<a>> : a \in S} \cup (S \X S)

SingleRequest ==
  \/ \E card \in Arrivals : CreateReceipt(card)
  \/ \E cards \in UpToTwo(Arrivals) : CreateReceiptBatch(cards)
  \/ \E cards \in UpToTwo(CableArrivals) : CreateCableReceiptBatch(cards)
  \/ \E c \in CardIds, date \in Dates \ {NoDate} : FillReceiptDate(c, date)
  \/ \E c \in CardIds, place \in Places : FillReceiptFields(c, place)
  \/ \E s \in Serials, edit \in Edits : UpdatePositionCard(s, edit)
  \/ \E c \in CardIds, s \in Serials : CorrectDuplicateSerial(c, s)
  \/ \E c \in CardIds : DeleteDuplicateReceipt(c)
  \/ \E row \in SingleRows : CreateIssue(row)
  \/ \E row \in CableRows : CreateCableIssue(row)

Next ==
  \/ SingleRequest
  \/ \E file \in IssueFiles, mode \in BOOLEAN : BeginImport(file, mode)
  \/ \E file \in IssueFiles, mode \in BOOLEAN : BeginConfirm(file, mode)
  \/ \E file \in CableFiles : BeginCables(file)
  \/ RequestStep
  \/ Crash

Spec == Init /\ [][Next]_vars

\* A request thread that holds the lock keeps running.
Fairness == WF_vars(RequestStep)

-----------------------------------------------------------------------------
(* Properties. *)

NeverOverIssuedIn(d) == \A c \in DOMAIN d.cards : d.taken[c] <= d.cards[c].quantity

HistoryAnchoredIn(d) ==
  \A i \in DOMAIN d.issues, c \in CardIds :
    d.issues[i].parts[c] > 0 => c \in DOMAIN d.cards

\* The books are sound, in the file and inside the transaction in progress: no
\* card is written off beyond what came in on it (create_issue, insert_issue),
\* and deleting a duplicate card never takes the source of a write-off with it.
BooksAreSound ==
  \A d \in {db, work} : NeverOverIssuedIn(d) /\ HistoryAnchoredIn(d)

\* A file whose dry run found no error is written without an error: the lock
\* keeps the tables as they were, so confirm_issue_import never fails after
\* its second look, and what it answered stays true.
CheckedFileNeverRefused ==
  phase = "confirmed" /\ next <= Len(rows) =>
    \/ CanIssue(work, rows[next])
    \/ soft /\ IsUnmatched(work, rows[next])

Twins(d) ==
  {p \in (DOMAIN d.cards) \X (DOMAIN d.cards) :
     /\ p[1] < p[2]
     /\ d.cards[p[1]].serial # NoSerial
     /\ d.cards[p[1]].serial = d.cards[p[2]].serial}

\* Two cards come to share an S/N only by migration: no operation creates a
\* new pair, also in a promoted database that has no unique index on S/N.
NoNewTwins == [][Twins(db') \subseteq Twins(db)]_vars

Records(issue, row) ==
  /\ issue.serial = row.serial
  /\ issue.item = row.item
  /\ issue.target = row.target
  /\ issue.quantity = row.quantity

\* A file of write-offs is written whole or not at all: the history grows by
\* one write-off of a single request, or by every row of the file in order. (A
\* file of cables goes row by row: CableFileAllOrNothing.)
FileAllOrNothing ==
  [][db'.issues # db.issues =>
       /\ SubSeq(db'.issues, 1, Len(db.issues)) = db.issues
       /\ IF phase \in {"idle", "cables"}
          THEN Len(db'.issues) = Len(db.issues) + 1
          ELSE /\ Len(db'.issues) = Len(db.issues) + Len(rows)
               /\ \A i \in 1..Len(rows) :
                    Records(db'.issues[Len(db.issues) + i], rows[i])]_vars

\* A file of cable write-offs ends with none of its rows written, or all of them
\* (docs/history/SECURITY_REVIEW.md: batches of issues are atomic).
CableFileAllOrNothing ==
  [][phase = "cables" /\ phase' = "idle" => next \in {1, Len(rows) + 1}]_vars

\* Every file a request took up is written, refused or lost in a crash: the
\* lock is always given back.
FileRequestEnds == (phase # "idle") ~> (phase = "idle")

\* Card c as a lot of the abstract specification.
LotsOf(d) ==
  [c \in DOMAIN d.cards |->
     [total |-> d.cards[c].quantity, left |-> Available(d, c)]]

Promise == INSTANCE StockPromise WITH Lots <- CardIds, lots <- LotsOf(db)

\* The ledger keeps the promise about stock of StockPromise.
KeepsStockPromise == Promise!Spec
=============================================================================
