# TLA+ models of the warehouse program

These modules model the part of the program where state is hard to keep right:
what the warehouse has on its books, the requests that change it, the files they
are kept in, and the records beside them. TLC checks the modules on small
instances; TLAPS proves the central properties for every size. Paths are relative
to the repository.

## 1. The system

One Python process (`inventory/webapp.py`, a threading HTTP server) serves
browsers over SQLite files. Data of the warehouse is in one operational file;
FULL-inventory previews live in workspace files of their own; ODE (`ode/`) has a
second database that shares no tables with the first; the migration of the
historical workbooks builds further databases outside the server.

| Component | State | Operations | Hard part |
|---|---|---|---|
| Ledger (`inventory/warehouse/receipt_*`, `issue_*`, `cable_*`) | `stock_receipts`, `stock_issues`, `stock_issue_allocations` | receive, write off, import files, correct and delete cards | long legal sequences; files that fail half-way; previews confirmed late |
| Views of the ledger (`balance.py`, `history`, `warehouse/monitoring.py`, `operational_category.py`) | none | balance, tree, card, history, search, problems, comparison | a dozen queries that must tell one stock |
| Legacy equipment, inventory numbers (`inventory.py`, `cli.py`, `receipt_imports.py`) | `equipment` rows, the card that mirrors each, one number in both | add, receive, issue, move, copy at start, assign, import a file of numbers | two books of one stock, changed by two versions of the program |
| Deliveries (`delivery_*.py`) | documents, lines, links to cards | import, accept, add unplanned, close | twin cards, status derived from lines, batches that fail half-way |
| Preview store (`previews.py`) | in-memory previews with owner, size and time to live | store, consume, purge | limits, eviction, confirm twice |
| FULL inventory (`baseline/service.py`, `workspace.py`) | a workspace file per session, a source vault, a lock file, candidate databases | create, upload, preview, resolve, reject, build a candidate | the only POST handlers that write without the server's lock |
| Web sessions (`webapp.py`) | tokens, failed logins | log in, out, expire, throttle | reads of one session at several moments, two locks |
| Vacations (`inventory/vacations/`) | requests, conflicts, assignments | request, update, resolve, assign | effective dates, derived conflicts |
| Work journal (`inventory/reports/`) | `work_logs`, names of the dictionary | type in, import, correct, hand over | previews confirmed on another day under another dictionary |
| Knowledge base (`inventory/knowledge/`) | articles, rows of attachments, files beside the database | attach, delete, back up, replace | file and row in no common transaction |
| Monitoring (`inventory/monitoring/`) | two files of rules with a cache, one browser profile | search a host, prepare a letter | rules read while they are replaced, failures that are remembered |
| Backup and restore (`inventory/administration/`) | live file, safety copy, signed backups | back up, restore, replace | crash between file operations |
| ODE (`ode/infrastructure/`) | database file, its WAL, a ContextVar per context | create, unit of work, read-only commands | two creators, nested units, reports that ignore the WAL |
| Offline migration (`inventory/migration/`) | raw workbooks, candidate, pilot, full database, reports | stage, select, build, validate, publish, review | order of rows; sources that change under a build; a crash between two renames |

**Interaction.** A POST takes `service.lock` and the lock of the warehouse its
session has chosen (webapp.py:267), so at most one changes the operational file.
Four kinds go without: the login, the choice of a warehouse, manual searches of
monitoring, and `/api/full-inventory/*`, which meets other requests in the
workspace files under SQLite's own locks. GET handlers take no lock and see the
committed file. What a POST knows of its session it reads again at every step.
Files are previewed into the store, confirmed from it later, and written by the
ledger, the deliveries, the journal or the numbers. A restore replaces the file
under all of them. The migration reads the operational file, and its result
becomes the operational file only by a promotion at start-up.

## 2. Modules

| Module | Stands for |
|---|---|
| `StockTables` | the warehouse tables as a value, and what each repository call does to it |
| `StockPromise` | what the warehouse promises about stock, abstractly |
| `WarehouseLedger` | the requests over these tables: single requests, files with their dry run, crash |
| `LedgerViews` | the queries that show the tables |
| `FullInventory` | sessions, runs and resolutions of the FULL inventory under concurrent handlers |
| `CandidateRehearsal` | what one session counts: checks, decisions, previews, candidate databases |
| `LegacyEquipment` | the two books of the warehouse and the inventory numbers in both |
| `Deliveries` | delivery documents and lines, and their acceptance on the cards |
| `PreviewStore` | the bounded store of previews between a file's preview and its confirmation |
| `WebRequests` | web sessions, and the steps of a POST between its arrival and its answer |
| `Vacations` | duty posts by date, vacation requests, their conflicts and decisions |
| `WorkJournal` | the journal of a shift, its imports, and the two sheets of the shift report |
| `KnowledgeBase` | articles and attachments in the database, the files beside it |
| `MonitoringSearch` | the manual search and the choice of the addressees of its letter |
| `DatabaseFiles` | the operational file, its backups, restores and replacements, and the signed backups |
| `OdeDatabase` | the database of the next version: creation, units of work, read-only commands |
| `CandidateStaging` | first stage of the migration: names and rows of the candidate |
| `PilotMigration` | second stage: selection and build of the pilot, and its review |
| `FullMigration` | third stage: every historical row becomes a card, history, deferred or quarantined |
| `FullReview` | the gate at start-up and the review of the full database |
| `OfflineBuild` | the three builders as readers of files that change, and the publication of their bundles |
| `*Proofs` | theorems about the module they are named after; `WarehouseLedgerProofs`: also `LedgerViews`; `ServerProofs`: `WebRequests`, `PreviewStore`; `OfficeProofs`: `Vacations`, `KnowledgeBase`, `WorkJournal`, `MonitoringSearch`; `DatabaseFilesProofs`: also `OdeDatabase`; `FullInventoryProofs`: also `CandidateRehearsal`; `MigrationProofs`: `OfflineBuild`, `CandidateStaging`, `PilotMigration`, `FullMigration` with `FullReview` |
| `MC*` | instances for TLC |

An MC module that puts several components into one run (`MCOffice`, `MCServer`,
`MCArrivals`, `MCDatabaseFiles`, `MCInventoryCalm`) chooses one of them in its
initial state (`part`) and leaves the variables of the others alone: components
that share no table are checked next to each other and not in product. Definitions
under a comment that begins with "Mutant:" are no part of a specification: each is
the form an action or a helper would take after a plausible mistake, and shows
that the property it is recorded with in PROJECT.json notices that mistake.

### StockTables, StockPromise and WarehouseLedger

`db` is what the file holds, `work` what the open transaction sees. A request
that writes one thing is one action: its guard is the `Can...` predicate of
`StockTables` (every check that raises), its effect the image-valued operator.
A file of write-offs is a request of several steps because its rows see each
other: `BeginImport`/`BeginConfirm`, `CheckRow` (the dry run, one savepoint per
row), `CheckDone` (roll back), `ApplyRow`, `ApplyRefused`, `CommitFile`, and
`Crash` at any point. `soft` is the mode that keeps unknown S/N as problem rows. A
file of cable write-offs is `BeginCables` and the same rows with a commit after
each, as `insert_issue` opens a connection of its own. `StockPromise` knows only
what there is and what was taken of it; `KeepsStockPromise` is the refinement.

Quantities are whole (the code keeps REAL with a tolerance of 1e-9) and
identifiers are compared by equality (the code trims and folds case).

### LedgerViews

Each operator is one query, named after its function, over the tables of the
ledger: `dashboard_stats`, `warehouse_type_summary`, `stock_tree`,
`cable_balance`, `warehouse_categories`, `position_card` with its history,
`global_search`, `issue_events`, `for_target`, `list_rows`,
`data_quality_problems`, `inventory_compare`. Nothing is shared between them that
the code does not share, so that `StockIsOneAndMoves` compares independent ways to
one number. The sums are folds over finite sets. Limits of lists, formats, and the
search by other texts than the S/N are left out.

### FullInventory

`disk[w]` is the session row with its runs and resolutions in workspace file
`w`; `writer[w]` the thread whose write transaction is open on it; `hot` the
files with a journal a crash left; `creator` the holder of
`.session-create-lock.db`; `op[t]` the request thread `t` serves with its local
variables. Every request scans all files (`ScanFile`, `ScanRefuses`: one file a
step, a journal refuses), then takes the write lock and looks again (`TakeLock`,
`LockRefuses`), then commits. `build_preview` claims the run in one transaction,
reads the resolutions without a lock, writes rows in a second transaction and
verifies every file again for its summary (`Answer`); whatever raises after the
claim goes to the except branch (`BuildFails`, `LateFailure`, `FailLock`,
`FailCommit`). While a thread holds the write lock nobody else changes the file,
so an effect is applied at the commit step. Rows are reduced here to the scopes
with a blocking finding and to which resolution settles them.

### CandidateRehearsal

The rows themselves, for one session. `RowFindings` is `_validate_row` with
`_mapping_findings`; `Settles` and `FindingResolved` are `_finding_resolved`, whose
loop stops at the first decision that concerns the finding; `Effective` applies
corrections, `Disposition` the exclusions; `Replaces` is which earlier decisions a
new one supersedes. `PreviewOf` is what `build_preview` writes, and a preview that
finds nothing new reuses its run (`SameDigest`). A build of a candidate walks
through `OpenBuild`, `LoadPlan`, `LookForFile`, `CreateCandidate` and `Fill` and
claims nothing, so previews and decisions go on between these steps;
`ServerStops` leaves the file it had begun. `AnswerReview` is the summary that
opens that file and ends a preview as FAILED when it is empty.

### LegacyEquipment

`db.equip` is the table of the first version, `db.cards` and `db.taken` the
cards and the sum of their allocations, `db.linked` the cards a delivery line
refers to. A legacy operation by hand changes its row and then calls `Sync`
(`_sync_legacy_stock_receipt`) in one transaction: insert the card unless a
unique column stands in the way, delete it when the row is empty and nothing
was written off, copy the quantity. The two imports do not call it:
`ImportEquipment` brings rows, which get their cards when the database is next
opened (`OpenDatabase` is `initialize()`), and `ImportOperations`
(`import_operation_rows`) changes quantities of rows, whole file or nothing, and
leaves their cards as they were. `db.behind` remembers the rows whose card such a
file left behind until the next operation by hand, `db.drained` those one ever took
from: `CardsStandForStock` claims no more of these than the code keeps.
`AssignNumber` is the form that gives one card its number. A file of numbers is
previewed (`PreviewNumbers`, `Analyze` gives every row its status), kept in
`plans`, and confirmed in a transaction of several steps (`ConfirmNumbers`,
`SkipRow`, `AssignRow`, `CommitNumbers`, `RollBack`). `NumbersStayApart` speaks of
assigning only: a receipt, or the acceptance of a delivery, compares a number with
cards and not with rows. The places of rows and the texts of cards are left out;
write-offs are reduced to their sums (`WarehouseLedger` has them in full).

### Deliveries

`db` holds cards, lines and documents, `previews` the files that wait for their
confirmation, `batch` the transaction of `accept_delivery_batch`. `Preview`
gives every row the state that the stock of that moment calls for;
`ConfirmDocument` stores these states as they are, so a line may say "expected"
when its card is there already, and acceptance has to look again.
`AcceptSerial` takes the first line of the S/N in the document, whatever its
state; `AcceptUnplanned` adds a line and accepts it; a batch is `BeginBatch`,
one `AcceptRow` per line that sees what the earlier ones did, then `CommitBatch`
(which refreshes the status once) or `RefuseRow` (which takes all of it back).
All three go through `AcceptResults`, that is `_accept_line`: link the line to
the card its S/N has (`LinkToExisting`), or make one (`CreateAndLink`).

* `given` is the part of the request's `values` that matters. It wins over the
  line (`MergedSerial`, `MergedNumber`), so the S/N of the new card need not be
  the S/N of the line that was looked up.
* `CardOfSerial` is the card of the S/N with the lowest id: the query has no
  ORDER BY, and SQLite delivers equal index entries, and table rows, by id.
  `AcceptedWholeAndOnce` depends on that order.
* Lines may be edited, but nothing accepted, after a delivery is closed; closing
  can be repeated.
* `ReceiveCard`, `CorrectSerial` and `DeleteDuplicate` are the requests of the
  rest of the warehouse that touch the same cards. Write-offs are left out (a
  card with write-offs is one more that cannot be deleted), as are texts other
  than S/N and number, `refresh_delivery_status`, which no route calls, and
  the limits of its preview store: any preview may vanish (`ForgetPreview`).

### PreviewStore

`items` are the previews and `cache` the last rows each author has looked at.
`Preview` stores one and makes room (`StoreFrom`): what has expired, the author's
own beyond `PerAuthor`, the oldest beyond `MaxItems`, and then whatever is oldest
until the rows fit, where a preview and the cache entry of the same rows count
once (`GivenUp`, one disjunct instead of the code's loop: a place is given up when
those after it still exceed the limit). Each preview has the number under which it
was stored, so the order of storing is in the numbers. `Confirm` is one request:
the preview is taken out, its rows are stored as a second preview to be checked
again, and that one is taken out as well. `valid` is the verdict of that check,
which `WarehouseLedger` has in full. Files of inventory numbers and deliveries
take their preview out once and store no second one.

### WebRequests

A POST is a walk of `thread[t].at` through the places where `do_POST` reads the
session: the warehouse (`ReadGate`), the name (`ReadName`), the name once more
for another warehouse (`ReadLent`), the two locks (`Lock`, `LockSite`), the
warehouse again (`ReadTarget`), the handler (`Act`). Every read purges and
touches the session table in one critical section (`Touched`), and finds either
the session or the defaults the code falls back to. `Select` runs without the
locks of the services and `Logout` under them. `Restart` loses everything, as
nothing of this is on disk. One token is one engineer, so that `Author` can be
compared with who asked.

### Vacations

`shifts` are the assignment rows with their first and last day, `requests` the
vacation requests with the conflicts written for each. `Conflicts` is
`detect_conflicts` with its three rules between two vacations and the rule of
the duty group, against the requests in force (`Overlapping`). `Reassigned` is
`add_assignment`: cut the row before, end where the next one begins, overwrite
the same day. A day is a number; day 0 is the anchor of the duty cycle. Each
operation is one step, since a POST holds the lock from its first read on.

### WorkJournal

`logs` are the entries, `book` the names of the dictionary with whether they are
active, `pending` the preview with the rows as read and as shown. `Acceptable` is
the validation of an entry, strict or as shipped; `Softened` what the import makes
of a row with unknown names; `Migrated` what it makes of a row of an old workbook.
`Confirm` reads the rows once more, against the names and the day of that moment,
and writes all of them in one transaction. `HandoverOfToday` is the sheet of what
goes to the next shift. `Toggle` switches a name, `Midnight` moves the clock.

### KnowledgeBase

`upload` is the request that attaches a file: `Open` creates the file, `Write`
fills it, `Record` commits the row, `Fail` is the except branch that removes the
file, `Die` a crash. `Replace` puts an older copy, or a foreign database, in the
place of the operational file, whose rows name files of this directory or of
another one (`Elsewhere`).

### MonitoringSearch

`search[s]` walks through `Ask`, `OpenBrowser`, `ReadCard`, `Ping`, two reads of a
rules file (`Stat`, then `Load` through the cache) and `Answer`. The cache is keyed
by the version that `stat` told before the file was read; what could not be read is
remembered as `Broken`. `Decide` is the choice of the project: rules of the Tech
file by rank and specificity (`Beats`), Salt only by the Tech file, the Digital list
otherwise, copies and exclusions. `ReplaceFile` may come between any two steps.

### DatabaseFiles

A file is the operations in it, the checks it passes (`shape`) and its accounts.
`copies` is the backup directory, `signed` the backups with a manifest, `job`
the request that holds the lock. `create_backup` is `NameCopy`, `FillCopy`,
`VerifyCopy`; a restore or replacement goes on with `Replace`, `InitLive`,
`FinalCheck` and, when anything fails, `Undo` and `Reinit`; a signed backup is
`Draft`, `Publish`, `Manifest`, `Note`. `IOError` may hit any step and does what
the except branch around that step does; `Crash` may end the process at any
step, and `Restart` is the start-up, which initialises the file and checks
nothing. `Login` writes its audit row without the lock, so also between two
steps of a restore.

### OdeDatabase

`creation[p]` is one `db create`: build a draft beside the path, verify it, link it
to the path unless something is there, drop the draft and return (`target`,
`drafts`). An error or Ctrl-C may come at every step: before the link (`StopCreate`),
where the target is taken back (`TakeBack`), and where it is not (`InterruptCreate`:
right after the link, and between the removal of the draft and
`published_by_runner`); each unlink of the clean-up may fail, which leaves what it
was to remove. `unit[u]` is one `with` of the unit of work: opening the file, the
guard against nesting in one context, statements, `commit` (a request that is carried
out at the exit), `rollback`, exceptions of the body, and the end of the process.
`Exit` tells apart how COMMIT or ROLLBACK ended and how the close after it did
(`Outcome`): a close that fails after a COMMIT raises although all is written.
`content[f]` separates the main file from its WAL and records sidecars that nobody
has open. `look` is a read-only command, which refuses a file with sidecars before
and after and opens it as immutable in between.

### CandidateStaging, PilotMigration, FullMigration, FullReview, OfflineBuild

The stages of the migration, each over sheets whose rows are records of what the
code tells apart: the kind of an S/N cell (text, number with its format, formula,
empty), a date or none, attributes, quantity.

* `CandidateStaging` takes the review rows one by one (`Review`: `Obstacle` is why
  one stays open), then stages the operations (`Stage`), collects proposals by the
  key of the catalogue, and writes models and items under the scope of their vendor
  (`ScopeOf`). `Alias` is the upsert of `_insert_alias`.
* `PilotMigration` is `_select` quota by quota over the rows in the order of their
  hashes, `_create_pilot_file`, both validations, and the lists of the review. The
  numbers of the code, 200 rows and the quotas among them, are the constant `Need`.
* `FullMigration` groups the receipts of a key (`Group`, `CurrentRow`,
  `GroupStatus`), opens cards, walks through the issues (`ImportIssue`,
  `RepeatIssue`, `DeferIssue`), writes the totals, commits, and validates
  (`Validated` is `validate_full_database`).
* `FullReview` adds the queries of the review and the gate at start-up (`Opens`).
* `OfflineBuild` has no rows. A version stands for the bytes of a file, a build is a
  list of steps (`CandidateSteps`, `PilotSteps`, `FullSteps`: keep a hash, read,
  name in the provenance, compare) followed by one `os.replace` per output
  (`Publish`). Edits of sources, transactions of the server and the death of a
  builder come between any two steps. The review of the S/N is a source that nothing
  compares after it was read: the pilot names the content it found approved before it
  reads the file, the full build the one it finds after the rows.

### How the modules fit together

Every module but `FullInventory`, `CandidateRehearsal`, `MonitoringSearch`,
`OdeDatabase`, `OfflineBuild` and `WebRequests` takes a POST, or one transaction
of a file, as one step; that is what the lock in `WebRequests` gives
(`OneWriterAtATime`, proved). `DatabaseFiles` takes whatever such a request wrote
as one operation. `Deliveries` and `LegacyEquipment` carry the part of the cards
they need, with the operations of `StockTables` that touch it; `LedgerViews` reads
`StockTables` itself, `FullReview` the tables of `FullMigration`. `PreviewStore` is
what lies between `BeginConfirm` of `WarehouseLedger` and the preview of the same
file. `CandidateRehearsal` is one session of `FullInventory` seen from inside: there
rows are scopes and a preview is many steps, here rows have cells and a preview is
one, which the claim of a run allows. What `FullMigration` commits is an opening
table of `WarehouseLedger`.

## 3. Runs

| Run | Question | Bounds and why they are enough |
|---|---|---|
| `ledger` | single requests: stock, allocations, twins, history, the promise, all screens; files: whole or nothing, dry run and write agree, every request ends | a fresh file (a component, its target, a second card of a number), promoted tables with twins, empty dates and a legacy card, three cable lots on two shelves; 3 cards, 2 write-offs, quantities to 3; 6 files of 1 or 2 rows that depend on each other and 2 of cables, a crash at every step. Behaviours are of single requests, of edits, or of files; 95 942 states |
| `inventory_races` | two requests on one session in every interleaving; a claimed preview ends | 2 threads, 1 workspace, 2 sources, 2 runs, 2 resolutions with crashes; 1 source and 1 resolution while the server stays up; 840 462 states |
| `inventory_calm` | one active session; the candidate is the count | sessions: 2 workspaces, 2 threads, 2 runs, 1 resolution. The count: 5 workbooks of 2 rows (one thing counted twice, a formula, bulk stock in two rows, a number given twice in an unknown place, a vendor spelled twice), up to 5 decisions, 2 previews, 2 builders, a dictionary of which one value is approved late; 1 072 740 states up to the renaming of threads |
| `register` | quantities of rows and cards under both versions; numbers, singly and by file | 2 rows, 2 cards, 2 S/N, 2 numbers, one preview pending; a file of the first version, one with a row and a card on it, one with twins and an unnumbered row. One row has its card and one is kept out, or two share a number; files of a receipt, an issue from two rows and one in two lines from one; quantities to 2 by steps of 1, so a row can have more or less than what was written off its card; 362 399 states |
| `arrivals` | deliveries: links, status, batches, second acceptance; migration: the book is the sheets, a selection can be built, names stay apart, bundles tell the truth | deliveries: two twins or one card at the start, 3 card ids, 2 lines, 2 documents, 4 files, 3 kinds of `values`. Full: up to 3 receipts that differ in date, vendor, spelling and note, or 2 receipts with an issue, or 3 issues. Pilot: 13 rows that meet every quota, any two of them changed in 38 ways, 2 orders of hashes. Candidate: 2 review rows, 3 receipts, 2 issues, 2 vendors spelled in two ways with models of one label. Builds: 2 builds, 2 edits of different sources, or one of the review of the S/N; 752 672 states |
| `office` | vacations: one post a day, no unflagged clash or loss of a shift, decisions; journal: nothing slips away, imported as shown; knowledge base: files and rows agree; letters follow the rules | 3 employees (two who may be leaders, one substitute), 3 days with a duty group each, 4 assignment rows, 2 requests of 5 forms; journal: 2 entries, 3 imports, 2 names that are switched, 2 days; 3 files, 2 articles, 1 backup; 2 searches, 1 replaced file, 1 failed read; 479 163 states |
| `server` | one writer, the right author, sessions stay ended, locks are given back; previews are posted once and forgotten for a reason | 2 threads, 2 sessions of which the table holds one (every second login evicts), 2 warehouses, time to live 1 of 2 ticks; 2 authors, 2 kinds, 3 previews in all and 2 of an author, files of 1 and 2 rows with room for 4 rows, 5 previews stored in all: each limit is the first to bind in some state; 230 372 states |
| `files` | nothing acknowledged is lost, files are whole, a restore ends as one of the two; ODE: published whole, commits whole and seen | 2 operations, 1 login, 2 copies (backups and the safety copies of requests), 1 signed backup, 4 uploads, 2 I/O errors (also one while the first is being undone), 2 crashes; ODE: 2 creators with every error, interruption and failing unlink, one unit of work beside them with Ctrl-C at its exit; then 3 units of which two are in one context and two write, one of them twice and with a close that fails, 1 look; 1 210 105 states |
| `inventory_two_active`, `ode_after_rollback`, `ledger_cable_file`, `routing_damaged` | expected violations, see 5 | the smallest instance that shows each |

Two threads suffice for the races because every conflict is between the request
that looked and the one that changed what it saw; two workspaces because
`OneActive` speaks of two sessions; two units of work in one context and one beside
because nesting and locking are each between two. What bounds the rest is named in
the comments of the MC modules.

Some properties gather what is asked of one thing, as each is refuted by the same
kinds of mistake: `StockIsOneAndMoves` (the screens agree, problems are real, groups
agree, nothing is stuck), `BookIsTheSheets` (the full build, its validation, and the
review of it), `SelectedIsBuilt` (the pilot and its review), `CommitsAreWholeAndSeen`
(units of work and reports), `AcceptedWholeAndOnce` (batches and second acceptance).

**Fairness.** `ledger`: weak fairness of the steps of the one request that holds
the lock (a Python thread that holds a lock keeps running). `inventory_races`, while
the server stays up: weak fairness of every thread's steps. Waiting for SQLite's
lock is a step that is enabled while the lock is free; nobody holds it for ever,
since every holder's next step is a commit, a roll-back or a time-out. `server`:
weak fairness of every handler thread's steps. It does not say who gets a contended
lock (Python's locks are not fair), so what is checked is that a lock that was taken
is given back, not that everyone gets it. Arrivals of requests, crashes and the clock
are never assumed.

`CHECK_DEADLOCK FALSE` except in `server`: when the bounds are reached nothing may
be left to do; a server can always be restarted, so there TLC looks for deadlocks as
well.

## 4. Proofs

Each theorem holds for every value of the constants that meets the assumptions
named with it; TLC evaluates these assumptions in the runs of section 3. The
invariants were tried by TLC before they were proved, except the two that quantify
over what cannot be enumerated (`FileInv`: some walk of images; `JournalInv`: some
day); of these it checked the properties they imply.

**`WarehouseLedgerProofs`**: `BooksKeptSound` (`BooksAreSound`), `TypeCorrect`,
`StockPromiseKept`, `CheckedFileIsWritten`, `FileIsWhole`, `NoTwinsCome`,
`StockIsOne`. `IInv` says of both images, the file's and the open transaction's, that
they are well-formed, no card is written off beyond its quantity, what is anchored to a card is anchored to one
that was there, and a card that lost stock has an allocation row that took it
(`Covered`), so that an id no card has yet has lost none. Of the two together it says
that the transaction has only taken. In the refinement every step maps to a put-in, a
take-out, a forget or a stutter of `StockPromise`.

A file is written without an error after its dry run (`CheckedFileNeverRefused`)
because the application meets the images the dry run met. `FileInv` keeps that walk of
images: while no row was refused there is one from the committed tables to the image
at hand, and the application follows it, since a row determines what it makes of the
tables. That needs FIFO to leave no choice: two allocations of one sum that both
exhaust the older lots first are equal (`OneAllocation`, by `TotalGrows`).
`FileAllOrNothing` follows from `Written`: the transaction has the committed write-offs
and one for each row done. `NoNewTwins` compares the pairs of cards with one S/N before
and after each commit.

`StockIsOne` (`StockIsOneAndMoves`) rests on `AccountsInv`, which adds to `IInv` that
the accounts of both images are balanced (`BalancedIn`: what the aggregate says of a
card is the total of its allocation rows, a matched write-off is covered in full and a
problem row not at all) and that cables are apart (`CablesApart`: a cable has a name,
and its S/N, if any, is no other card's). Then each screen is a regrouping of one total,
what is left of all lots: `Total` is a fold over the rows, and the lemmas `TotalAdds`,
`TotalOfGroups`, `TotalMoves`, `TotalSwaps` and `TotalWithin` say that it may be taken
term by term, by groups, along a renaming, by rows or by columns, and without noughts.
They are proved over the subsets of a finite set, from a smallest one that would break
them. `DashboardBalance`, `PositionsAreLots`, `BoardIsHistory` and `CardTellsItself` do
the regrouping for the boards, positions and histories, `FoundInStock` ties a scan to a
write-off, `DuplicatesAreMany` counts the shared S/N. `NothingStuck` needs the cables
apart: the lot that a write-off by S/N takes first is either no cable or the only card
of its S/N, and then it leaves by its name.

Assumptions: `BoundsAssumption`, `MarkersAssumption`, `InputsAssumption`, and for
`StockIsOne` also `CablesAssumption`: `CablesApart` of the tables the program is started
on. The migration, the only source of twins, leaves the cable type empty, receipts of
cable have no S/N, and the editor refuses an S/N that several cards share.

**`FullInventoryProofs`**: `OneActiveWhenCalm` over `CalmSpec` (nothing raises after
a preview has finished), `ReviewStaysCurrent` over `Spec`. `CalmInv` adds to
`OneActive` that a running preview's session is PREVIEWING and belongs to one thread
(`Building`), that a transaction holds the lock and what it rechecked still holds
(`Writing`), and that every file a creator has scanned stays quiet until it is done
(`Creating`). `ReviewInv` is what a session in REVIEW owes to its latest run and the
resolutions that run has read; it needs no calm.

In the same module, `CandidateCounts` (`CandidateIsTheCount`) of the rehearsal.
A preview is ready only when every finding of every row is settled; findings about
numbers, places and quantities are settled by no decision but one that names them; and
decisions are never changed, so what a preview was built from stays. `RehearsalInv` adds
that a builder works on a preview that is ready (`BuilderStands`), that one builder at
most fills a file (`OneFills`), and that a whole file holds its count (`WholeStands`).
Assumption: `RehearsalAssumption`.

**`LegacyEquipmentProofs`**: `CardsKept` (`CardsStandForStock`) from `Sound`, of the
file and of the open transaction: the write-offs of a card are covered by what backs
it, that is its row if it has one, else the card itself; no row has two cards; and
every card but the one of the row being changed agrees with its row. The exception
makes it inductive, since within `Sync` the row is ahead of its card: `InsertKeeps`,
`DropKeeps` and `CopyKeeps` carry it through the three statements, and the last one
closes the gap. Files of operations widen it: a row in `behind` may hold more than its
card, and of a row in `drained` no quantity is claimed, for it may be less than what
was written off. `NumbersKeptApart` (`NumbersStayApart`) and `ConfirmedAsShown`
(`ConfirmDoesWhatItShowed`) are about the files of inventory numbers. While a batch is
open the committed tables do not change, its own differ from them by the numbers
assigned so far, and no two of its rows announce a change to one card, since rows with
one S/N are errors and no step changes an S/N (`BatchInv`). `AssignKeepsApart`: a number
is assigned only when no other card or row has it. Assumptions: `RegisterBounds`,
`StartAssumption`, `NumberFilesAssumption`.

**`DeliveriesProofs`**: `LinksAreSound`, `StatusIsCurrent`, `AcceptsWholeAndOnce`.
`Good(d, x)` is stated of the committed tables and of those of the open batch: they
have their shape, the links are sound, and the status of every document but `x` is
the one its lines call for, where `x` is the document of the open batch; the status
is refreshed once, at the end. `OnceInv` adds two facts. Every linked card is the
first of its S/N (`Firsts`), so when a line finds the first card of its S/N and that
card is linked, no second line of the S/N can be linked to a twin of it. And the
tables of an open batch come from the committed ones by linking exactly the lines
done so far (`LinkedSince`), so a commit links whole batches, lines that had no card,
to cards nobody had. Assumptions: `DeliveryBounds`, `DeliveryInputs`.

**`MigrationProofs`**: one theorem for each stage of the migration.

* `BundlesAreTrue` (`BundlesTellTheTruth`) is over `BuildSpec` and leaves out the limits
  of the run: builders of all stages run at once and sources change, for any bounds.
  `BuildInv` says that what a build saw of a file lies between the first content it kept
  or named and the one at hand; since no content comes back, all of it is one once the
  two were found equal. What the four lists of steps have to do for that is stated once
  (`WellOrdered`: keep or name before reading, compare after the last reading) and proved
  of each. The review of the S/N, which is not compared, is kept out of it (`But`):
  `Looked` follows the order in which it was named and read (`ReviewOrdered`). That reports are never older than the database follows from the order of the
  outputs, as builds of one stage have growing ids. Assumption: `Bounded`.
* `StagingNamesApart` (`StagingKeepsNamesApart`), from `StagingInv`: one approved value
  for a folded key, every alias leads to a value of its key, and every staged row with a
  vendor and a model has its pair among the spellings in use until the models are
  written, and an approved model afterwards. Of the bag of the spellings only the domain
  matters, and the order in which they are taken does not. Assumptions:
  `SpellingsAreFolded`, `InputsAreSheets`.
* `PilotIsBuilt` (`SelectedIsBuilt`), from `PilotInv`: no selection that was accepted is
  found unbuildable. The rows taken for cards may become cards and have different match
  keys, what repeats an identity has its import, and from the first quota on there is an
  S/N with a leading zero, which the probe of the builder needs. Two steps never take one
  group because groups of rows that say the same do not contradict each other and the
  groups of histories are neither (`KindsApart`), and the rows of the quotas are alone in
  theirs (`Singles`). The quotas are arbitrary, but for the one of leading zeros.
  Assumptions: `SheetsAreRanked`, `ZeroIsNeeded`, `NoRowIsNone`.
* `BookIsOfTheSheets` (`BookIsTheSheets`), over `NextFull` and the queries of the review.
  `FullInv` follows the build row by row: `BookOK` says what each card, entry, issue and
  relation owes to the rows read so far, `LedgerOK` that the tallies are the numbers of
  entries by status, `Finished` what the committed totals are. Every filter of the
  review is a set of entries, and each total is compared with the cardinality of one.
  That a group has a current row is `LatestExists`, by the number of rows above it; that
  cards and current rows are equally many, `HeldAreCurrent`. Assumptions: `CellsAreRead`, `BooksAreSheets`.

**`DatabaseFilesProofs`**: `NothingIsLost`, `FilesKeptWhole`, `EndsAsOneOfTheTwo`. The
argument is about the safety copy: from its check to the end of the request it holds
all that the operational file held (`Held`), so whatever takes the file's place, the
operations are in one of them; before its check it holds nothing the file does not
hold too (`Filling`), so a failure may remove it. `Checked` says that what is about to
replace the file has passed the check, `SigningInv` that a manifest is written for the
backup published last, `EndInv` which of the two contents the file has at each
position of the request. `PublishedWhole` and `CommitsWholeAndSeen` are about
`OdeDatabase`, from `OdeInv`: where a creation stands tells what is on disk, also after
it was killed or could not clean up (`Stands`), and from its link on it alone has the
path (`Holding`), so what it takes back is its own; a unit that has not left the
transaction it began has nothing in the file, and one that has left it all or nothing,
as its end tells (`UnitSound`, `Told`); what has not reached
the main file has sidecars beside it (`LogIsSeen`), which is why a report that finds
none may read the main file alone. Assumptions: `FileAssumption`, `OdeAssumption`.

**`ServerProofs`**: `OneWriter` (`OneWriterAtATime`): whoever is past the first lock
(`Guarded`) holds the primary one until the request ends, also when it took the lock
of another warehouse with it; choosing a warehouse takes none, which is why `Guarded`
leaves it out. `EndedStayEnded` (`NoSessionReturns`) is an action property of the
table of sessions. `AuthorIsKnown` (`NamelessOnlyAfterAChange`) rests on `AuthorKnown`:
a read that found no session says something about every later moment, as tokens are
issued once. `WrittenOnce` (`PostedOnce`) and `PreviewTypes`: numbers of previews only
grow, and none that was posted is in the store. `ForgetsOnlyForRoom`
(`ForgetsJustEnough`) rests on `StoreInv`: the store and the cache are finite, no two
rows in either share an id, and both are within the limits. `TotalStep` gives the total
of the rows, a fold over a finite set, by one row less; `TotalAdds` and `TotalGrows`
follow from the smallest set that would break them. `StoreSteps` separates the limits on
previews from the one on rows: of the places kept, the one that would be given up first
was left because its total fits, and all that is kept is within that total
(`RoomForRows`). A confirmation costs nobody a preview because the one taken out leaves
its place, its author's place and its rows to the second one. Assumptions: `WebBounds`,
`PreviewBounds`.

**`OfficeProofs`**: `OnePost`, `VerdictsAreTrue`, `ClashesAreSeen`, `LossesAreFlagged`,
`AttachmentsAgree`, `NothingSlips`, `WrittenAsShown`, `LettersFollow`. `OnePostADay` by itself is not inductive: `Covered` adds that no
row ends before it begins, and says of every day from a row's first on that one row
of the employee holds it. `ReassignedKeeps` is the lemma on `add_assignment`: at most
one row reaches over the day and is cut, the new row ends where the earliest later
row begins (`EarliestFacts`, by well-foundedness of the days), and the days before,
within and after it are three cases. `ClashesAreSeen` needs little more than the
property (`ClashInv`: whoever asks is registered), but a comparison of the three rules of
`Conflicts` with what the property calls a clash, for the new request and for each old
one. `KnowledgeInv` says that the rows refer to finished files and each to its own, of
the operational database and of every copy that may come back, so that a restore does
not bring back a row without its file. `NothingSlips` (`NothingSlipsAway`) and
`WrittenAsShown` (`ImportedAsShown`) are over `JournalSpec`. `JournalInv` keeps of every
entry that it is normalised as the code writes it, and of every row of an open preview
that it was refused or is the entry that row gives on some day: the day it was shown,
which need not be the day it is confirmed. `LettersFollow` (`LettersFollowTheRules`) is
about any number of searches and replacements of the files. `SearchInv` says that the
cache is never ahead of a file and right about the version on disk (under an older
version it may remember later contents, which nobody asks for again), and that what a
search has read was on disk while it ran. `BestFacts` is about the choice itself: if a
rule matches one is taken, and one taken alone beats the others of its kind. Assumptions:
`VacationBounds`, `KnowledgeBounds`, `JournalBounds` (a section of the dictionary is not
also the name of a source or of a state), `RulesAreLists`.

Only model-checked: the three liveness properties `PreviewEndsWhileUp`,
`FileRequestEnds` and `LocksAreGivenBack`, since ENABLED and fairness are out of the
prover's reach. Every other property of the passing runs is stated by a theorem of
this section.

## 5. Where the code disagrees with what is said of it

Four runs end in a violation, each of something the repository says:

* `inventory_two_active`: the summary of a finished preview is computed inside the
  try, and a journal of another request fails it late; two sessions become active.
  The same late failure also overwrites REJECTED.
* `ode_after_rollback`: after `rollback()` the next `execute` of the same unit runs
  outside any transaction and is in the file at once, commit or not
  (`transaction-model.md:18`).
* `ledger_cable_file`: a file of cable write-offs commits row by row, so a refused
  row leaves those before it (`SECURITY_REVIEW.md:275`).
* `routing_damaged`: with a damaged file of rules the letter is ready all the same
  (`MONITORING_HOSTNAME_ROUTING.md:38`).

Met while modelling, without a run of their own.

Ledger, views, numbers:

* The correction of a duplicate S/N renames a card that has no duplicate
  (`receipt_repository.py:429`; docs/DATA_QUALITY_OPERATIONS.md:61 speaks of a card
  of a group of duplicates). The displayed S/N stays the old one.
* `add_equipment` compares an S/N with rows only, and the copy of the row is INSERT
  OR IGNORE, so what is in stock as a card can be received again as a row
  (`inventory.py:95`; README.md:29).
* `import_operation_rows` (reached through `service.py:175`; no command or route calls
  it, tests do) never syncs the card, though `_sync_legacy_stock_receipt` is there to
  synchronise legacy operations with the card (`inventory.py:93`). It compares an issue
  with the row alone (`inventory.py:375`), so the next operation by hand on that row can
  shrink its card below what was written off it.
* The guard of provisional numbers is missing where a file brings numbers
  (`facade.py:183`, `receipt_imports.py:199`; docs/FULL_WAREHOUSE_MIGRATION.md:138);
  where it is present, it also refuses a card with a proven S/N if a provisional row
  has the same digits (`migration_full_review.py:207`).
* `warehouse_history` takes the newest 300 of each source with openings last and
  sorts by date afterwards, so dated openings may be missing. An empty project is
  incomplete in `data_quality_problems` and not in its counts. The category in SQL is
  case-sensitive for Cyrillic, `operational_category` is not.

FULL inventory:

* `_finding_resolved` (`service.py:635`) ends at the first decision that concerns a
  finding. LINK, CREATE and CHOOSE_CATALOG_ITEM concern every finding of a row, so
  after one of them an exclusion, a correction or a choice of location settles
  nothing, and the row stays BLOCKED until the earlier decision is superseded
  (docs/MANUAL_TESTING_0_14_FULL_INVENTORY.md:42). A chosen location settles whatever
  text it has; an excluded row still makes a later one a duplicate.
* A session whose dictionary changed can only be rejected: the mismatch is a finding
  nothing resolves, and a new upload is refused after the review. Its READY preview
  can still be built.
* A crash in the middle of a preview leaves the session PREVIEWING, and every request
  that could move it refuses (`baseline/service.py:1704`). A crash in a build leaves
  an empty candidate for ever; later builds refuse it and the next identical preview
  ends FAILED (`service.py:1475`, `1593`).
* The Lot of a row is checked and not written, so two lots of one stock key refuse
  the build with an IntegrityError, as do two spellings that are one under `_key`.

Office, server, files:

* A transfer is refused when it leaves the duty group of IXcellerate empty on the day
  it takes effect (`validation.py:149`); later days, on which another member's own
  transfer takes effect, are not looked at. Conflicts belong to the requests as they
  were written: a transfer afterwards does not make new ones, which is why
  `ShiftLossIsFlagged` speaks of steps that leave the assignments alone. The rules
  about substitutes look only at the first day two vacations share, so `NoSilentClash`
  leaves them out.
* A carried-over task that is finished later under its old date is on no sheet of
  finished work. A status is accepted in any case and stored as typed, so "done" stays
  in the handover. `assign_section` clears the flag of a row whose other placeholders
  remain. A preview that showed refused rows can be confirmed when they pass by then.
* Dictionaries: `form_references` lists ids of two tables and `set_reference_active`
  (`reference_service.py:67`) applies each to the newer one; `form_reference_sets` and
  `collect_pending` (`references.py:141`, `172`) have no caller, although
  docs/REFERENCE_DATA_ARCHITECTURE.md:56 gives them the decision.
* Backups do not contain the files of the knowledge base; a file whose row was not
  written because of a crash is never collected.
* A file that passes the check with the base tables but not with the key tables
  cannot be restored over while it is the operational file: the safety copy of it is
  refused (`backup.py:105`).
* The audit row of a login written between the safety copy and the rename is lost
  with the file it went to. `NothingLost` speaks of operations under the lock.

Monitoring, ODE, migration:

* A transient failure to read a file of rules is remembered until the file changes.
  `global_cc` is added also to excluded addresses. The DCIM card is chosen by a
  substring, or because it is the only link, and may belong to another device.
* A write unit on an absent path leaves an empty file, a read-only unit may leave
  sidecars, and each makes later commands refuse the database.
* Ctrl-C right after `os.link` (`migrations.py:557`) or before `published_by_runner`
  (`migrations.py:278`) leaves the whole target, and the command ends as interrupted;
  an unlink that fails leaves the candidate (`_cleanup_candidate` ignores only absent
  files), or the target, of which the message then says "target was not published"
  (`migrations.py:297`). `PublishedWholeOrNotAtAll` says what is kept all the same.
* UnitOfWorkCloseError on its own says nothing of the COMMIT before it: all is written
  (`database.py:580`; tests/ode013/test_paths_uow.py:616).
* The full build compares hashes of its inputs, but not with the provenance the
  candidate has registered (`pilot_selector.py:815` does;
  docs/FULL_WAREHOUSE_MIGRATION.md:60).
* `serial_review.xlsx` is read by the full build (`full_builder.py:1570`), hashed later
  for the build key (`full_builder.py:1686`) and compared with nothing, although the
  docstring at 2703 proves all sources unchanged: the marker may name a content the
  rows were not decided by. The pilot compares the hash with the approved one and then
  opens the file again (`pilot_selector.py:442`, `447`), so it may read a later content
  under the approved hash (`pilot_builder.py:559`). `BundlesTellTheTruth` therefore
  claims the order only.
* The target of a component is looked up among the cards opened so far
  (`full_builder.py:1375`; docs/FULL_WAREHOUSE_MIGRATION.md:204).
* UNIQUE(canonical_item_name, part_number) (`staging_schema.py:124`) is narrower than
  the key of the catalogue, which has the model: two models of one name and number
  refuse the whole candidate.

## 6. Not modelled

* Inside modelled components: audit and activity rows, warnings and hints, evidence
  tables, texts of reports and letters, limits of lists and formats.
* The throttle of failed logins (`webapp.py:597`): its two critical sections are
  independent of everything else here. Parsing and routing of requests, static files,
  start-up contours, the registry of sites.
* GET requests: they read the committed file. While a file is replaced
  (`backup.py:171`) they may read either.
* Command lines started beside the server: the legacy operations are one step each,
  although `sqlite3` begins a transaction only at the first write (`inventory.py:219`).
* The folding of case: identifiers are compared by equality; Python's casefold and
  SQLite's NOCASE agree on ASCII only (`receipt_repository.py:593`).
* The daily and weekly reports with their uploads and statistics; the editor of the
  dictionaries; the frontend; the parsers of spreadsheets and of pages of Zabbix and
  DCIM; the browser; packaging and maintenance scripts.
* In ODE the tokenizer of statements, the policy of paths, the verdict of the health
  check and the DDL, which nothing in `ode/` executes. Ctrl-C inside the few lines of
  the `finally` of `__exit__` itself; and a COMMIT that raises is taken to have written
  nothing, which is SQLite's promise and not this code's.
* For the migration: the contents of a source changing and changing back during a
  build, two builders of one stage, health checks between the steps.
