--------------------------- MODULE FullInventory ---------------------------
(***************************************************************************)
(* Sessions of the FULL inventory preview.                                 *)
(*                                                                         *)
(* A session lives in a workspace file of its own. The handlers run        *)
(* without the service's lock, so requests meet in the files: every        *)
(* request first verifies all workspace files, one after another, and then *)
(* works on one of them under SQLite's write lock. A file whose write      *)
(* transaction has begun has a rollback journal beside it, and a file with *)
(* a journal does not verify; a crash leaves the journal behind.           *)
(*                                                                         *)
(* While a thread holds the write lock nobody else changes the file, so a  *)
(* transaction is its lock step and its commit step. Reference data of the *)
(* operational database, hence a source's blocking findings, are fixed.    *)
(***************************************************************************)
EXTENDS Integers, FiniteSets, Sequences

CONSTANTS
  Threads, NoThread,  \* request threads of the HTTP server
  MaxWorkspaces,      \* bound: workspace files ever created
  Sources, NoSource,  \* XLSX files an operator may upload
  Scopes,             \* what a resolution can be about: a row, a field of it
  Blocking,           \* scopes of a source with a blocking finding
  MaxRuns,            \* bound: previews of a session
  MaxResolutions,     \* bound: resolutions of a session
  NoArg

ASSUME ConstantsAssumption ==
  /\ MaxWorkspaces \in Nat
  /\ MaxRuns \in Nat
  /\ MaxResolutions \in Nat
  /\ NoThread \notin Threads
  /\ NoSource \notin Sources
  /\ Blocking \in [Sources -> SUBSET Scopes]

\* Workspace files in the order of their names.
Workspaces == 1..MaxWorkspaces

ActiveStatuses ==
  {"DRAFT", "UPLOADED", "PREVIEWING", "REVIEW_REQUIRED", "READY_FOR_APPROVAL"}
ReviewStatuses == {"REVIEW_REQUIRED", "READY_FOR_APPROVAL"}

\* ABSENT: there is no file; EMPTY: the file has no row in preview_sessions.
Statuses == ActiveStatuses \cup {"FAILED", "REJECTED", "ABSENT", "EMPTY"}

RunStatuses == {"RUNNING", "READY", "CANCELLED", "FAILED"}

\* A preview run: the source it reads, the resolutions it applies, its outcome.
Run == [status : RunStatuses, source : Sources \cup {NoSource},
        plan : SUBSET (1..MaxResolutions), verdict : ReviewStatuses]

\* settles: the action resolves the finding (DEFER_ROW does not).
Resolution == [run : 1..MaxRuns, scope : Scopes, settles : BOOLEAN,
               supersedes : 0..MaxResolutions]

Session == [status : Statuses, source : Sources \cup {NoSource},
            active : 0..MaxRuns, runs : Seq(Run), resolutions : Seq(Resolution)]

NoSession == [status |-> "ABSENT", source |-> NoSource, active |-> 0,
              runs |-> <<>>, resolutions |-> <<>>]

Kinds == {"none", "create", "upload", "preview", "resolve", "reject"}

Stages ==
  {"idle",
   "scan",    \* verifying the workspace files
   "file",    \* create: about to create the workspace file
   "store",   \* upload: about to put the source into the vault
   "lock",    \* waiting for the write lock
   "write",   \* rechecked under the write lock, about to commit
   "read",    \* preview: run claimed, about to read the resolutions
   "build",   \* preview: about to write the first row
   "rows",    \* preview: writing rows in one transaction
   "answer",  \* preview: committed, verifying the files for the summary
   "fail",    \* preview: in the except branch
   "undo"}    \* preview: in the except branch, about to commit FAILED

Request == [kind : Kinds, stage : Stages, w : 0..MaxWorkspaces,
            arg : Sources \cup Resolution \cup {NoArg}, run : 0..MaxRuns,
            plan : SUBSET (1..MaxResolutions), todo : SUBSET Workspaces]

Idle == [kind |-> "none", stage |-> "idle", w |-> 0, arg |-> NoArg, run |-> 0,
         plan |-> {}, todo |-> {}]

VARIABLES
  disk,    \* what each workspace file holds
  writer,  \* the thread whose write transaction is open on it
  hot,     \* files with the journal of a crashed transaction
  vault,   \* sources in the content-addressed vault
  creator, \* the thread that holds .session-create-lock.db
  op       \* the request each thread serves

vars == <<disk, writer, hot, vault, creator, op>>

TypeOK ==
  /\ disk \in [Workspaces -> Session]
  /\ writer \in [Workspaces -> Threads \cup {NoThread}]
  /\ hot \subseteq Workspaces
  /\ vault \subseteq Sources
  /\ creator \in Threads \cup {NoThread}
  /\ op \in [Threads -> Request]

Init ==
  /\ disk = [w \in Workspaces |-> NoSession]
  /\ writer = [w \in Workspaces |-> NoThread]
  /\ hot = {}
  /\ vault = {}
  /\ creator = NoThread
  /\ op = [t \in Threads |-> Idle]

Files == {w \in Workspaces : disk[w].status # "ABSENT"}
IsActive(w) == disk[w].status \in ActiveStatuses

\* verify_workspace accepts the file.
Verifies(w) == writer[w] = NoThread /\ w \notin hot

-----------------------------------------------------------------------------
(* What a session becomes. *)

Drafted(s) == [s EXCEPT !.status = "DRAFT"]

Uploaded(s, source) ==
  [s EXCEPT !.status = "UPLOADED", !.source = source, !.active = 0]

Claimed(s) ==
  [s EXCEPT !.status = "PREVIEWING",
            !.active = Len(s.runs) + 1,
            !.runs = Append(@, [status |-> "RUNNING", source |-> s.source,
                                plan |-> {}, verdict |-> "REVIEW_REQUIRED"])]

\* Resolutions no later one supersedes.
ActiveResolutions(s) ==
  {i \in DOMAIN s.resolutions :
     \A j \in DOMAIN s.resolutions : s.resolutions[j].supersedes # i}

OpenBlockers(s, source, plan) ==
  {x \in Blocking[source] :
     ~ \E i \in plan : s.resolutions[i].scope = x /\ s.resolutions[i].settles}

Verdict(s, source, plan) ==
  IF OpenBlockers(s, source, plan) = {} THEN "READY_FOR_APPROVAL" ELSE "REVIEW_REQUIRED"

\* Mutant: the digest leaves the resolutions out.
IdenticalIgnoresPlan(s, source, plan) ==
  {r \in DOMAIN s.runs : s.runs[r].status = "READY" /\ s.runs[r].source = source}

\* Earlier READY runs with the digest of a run of this source and plan.
Identical(s, source, plan) ==
  {r \in DOMAIN s.runs :
     s.runs[r].status = "READY" /\ s.runs[r].source = source /\ s.runs[r].plan = plan}

EndRun(s, run, status, plan) ==
  [s.runs EXCEPT ![run] =
     [@ EXCEPT !.status = status, !.plan = plan,
               !.verdict = Verdict(s, s.runs[run].source, plan)]]

\* The end of a preview: a new READY run, or the first READY run that is
\* identical to it. The status of the session is not looked at again.
Previewed(s, run, plan) ==
  LET same == Identical(s, s.runs[run].source, plan) IN
  IF same = {}
  THEN [s EXCEPT !.runs = EndRun(s, run, "READY", plan),
                 !.status = Verdict(s, s.runs[run].source, plan)]
  ELSE LET first == CHOOSE r \in same : \A x \in same : r <= x IN
       [s EXCEPT !.runs = EndRun(s, run, "CANCELLED", plan),
                 !.status = s.runs[first].verdict,
                 !.active = first]

\* The except branch of build_preview, whatever the status is by now.
Failed(s, run) ==
  [s EXCEPT !.status = "FAILED", !.runs = [@ EXCEPT ![run].status = "FAILED"]]

Resolved(s, resolution) ==
  [s EXCEPT !.status = "REVIEW_REQUIRED", !.resolutions = Append(@, resolution)]

Rejected(s) ==
  [s EXCEPT !.status = "REJECTED",
            !.runs = [r \in DOMAIN @ |->
                        IF r = s.active /\ @[r].status = "RUNNING"
                        THEN [@[r] EXCEPT !.status = "CANCELLED"]
                        ELSE @[r]]]

-----------------------------------------------------------------------------
(* Conditions of the requests. *)

SameScope(s, resolution) ==
  {i \in ActiveResolutions(s) : s.resolutions[i].scope = resolution.scope}

\* A resolution of a scope that has one must supersede exactly that one. One
\* that is already recorded in the run is answered without writing it again.
CanResolve(s, resolution) ==
  /\ s.status \in ReviewStatuses
  /\ resolution.run = s.active
  /\ Len(s.resolutions) < MaxResolutions
  /\ \A i \in DOMAIN s.resolutions : s.resolutions[i] # resolution
  /\ IF SameScope(s, resolution) = {}
     THEN resolution.supersedes = 0
     ELSE /\ resolution.supersedes \in SameScope(s, resolution)
          /\ \A i \in SameScope(s, resolution) : i <= resolution.supersedes

CanPreview(s) ==
  /\ s.status \in {"UPLOADED"} \cup ReviewStatuses
  /\ Len(s.runs) < MaxRuns

\* Mutant: nothing is checked again under the lock for an upload.
RecheckUploadDropped(s, o) ==
  CASE o.kind = "create"  -> s.status = "EMPTY"
    [] o.kind = "upload"  -> TRUE
    [] o.kind = "preview" -> CanPreview(s)
    [] o.kind = "resolve" -> CanResolve(s, o.arg)
    [] o.kind = "reject"  -> s.status \notin {"REJECTED", "PREVIEWING"}

\* The second look, after BEGIN IMMEDIATE.
Recheck(s, o) ==
  CASE o.kind = "create"  -> s.status = "EMPTY"
    [] o.kind = "upload"  -> s.status \in {"DRAFT", "UPLOADED"}
    [] o.kind = "preview" -> CanPreview(s)
    [] o.kind = "resolve" -> CanResolve(s, o.arg)
    [] o.kind = "reject"  -> s.status \notin {"REJECTED", "PREVIEWING"}

\* The first look, at the file as verify_workspace read it. A new session
\* needs every other one to be over: an active one refuses it, a failed one
\* makes the whole system DEGRADED.
FirstLook(w, o) ==
  CASE o.kind = "create"  -> disk[w].status \in {"EMPTY", "REJECTED"}
    [] o.kind = "upload"  -> w = o.w => disk[w].status \in {"DRAFT", "UPLOADED"}
    [] o.kind = "preview" -> w = o.w => disk[w].status \in {"UPLOADED"} \cup ReviewStatuses
    [] o.kind = "resolve" -> w = o.w => disk[w].status \in ReviewStatuses
    [] o.kind = "reject"  -> w = o.w => disk[w].status # "REJECTED"

Effect(s, o) ==
  CASE o.kind = "create"  -> Drafted(s)
    [] o.kind = "upload"  -> Uploaded(s, o.arg)
    [] o.kind = "preview" -> Claimed(s)
    [] o.kind = "resolve" -> Resolved(s, o.arg)
    [] o.kind = "reject"  -> Rejected(s)

-----------------------------------------------------------------------------
(* Steps of a request. *)

Goto(t, stage) == op' = [op EXCEPT ![t].stage = stage]
Ends(t) == op' = [op EXCEPT ![t] = Idle]
FreesCreator(t) == creator' = IF creator = t THEN NoThread ELSE creator
Locks(t, w) == writer' = [writer EXCEPT ![w] = t]
Unlocks(w) == writer' = [writer EXCEPT ![w] = NoThread]

\* Where a request goes on when every file has verified.
AfterScan(kind) ==
  CASE kind = "create" -> "file"
    [] kind = "upload" -> "store"
    [] OTHER           -> "lock"

\* Mutant: the creation lock is not taken.
BeginCreateUnlocked(t) ==
  /\ op[t].stage = "idle"
  /\ Files # Workspaces
  /\ op' = [op EXCEPT ![t] =
              [Idle EXCEPT !.kind = "create", !.todo = Files,
                           !.stage = IF Files = {} THEN "file" ELSE "scan"]]
  /\ UNCHANGED <<disk, writer, hot, vault, creator>>

\* create_session: BEGIN IMMEDIATE on the lock file, or the request is refused.
BeginCreate(t) ==
  /\ op[t].stage = "idle"
  /\ Files # Workspaces
  /\ creator = NoThread
  /\ creator' = t
  /\ op' = [op EXCEPT ![t] =
              [Idle EXCEPT !.kind = "create", !.todo = Files,
                           !.stage = IF Files = {} THEN "file" ELSE "scan"]]
  /\ UNCHANGED <<disk, writer, hot, vault>>

\* Any other request names a session that exists.
Begin(t, kind, w, arg) ==
  /\ op[t].stage = "idle"
  /\ disk[w].status \notin {"ABSENT", "EMPTY"}
  /\ op' = [op EXCEPT ![t] =
              [Idle EXCEPT !.kind = kind, !.w = w, !.arg = arg,
                           !.todo = Files, !.stage = "scan"]]
  /\ UNCHANGED <<disk, writer, hot, vault, creator>>

NextFile(t) == CHOOSE w \in op[t].todo : \A x \in op[t].todo : w <= x

ScanFile(t) ==
  /\ op[t].stage = "scan"
  /\ Verifies(NextFile(t))
  /\ FirstLook(NextFile(t), op[t])
  /\ LET rest == op[t].todo \ {NextFile(t)} IN
     op' = [op EXCEPT ![t].todo = rest,
                      ![t].stage = IF rest = {} THEN AfterScan(op[t].kind) ELSE "scan"]
  /\ UNCHANGED <<disk, writer, hot, vault, creator>>

ScanRefuses(t) ==
  /\ op[t].stage = "scan"
  /\ ~ (Verifies(NextFile(t)) /\ FirstLook(NextFile(t), op[t]))
  /\ Ends(t)
  /\ FreesCreator(t)
  /\ UNCHANGED <<disk, writer, hot, vault>>

\* create_workspace: a temporary file takes its name once it is complete.
CreateFile(t) ==
  /\ op[t].stage = "file"
  /\ \E w \in Workspaces \ Files :
       /\ disk' = [disk EXCEPT ![w].status = "EMPTY"]
       /\ op' = [op EXCEPT ![t].stage = "lock", ![t].w = w]
  /\ UNCHANGED <<writer, hot, vault, creator>>

StoreSource(t) ==
  /\ op[t].stage = "store"
  /\ vault' = vault \cup {op[t].arg}
  /\ Goto(t, "lock")
  /\ UNCHANGED <<disk, writer, hot, creator>>

TakeLock(t) ==
  /\ op[t].stage = "lock"
  /\ writer[op[t].w] = NoThread
  /\ Recheck(disk[op[t].w], op[t])
  /\ Locks(t, op[t].w)
  /\ Goto(t, "write")
  /\ UNCHANGED <<disk, hot, vault, creator>>

LockRefuses(t) ==
  /\ op[t].stage = "lock"
  /\ writer[op[t].w] = NoThread
  /\ ~ Recheck(disk[op[t].w], op[t])
  /\ Ends(t)
  /\ FreesCreator(t)
  /\ UNCHANGED <<disk, writer, hot, vault>>

Commit(t) ==
  LET w == op[t].w IN
  /\ op[t].stage = "write"
  /\ disk' = [disk EXCEPT ![w] = Effect(@, op[t])]
  /\ Unlocks(w)
  /\ FreesCreator(t)
  /\ IF op[t].kind = "preview"
     THEN op' = [op EXCEPT ![t].stage = "read", ![t].run = Len(disk[w].runs) + 1]
     ELSE Ends(t)
  /\ UNCHANGED <<hot, vault>>

\* The source is parsed and the resolutions are read, with no lock.
ReadPlan(t) ==
  /\ op[t].stage = "read"
  /\ op' = [op EXCEPT ![t].stage = "build",
                      ![t].plan = ActiveResolutions(disk[op[t].w])]
  /\ UNCHANGED <<disk, writer, hot, vault, creator>>

BuildRows(t) ==
  /\ op[t].stage = "build"
  /\ writer[op[t].w] = NoThread
  /\ Locks(t, op[t].w)
  /\ Goto(t, "rows")
  /\ UNCHANGED <<disk, hot, vault, creator>>

BuildCommit(t) ==
  LET w == op[t].w IN
  /\ op[t].stage = "rows"
  /\ disk' = [disk EXCEPT ![w] = Previewed(@, op[t].run, op[t].plan)]
  /\ Unlocks(w)
  /\ op' = [op EXCEPT ![t].stage = "answer", ![t].todo = Files]
  /\ UNCHANGED <<hot, vault, creator>>

\* Mutant: no except branch.
BuildFailsSilently(t) ==
  LET w == op[t].w IN
  /\ op[t].stage \in {"read", "build", "rows"}
  /\ writer' = [writer EXCEPT ![w] = IF @ = t THEN NoThread ELSE @]
  /\ Ends(t)
  /\ UNCHANGED <<disk, hot, vault, creator>>

\* Parsing or writing raises: the transaction is rolled back, if one is open.
BuildFails(t) ==
  LET w == op[t].w IN
  /\ op[t].stage \in {"read", "build", "rows"}
  /\ writer' = [writer EXCEPT ![w] = IF @ = t THEN NoThread ELSE @]
  /\ Goto(t, "fail")
  /\ UNCHANGED <<disk, hot, vault, creator>>

\* preview_summary verifies every file again before it answers ...
Answer(t) ==
  /\ op[t].stage = "answer"
  /\ Verifies(NextFile(t))
  /\ LET rest == op[t].todo \ {NextFile(t)} IN
     IF rest = {} THEN Ends(t) ELSE op' = [op EXCEPT ![t].todo = rest]
  /\ UNCHANGED <<disk, writer, hot, vault, creator>>

\* ... still inside the try: a journal seen now fails the finished preview.
LateFailure(t) ==
  /\ op[t].stage = "answer"
  /\ ~ Verifies(NextFile(t))
  /\ Goto(t, "fail")
  /\ UNCHANGED <<disk, writer, hot, vault, creator>>

FailLock(t) ==
  /\ op[t].stage = "fail"
  /\ writer[op[t].w] = NoThread
  /\ Locks(t, op[t].w)
  /\ Goto(t, "undo")
  /\ UNCHANGED <<disk, hot, vault, creator>>

FailCommit(t) ==
  LET w == op[t].w IN
  /\ op[t].stage = "undo"
  /\ disk' = [disk EXCEPT ![w] = Failed(@, op[t].run)]
  /\ Unlocks(w)
  /\ Ends(t)
  /\ UNCHANGED <<hot, vault, creator>>

\* busy_timeout runs out; only the rows of a preview are written for so long.
BusyTimeout(t) ==
  /\ op[t].stage \in {"lock", "build", "fail"}
  /\ \E u \in Threads \ {t} : writer[op[t].w] = u /\ op[u].stage = "rows"
  /\ IF op[t].stage = "build" THEN Goto(t, "fail") ELSE Ends(t)
  /\ FreesCreator(t)
  /\ UNCHANGED <<disk, writer, hot, vault>>

\* The server dies: requests and locks are gone, open transactions leave their
\* journals.
Crash ==
  /\ hot' = hot \cup {w \in Workspaces : writer[w] # NoThread}
  /\ writer' = [w \in Workspaces |-> NoThread]
  /\ creator' = NoThread
  /\ op' = [t \in Threads |-> Idle]
  /\ UNCHANGED <<disk, vault>>

Arrive(t) ==
  \/ BeginCreate(t)
  \/ \E w \in Workspaces :
       \/ \E source \in Sources : Begin(t, "upload", w, source)
       \/ Begin(t, "preview", w, NoArg)
       \/ \E resolution \in Resolution :
            /\ resolution.run <= Len(disk[w].runs)
            /\ resolution.supersedes <= Len(disk[w].resolutions)
            /\ Begin(t, "resolve", w, resolution)
       \/ Begin(t, "reject", w, NoArg)

CalmStep(t) ==
  \/ ScanFile(t) \/ ScanRefuses(t)
  \/ CreateFile(t) \/ StoreSource(t)
  \/ TakeLock(t) \/ LockRefuses(t) \/ Commit(t)
  \/ ReadPlan(t) \/ BuildRows(t) \/ BuildCommit(t) \/ BuildFails(t)
  \/ Answer(t)
  \/ FailLock(t) \/ FailCommit(t)
  \/ BusyTimeout(t)

Step(t) == CalmStep(t) \/ LateFailure(t)

Serve == \E t \in Threads : Arrive(t) \/ Step(t)
Next == Serve \/ Crash
Spec == Init /\ [][Next]_vars

\* Schedules in which no summary meets a journal.
CalmNext == (\E t \in Threads : Arrive(t) \/ CalmStep(t)) \/ Crash
CalmSpec == Init /\ [][CalmNext]_vars

\* The operating system runs every request thread.
Fairness == \A t \in Threads : WF_vars(Step(t))

-----------------------------------------------------------------------------
(* Properties. *)

\* At most one session is active (create_session: "an active FULL inventory
\* session already exists"; system_status counts more than one as damage).
OneActive ==
  \A w1, w2 \in Workspaces : IsActive(w1) /\ IsActive(w2) => w1 = w2

\* What a session shows for review was read from the source it names, by a
\* finished run, and that source is in the vault.
EvidenceOfSource ==
  \A w \in Workspaces :
    /\ disk[w].source # NoSource => disk[w].source \in vault
    /\ disk[w].status \in ReviewStatuses =>
         \E r \in DOMAIN disk[w].runs :
           /\ r = disk[w].active
           /\ disk[w].runs[r].status = "READY"
           /\ disk[w].runs[r].source = disk[w].source

\* READY_FOR_APPROVAL is about the resolutions as they are now: the active run
\* applied exactly the active ones, and they leave no blocker open.
ReadyReflectsResolutions ==
  \A w \in Workspaces :
    LET s == disk[w] IN
    s.status = "READY_FOR_APPROVAL" =>
      /\ s.runs[s.active].plan = ActiveResolutions(s)
      /\ OpenBlockers(s, s.source, ActiveResolutions(s)) = {}

\* What a session offers for approval is what its own source and resolutions say.
ReviewIsCurrent == EvidenceOfSource /\ ReadyReflectsResolutions

\* A session leaves PREVIEWING: build_preview ends it in review or as FAILED.
PreviewEnds ==
  \A w \in Workspaces :
    disk[w].status = "PREVIEWING" ~> disk[w].status # "PREVIEWING"
=============================================================================
