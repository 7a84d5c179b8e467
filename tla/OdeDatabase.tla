------------------------------ MODULE OdeDatabase ------------------------------
(***************************************************************************)
(* The database of the next version (ode/): its creation, the units of     *)
(* work that write to it, and the read-only commands that look at it.      *)
(*                                                                         *)
(*   creation  what each `db create` is doing                              *)
(*   drafts    creations whose candidate file is in the directory          *)
(*   target    the file behind the database's path                         *)
(*   content   what a file holds: migrations run and registered, the       *)
(*             committed writes in the main file and in its WAL, whether   *)
(*             it is in WAL mode (logged), and whether sidecars were left  *)
(*             beside it that nobody has open (stale)                      *)
(*   unit      what each unit of work is doing                             *)
(*   active    the ContextVar of every execution context                   *)
(*   look      the read-only command                                       *)
(*                                                                         *)
(* A file is named by the creation that made it, since a unit of work that *)
(* has it open goes on when the path is taken away; Void is the empty file *)
(* SQLite makes when a unit of work opens a path that is not there.        *)
(***************************************************************************)
EXTENDS Integers, Sequences, FiniteSets, SequencesExt

CONSTANTS
  Creations, Void, NoFile,
  Units,            \* SqliteUnitOfWork objects, each entered once
  Contexts,         \* execution contexts
  ContextOf,        \* the context that enters a unit
  Versions,         \* migrations of the manifest
  MaxWrites         \* bound: statements of a unit

ASSUME OdeAssumption ==
  /\ Void \notin Creations /\ NoFile \notin Creations \cup {Void}
  /\ ContextOf \in [Units -> Contexts] /\ Versions \in Nat /\ MaxWrites \in Nat

VARIABLES creation, drafts, target, content, unit, active, look
odeVars == <<creation, drafts, target, content, unit, active, look>>
making == <<creation, drafts>>

WrittenBy == [by : Units, n : 1 .. MaxWrites]

Blank == [run |-> 0, registered |-> 0, main |-> <<>>, wal |-> <<>>,
          logged |-> FALSE, stale |-> FALSE]

NotEntered ==
  [at |-> "new", file |-> NoFile, write |-> FALSE, tx |-> FALSE, n |-> 0,
   pending |-> <<>>, wanted |-> FALSE, outcome |-> "none"]

InitOde ==
  /\ creation = [p \in Creations |-> "new"]
  /\ drafts = {} /\ target = NoFile
  /\ content = [f \in Creations \cup {Void} |-> Blank]
  /\ unit = [u \in Units |-> NotEntered]
  /\ active = [c \in Contexts |-> FALSE]
  /\ look = [at |-> "idle"]

-----------------------------------------------------------------------------
(* MigrationRunner.create: a candidate under a name of its own, migrated,  *)
(* verified, and linked to the target only if there is none.               *)

Proceeds(p, to) == creation' = [creation EXCEPT ![p] = to]

\* The target is looked for and the sources are validated before anything is made.
BeginCreate(p) ==
  /\ creation[p] = "new"
  /\ \/ target # NoFile /\ Proceeds(p, "refused") /\ UNCHANGED drafts
     \/ target = NoFile /\ Proceeds(p, "building") /\ drafts' = drafts \cup {p}
  /\ UNCHANGED <<target, content, unit, active, look>>

\* executescript: a script is one transaction.
RunScript(p) ==
  /\ creation[p] = "building"
  /\ content[p].run = content[p].registered /\ content[p].run < Versions
  /\ content' = [content EXCEPT ![p].run = @ + 1]
  /\ UNCHANGED <<making, target, unit, active, look>>

\* The registry row and the check of the applied prefix, one transaction.
Register(p) ==
  /\ creation[p] = "building" /\ content[p].registered < content[p].run
  /\ content' = [content EXCEPT ![p].registered = @ + 1]
  /\ UNCHANGED <<making, target, unit, active, look>>

MigratedFully(f) == content[f].run = Versions /\ content[f].registered = Versions

\* _verify_connection, _assert_no_sidecars and _fsync_file
VerifyDraft(p) ==
  /\ creation[p] = "building" /\ MigratedFully(p)
  /\ Proceeds(p, "verified") /\ UNCHANGED <<drafts, target, content, unit, active, look>>

\* Mutant: whoever fails to publish takes the target away.
LinkUnlinking(p) ==
  /\ creation[p] = "verified"
  /\ IF target = NoFile
       THEN target' = p /\ Proceeds(p, "linked") /\ UNCHANGED drafts
       ELSE target' = NoFile /\ drafts' = drafts \ {p} /\ Proceeds(p, "refused")
  /\ UNCHANGED <<content, unit, active, look>>

\* os.link fails if the target is there by now: the candidate is removed.
Link(p) ==
  /\ creation[p] = "verified"
  /\ IF target = NoFile
       THEN target' = p /\ Proceeds(p, "linked") /\ UNCHANGED drafts
       ELSE drafts' = drafts \ {p} /\ Proceeds(p, "refused") /\ UNCHANGED target
  /\ UNCHANGED <<content, unit, active, look>>

\* From "linked" on the target is the creation's own. Its removal on a failure is
\* prepared for while the directory is synced and the candidate's own name removed
\* ("guarded", "dropped"), and again once published_by_runner is set ("published"),
\* but neither right after the link nor in between ("left").
Then(p, from, to) ==
  /\ creation[p] = from /\ Proceeds(p, to)
  /\ UNCHANGED <<target, content, unit, active, look>>

Guard(p) == Then(p, "linked", "guarded") /\ UNCHANGED drafts
DropDraft(p) == Then(p, "guarded", "dropped") /\ drafts' = drafts \ {p}
Leave(p) == Then(p, "dropped", "left") /\ UNCHANGED drafts
MarkPublished(p) == Then(p, "left", "published") /\ UNCHANGED drafts
Return(p) == Then(p, "published", "created") /\ UNCHANGED drafts

\* An error, or Ctrl-C, before the link, or a refused one that cannot clean up.
\* _cleanup_candidate ignores only a file that is not there: if an unlink fails, or
\* Ctrl-C comes again, the candidate stays.
StopCreate(p, cleans) ==
  /\ creation[p] \in {"building", "verified"}
  /\ Proceeds(p, IF cleans THEN "failed" ELSE "unclean")
  /\ drafts' = IF cleans THEN drafts \ {p} ELSE drafts
  /\ UNCHANGED <<target, content, unit, active, look>>

\* Ctrl-C where nothing is prepared for it: the target stays, the candidate goes.
InterruptCreate(p, cleans) ==
  /\ creation[p] \in {"linked", "left"}
  /\ Proceeds(p, IF cleans THEN "interrupted" ELSE "unclean")
  /\ drafts' = IF cleans THEN drafts \ {p} ELSE drafts
  /\ UNCHANGED <<target, content, unit, active, look>>

\* An error, or Ctrl-C, where the target is taken back, by its path: before the
\* candidate while that still has its name, after it when published_by_runner is set.
TakeBack(p, cleans, unlinks) ==
  /\ creation[p] \in {"guarded", "dropped", "published"}
  /\ Proceeds(p, IF cleans /\ unlinks THEN "failed" ELSE "unclean")
  /\ drafts' = IF cleans THEN drafts \ {p} ELSE drafts
  /\ target' = IF unlinks /\ (cleans \/ creation[p] # "published") THEN NoFile ELSE target
  /\ UNCHANGED <<content, unit, active, look>>

InHand == {"building", "verified", "linked", "guarded", "dropped", "left", "published"}

\* The command is killed: nothing is cleaned up, then or later.
KillCreate(p) ==
  /\ creation[p] \in InHand
  /\ Proceeds(p, "killed") /\ UNCHANGED <<drafts, target, content, unit, active, look>>

-----------------------------------------------------------------------------
(* SqliteUnitOfWork. *)

Same(u) == {v \in Units : ContextOf[v] = ContextOf[u]}

\* Units whose connection has touched a file; a read-only one does so when it queries.
Attached(f) ==
  {u \in Units : /\ unit[u].at \in {"waiting", "open"} /\ unit[u].file = f
                 /\ unit[u].write \/ unit[u].n > 0}

\* BEGIN IMMEDIATE holds the only write lock of a file.
Writers(f) ==
  {u \in Units : unit[u].at = "open" /\ unit[u].write /\ unit[u].tx /\ unit[u].file = f}

Committed(f) == content[f].main \o content[f].wal

\* connection.close: the last one moves the WAL into the main file and removes the
\* sidecars, but one of mode=ro may do neither, and one that fails does not.
Closed(c, u, closes) ==
  LET f == unit[u].file IN
    IF Attached(f) # {u} THEN c
    ELSE IF unit[u].write /\ closes
      THEN [c EXCEPT ![f].main = @ \o c[f].wal, ![f].wal = <<>>, ![f].stale = FALSE]
      ELSE [c EXCEPT ![f].stale = @ \/ c[f].logged]

\* sqlite_sidecar_state
Sidecars(f) == content[f].stale \/ (content[f].logged /\ Attached(f) # {})

\* A context runs one thing at a time: while it waits for a lock it enters nothing.
Waits(c) == \E v \in Units : ContextOf[v] = c /\ unit[v].at = "waiting"

\* NestedUnitOfWorkError
Nesting(u) == active[ContextOf[u]]

\* __enter__ up to BEGIN. A write unit makes the file it does not find; a read-only
\* one fails.
Enter(u, write) ==
  /\ unit[u].at = "new" /\ ~Waits(ContextOf[u])
  /\ LET f == IF target = NoFile THEN Void ELSE target IN
       IF (write /\ Nesting(u)) \/ (~write /\ target = NoFile)
         THEN /\ unit' = [unit EXCEPT ![u].at = "over", ![u].outcome = "error"]
              /\ UNCHANGED target
         ELSE /\ unit' = [unit EXCEPT ![u].at = "waiting", ![u].file = f, ![u].write = write]
              /\ target' = f
  /\ UNCHANGED <<making, content, active, look>>

\* PRAGMA journal_mode = WAL, which waits for readers the first time, and BEGIN
\* IMMEDIATE; BEGIN alone in a read-only unit.
BeginTx(u) ==
  /\ unit[u].at = "waiting"
  /\ unit[u].write =>
       /\ Writers(unit[u].file) = {}
       /\ content[unit[u].file].logged
            \/ \A v \in Attached(unit[u].file) : unit[v].write
  /\ content' = [content EXCEPT ![unit[u].file].logged = @ \/ unit[u].write]
  /\ unit' = [unit EXCEPT ![u].at = "open", ![u].tx = TRUE]
  /\ active' = IF unit[u].write THEN [active EXCEPT ![ContextOf[u]] = TRUE] ELSE active
  /\ UNCHANGED <<making, target, look>>

\* busy_timeout, or any other error of the connection
BeginFails(u, closes) ==
  /\ unit[u].at = "waiting" /\ content' = Closed(content, u, closes)
  /\ unit' = [unit EXCEPT ![u].at = "over", ![u].outcome = "error"]
  /\ UNCHANGED <<making, target, active, look>>

Runs(u) == unit[u].at = "open" /\ ~Waits(ContextOf[u])

Statement(u) == [by |-> u, n |-> unit[u].n + 1]

\* A write unit's INSERT, UPDATE or DELETE. The connection has isolation_level None:
\* outside a transaction SQLite commits the statement by itself.
Execute(u) ==
  /\ Runs(u) /\ unit[u].write /\ unit[u].n < MaxWrites /\ MigratedFully(unit[u].file)
  /\ IF unit[u].tx
       THEN /\ unit' = [unit EXCEPT ![u].n = @ + 1, ![u].pending = Append(@, Statement(u))]
            /\ UNCHANGED content
       ELSE /\ Writers(unit[u].file) = {}
            /\ unit' = [unit EXCEPT ![u].n = @ + 1]
            /\ content' = [content EXCEPT ![unit[u].file].wal = Append(@, Statement(u))]
  /\ UNCHANGED <<making, target, active, look>>

\* A SELECT of a read-only unit.
Query(u) ==
  /\ Runs(u) /\ ~unit[u].write /\ unit[u].n < MaxWrites
  /\ unit' = [unit EXCEPT ![u].n = @ + 1]
  /\ UNCHANGED <<making, target, content, active, look>>

\* A statement that fails, is denied, or writes in a read-only unit changes nothing;
\* some errors make SQLite roll the whole transaction back (a full disk, OR ROLLBACK).
\* The body may catch the exception and go on.
StatementEndsTx(u) ==
  /\ Runs(u) /\ unit[u].write /\ unit[u].tx
  /\ unit' = [unit EXCEPT ![u].tx = FALSE, ![u].pending = <<>>]
  /\ UNCHANGED <<making, target, content, active, look>>

\* commit() only asks.
AskCommit(u) ==
  /\ Runs(u) /\ unit[u].write /\ unit' = [unit EXCEPT ![u].wanted = TRUE]
  /\ UNCHANGED <<making, target, content, active, look>>

\* rollback(): the transaction ends and none is begun.
Rollback(u) ==
  /\ Runs(u)
  /\ unit' = [unit EXCEPT ![u].tx = FALSE, ![u].pending = <<>>, ![u].wanted = FALSE]
  /\ UNCHANGED <<making, target, content, active, look>>

\* Mutant: an exception of the body is not looked at.
CommitsOnError(u, raised) == unit[u].wanted

Commits(u, raised) == ~raised /\ unit[u].wanted

\* How the exit ends. "error" is the exception of the body, of COMMIT or of ROLLBACK,
\* or one of close with that of the body as its cause; "close" is UnitOfWorkCloseError
\* on its own.
Outcome(raised, done, closes, interrupted) ==
  CASE raised \/ (~done /\ ~interrupted) -> "error"
    [] ~raised /\ interrupted -> "interrupted"
    [] ~raised /\ done /\ ~interrupted /\ ~closes -> "close"
    [] OTHER -> "returned"

\* __exit__: COMMIT or ROLLBACK, done or not; then the flag is reset and the connection
\* closed, whatever failed; a close that raises may have moved the log or not. What is
\* not committed is lost with the connection. Ctrl-C may come before or after COMMIT.
Exit(u, raised, done, closes, interrupted) ==
  /\ Runs(u)
  /\ LET f == unit[u].file
         after == IF Commits(u, raised) /\ done
                    THEN [content EXCEPT ![f].wal = @ \o unit[u].pending] ELSE content
     IN  \E moves \in {closes, TRUE} : content' = Closed(after, u, moves)
  /\ unit' = [unit EXCEPT ![u].at = "over",
                          ![u].outcome = Outcome(raised, done, closes, interrupted)]
  /\ active' = IF unit[u].write THEN [active EXCEPT ![ContextOf[u]] = FALSE] ELSE active
  /\ UNCHANGED <<making, target, look>>

\* The process of the units dies: what it had open is rolled back by the next
\* connection, the sidecars stay.
Die ==
  /\ \E u \in Units : unit[u].at \in {"waiting", "open"}
  /\ unit' = [u \in Units |-> IF unit[u].at \in {"waiting", "open"}
                                THEN [unit[u] EXCEPT !.at = "over", !.outcome = "error"]
                                ELSE unit[u]]
  /\ active' = [c \in Contexts |-> FALSE]
  /\ content' = [f \in DOMAIN content |->
                   [content[f] EXCEPT !.stale = Sidecars(f)]]
  /\ UNCHANGED <<making, target, look>>

-----------------------------------------------------------------------------
(* db status, db verify, db migrations and system health: an immutable     *)
(* connection, which reads the main file and ignores locks and the WAL.    *)

\* Mutant: the sidecars are not looked for.
LookUnchecked ==
  /\ look.at = "idle" /\ target # NoFile
  /\ look' = [at |-> "looking", file |-> target, before |-> Committed(target)]
  /\ UNCHANGED <<making, target, content, unit, active>>

\* require_immutable_snapshot_safe
Look ==
  /\ look.at = "idle" /\ target # NoFile /\ ~Sidecars(target)
  /\ look' = [at |-> "looking", file |-> target, before |-> Committed(target)]
  /\ UNCHANGED <<making, target, content, unit, active>>

\* The path is opened anew; a database that is not the approved one is refused.
Read ==
  /\ look.at = "looking"
  /\ look' = IF target = NoFile \/ (target # NoFile /\ ~MigratedFully(target))
               THEN [at |-> "idle"]
               ELSE [at |-> "read", file |-> target, seen |-> content[target].main,
                     before |-> IF target = look.file THEN look.before ELSE <<>>]
  /\ UNCHANGED <<making, target, content, unit, active>>

\* The sidecars are looked for once more; then the answer is printed.
Report ==
  /\ look.at = "read"
  /\ look' = IF target = NoFile \/ (target # NoFile /\ Sidecars(target))
               THEN [at |-> "idle"] ELSE [look EXCEPT !.at = "reported"]
  /\ UNCHANGED <<making, target, content, unit, active>>

Forget == look.at = "reported" /\ look' = [at |-> "idle"]
          /\ UNCHANGED <<making, target, content, unit, active>>

-----------------------------------------------------------------------------

Creating ==
  \E p \in Creations :
    \/ BeginCreate(p) \/ RunScript(p) \/ Register(p) \/ VerifyDraft(p) \/ Link(p)
    \/ Guard(p) \/ DropDraft(p) \/ Leave(p) \/ MarkPublished(p) \/ Return(p)
    \/ \E cleans, unlinks \in BOOLEAN :
         StopCreate(p, cleans) \/ InterruptCreate(p, cleans) \/ TakeBack(p, cleans, unlinks)
    \/ KillCreate(p)

Working ==
  \/ \E u \in Units, write \in BOOLEAN : Enter(u, write)
  \/ \E u \in Units : BeginTx(u)
  \/ \E u \in Units, closes \in BOOLEAN : BeginFails(u, closes)
  \/ \E u \in Units : Execute(u) \/ Query(u) \/ StatementEndsTx(u) \/ AskCommit(u) \/ Rollback(u)
  \/ \E u \in Units, raised, done, closes, interrupted \in BOOLEAN :
       Exit(u, raised, done, closes, interrupted)
  \/ Die

Looking == Look \/ Read \/ Report \/ Forget

NextOde == Creating \/ Working \/ Looking

OdeSpec == InitOde /\ [][NextOde]_odeVars

-----------------------------------------------------------------------------
(* Properties. *)

OdeTypeOK ==
  /\ creation \in [Creations -> InHand \cup {"new", "created", "refused", "failed",
                                            "interrupted", "unclean", "killed"}]
  /\ drafts \subseteq Creations /\ target \in Creations \cup {Void, NoFile}
  /\ \A f \in Creations \cup {Void} : Committed(f) \in Seq(WrittenBy)
  /\ \A u \in Units : unit[u].pending \in Seq(WrittenBy)
  /\ active \in [Contexts -> BOOLEAN]

\* The path never names a file that is not migrated and registered in full, not even
\* when Ctrl-C or a failing unlink left one there; a creation that reported success
\* keeps its file, whoever else fails and takes the path back; and one that failed
\* leaves neither a candidate nor a target, unless its own clean-up failed or Ctrl-C
\* came where the target is not taken back, which leaves no candidate
\* (create, _publish_absent_target, _cleanup_candidate).
PublishedWholeOrNotAtAll ==
  /\ target \in Creations => MigratedFully(target)
  /\ \A p \in Creations :
       /\ creation[p] = "created" => target = p
       /\ creation[p] \in {"refused", "failed"} => target # p
       /\ creation[p] \in {"created", "refused", "failed", "interrupted"} => p \notin drafts

OfUnit(u) ==
  {w \in ToSet(Committed(unit[u].file)) : w.by = u}

All(u) == [by : {u}, n : 1 .. unit[u].n]

\* What the end of a unit of work tells of its writes. Without an exception, all of
\* them if it asked for it; also if only close failed, whose exception says nothing of
\* the COMMIT before it. Ctrl-C at the exit leaves both open. Any other exception, and
\* the end of the process: none.
WrittenAfter(u) ==
  CASE unit[u].wanted /\ unit[u].outcome \in {"returned", "close"} -> {All(u)}
    [] unit[u].wanted /\ unit[u].outcome = "interrupted" -> {All(u), {}}
    [] OTHER -> {{}}

\* A unit of work that never left its transaction has written all of its statements or
\* none, as its end tells, whatever failed or died meanwhile.
AllOrNothing ==
  \A u \in Units : unit[u].tx /\ unit[u].write => OfUnit(u) \in WrittenAfter(u)

\* Nothing of a unit of work is written unless it asked for it: commit is explicit.
CommitIsExplicit ==
  \A u \in Units : unit[u].file # NoFile /\ OfUnit(u) # {} =>
    unit[u].at = "over" /\ unit[u].wanted

\* A read-only command that answers has seen every write that was committed before it
\* began, although it ignores the WAL.
ReportsMissNothing ==
  look.at = "reported" => ToSet(look.before) \subseteq ToSet(look.seen)

\* What a unit of work commits is whole, and a report that begins later has seen it.
CommitsAreWholeAndSeen == AllOrNothing /\ ReportsMissNothing
=============================================================================
