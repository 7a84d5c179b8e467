----------------------------- MODULE DatabaseFiles -----------------------------
(***************************************************************************)
(* The operational file and its copies: backups of one file, their         *)
(* restore, the replacement of the file by an uploaded one, and the signed *)
(* backups of the administration page. Every request of this module runs   *)
(* under the server's lock, a step at a time; the process may die between  *)
(* any two steps, any step may meet an I/O error, and the login of an      *)
(* administrator writes its audit row without the lock.                    *)
(*                                                                         *)
(*   live     the operational file                                         *)
(*   copies   the backup directory: one entry per name ever used           *)
(*   signed   the signed backups: data file and manifest, renamed in turn  *)
(*   job      the request that holds the lock                              *)
(*   done     operations that were acknowledged                            *)
(*   up       the process runs                                             *)
(*   faults   I/O errors so far                                            *)
(*                                                                         *)
(* A file is what the checks tell apart: the operations in it, whether its *)
(* tables pass which check, and its accounts. The copy into a temporary    *)
(* file changes nothing anybody reads and belongs to the rename after it.  *)
(***************************************************************************)
EXTENDS Integers, Sequences, SequencesExt

CONSTANTS
  Ops,             \* operations of the warehouse, written under the lock
  Logins,          \* audit rows of logins, written without it
  Uploads,         \* files an administrator may upload
  MaxCopies, MaxSigned, MaxFaults, MaxCrashes  \* bounds

\* current: all key tables; older: the base tables, the start-up adds the rest;
\* stuck: the base tables too, but the start-up leaves it as it is (a promoted file
\* that is not complete); damaged: integrity, foreign keys or base tables fail.
Shapes == {"current", "older", "stuck", "damaged"}
Accounts == {"admin", "none", "noAdmin"}

File == [rows : SUBSET (Ops \cup Logins), shape : Shapes, users : Accounts]

ASSUME FileAssumption ==
  /\ Ops \cap Logins = {} /\ Uploads \subseteq File
  /\ MaxCopies \in Nat /\ MaxSigned \in Nat /\ MaxFaults \in Nat /\ MaxCrashes \in Nat

VARIABLES live, copies, signed, job, done, up, faults, crashes
vars == <<live, copies, signed, job, done, up, faults, crashes>>

\* A backup the process died on: SQLite leaves a file without tables.
Partial == [rows |-> {}, shape |-> "damaged", users |-> "none"]

Idle == job = [at |-> "idle"]

Init ==
  /\ live = [rows |-> {}, shape |-> "current", users |-> "admin"]
  /\ copies = <<>> /\ signed = <<>> /\ job = [at |-> "idle"]
  /\ done = {} /\ up = TRUE /\ faults = 0 /\ crashes = 0

-----------------------------------------------------------------------------
(* What the checks and the start-up do to a file. *)

\* database_check with the key tables, with the base tables
Complete(f) == f.shape = "current"
Readable(f) == f.shape # "damaged"

\* initialize: missing tables, and the local administrator if there is no account.
Initialized(f) ==
  IF f.shape \in {"current", "older"}
    THEN [f EXCEPT !.shape = "current",
                   !.users = IF f.users = "none" THEN "admin" ELSE f.users]
    ELSE f

Present(c) == c.state # "gone"

-----------------------------------------------------------------------------
(* The work that goes on meanwhile. *)

\* Mutant: the handler does not wait for the lock.
WriteUnlocked(op) ==
  /\ up /\ op \notin done /\ Complete(live)
  /\ live' = [live EXCEPT !.rows = @ \cup {op}] /\ done' = done \cup {op}
  /\ UNCHANGED <<copies, signed, job, up, faults, crashes>>

\* A POST handler: it waits for the lock.
Write(op) ==
  /\ up /\ Idle /\ op \notin done /\ Complete(live)
  /\ live' = [live EXCEPT !.rows = @ \cup {op}] /\ done' = done \cup {op}
  /\ UNCHANGED <<copies, signed, job, up, faults, crashes>>

\* _login: authenticate writes to the file the path names at that moment.
Login(row) ==
  /\ up /\ row \notin live.rows /\ Complete(live) /\ live.users = "admin"
  /\ live' = [live EXCEPT !.rows = @ \cup {row}]
  /\ UNCHANGED <<copies, signed, job, done, up, faults, crashes>>

-----------------------------------------------------------------------------
(* Requests: kind, the file to put in place, the safety copy, and the file *)
(* as it was.                                                              *)

Goes(step) == job' = [job EXCEPT !.at = step]
Ends == job' = [at |-> "idle"]

Ask(kind, file) ==
  /\ up /\ Idle /\ live.users = "admin"
  /\ job' = [at |-> IF kind = "sign" THEN "draft" ELSE "name",
             kind |-> kind, file |-> file, copy |-> 0, old |-> live]
  /\ UNCHANGED <<live, copies, signed, done, up, faults, crashes>>

AskBackup == Len(copies) < MaxCopies /\ Ask("backup", live)

\* restore_backup: the selected file has to pass the check with the base tables.
AskRestore(c) ==
  /\ Len(copies) < MaxCopies /\ Present(copies[c]) /\ Readable(copies[c].file)
  /\ Ask("restore", copies[c].file)

\* replace_production_database: so has the uploaded one.
AskReplace(file) == Len(copies) < MaxCopies /\ Readable(file) /\ Ask("replace", file)

AskSigned == Len(signed) < MaxSigned /\ Ask("sign", live)

(* create_backup, alone or as the safety copy of the other two. *)

\* next_backup_path: a name no file has; the target is opened and still empty.
NameCopy ==
  /\ job.at = "name"
  /\ copies' = Append(copies, [state |-> "there", file |-> Partial])
  /\ job' = [job EXCEPT !.at = "fill", !.copy = Len(copies) + 1]
  /\ UNCHANGED <<live, signed, done, up, faults, crashes>>

FillCopy ==
  /\ job.at = "fill"
  /\ copies' = [copies EXCEPT ![job.copy].file = live]
  /\ Goes("verify") /\ UNCHANGED <<live, signed, done, up, faults, crashes>>

Unlinked(c) == [copies EXCEPT ![c].state = "gone"]

\* The check of the copy and its audit row; a copy that fails is removed.
VerifyCopy ==
  /\ job.at = "verify"
  /\ IF Complete(copies[job.copy].file)
       THEN /\ IF job.kind = "backup" THEN Ends ELSE Goes("replace")
            /\ UNCHANGED copies
       ELSE copies' = Unlinked(job.copy) /\ Ends
  /\ UNCHANGED <<live, signed, done, up, faults, crashes>>

(* restore_backup and replace_production_database, once the safety copy is there. *)

\* copy2 and os.replace, then the sidecars of the former file
Replace ==
  /\ job.at = "replace" /\ live' = job.file
  /\ Goes("init") /\ UNCHANGED <<copies, signed, done, up, faults, crashes>>

InitLive ==
  /\ job.at = "init" /\ live' = Initialized(live)
  /\ Goes("final") /\ UNCHANGED <<copies, signed, done, up, faults, crashes>>

\* Mutant: nobody asks for an administrator.
AcceptedWithoutAdmin == Complete(live)

\* The uploaded file also needs an active administrator.
Accepted == Complete(live) /\ (job.kind = "replace" => live.users = "admin")

FinalCheck ==
  /\ job.at = "final"
  /\ IF Accepted THEN Ends ELSE Goes("undo")
  /\ UNCHANGED <<live, copies, signed, done, up, faults, crashes>>

\* except: the safety copy takes the place of the file that failed.
Undo ==
  /\ job.at = "undo" /\ live' = copies[job.copy].file
  /\ Goes("reinit") /\ UNCHANGED <<copies, signed, done, up, faults, crashes>>

Reinit ==
  /\ job.at = "reinit" /\ live' = Initialized(live)
  /\ Ends /\ UNCHANGED <<copies, signed, done, up, faults, crashes>>

(* MultiDatabaseBackupService.create_backup *)

\* Mutant: the snapshot is published whatever its health.
DraftUnchecked ==
  /\ job.at = "draft"
  /\ job' = [job EXCEPT !.at = "publish", !.file = live]
  /\ UNCHANGED <<live, copies, signed, done, up, faults, crashes>>

\* The snapshot under a name of its own and its health; the names end in .next, so
\* nobody lists them, and `finally` removes them.
Draft ==
  /\ job.at = "draft"
  /\ IF Complete(live)
       THEN job' = [job EXCEPT !.at = "publish", !.file = live]
       ELSE Ends
  /\ UNCHANGED <<live, copies, signed, done, up, faults, crashes>>

Publish ==
  /\ job.at = "publish"
  /\ signed' = Append(signed, [state |-> "data", file |-> job.file])
  /\ Goes("manifest") /\ UNCHANGED <<live, copies, done, up, faults, crashes>>

\* The manifest, with the digest of the snapshot and the verdict of its check.
Manifest ==
  /\ job.at = "manifest"
  /\ signed' = [signed EXCEPT ![Len(signed)] =
                  [state |-> "both", file |-> @.file, digest |-> job.file]]
  /\ Goes("note") /\ UNCHANGED <<live, copies, done, up, faults, crashes>>

\* The audit row goes to the operational file, whatever was backed up.
Note == job.at = "note" /\ Ends /\ UNCHANGED <<live, copies, signed, done, up, faults, crashes>>

-----------------------------------------------------------------------------
(* Faults. *)

\* Before the file is replaced the copy is removed and the request is refused;
\* after that the safety copy is put back; an error on that way ends the request.
IOError ==
  /\ ~Idle /\ faults < MaxFaults /\ faults' = faults + 1
  /\ \/ /\ job.at \in {"name", "draft", "publish"}
        /\ Ends /\ UNCHANGED <<copies, signed>>
     \/ /\ job.at \in {"fill", "verify"}
        /\ copies' = Unlinked(job.copy) /\ Ends /\ UNCHANGED signed
     \/ /\ job.at \in {"replace", "init", "final"}
        /\ Goes("undo") /\ UNCHANGED <<copies, signed>>
     \/ /\ job.at \in {"undo", "reinit"}
        /\ Ends /\ UNCHANGED <<copies, signed>>
     \/ /\ job.at \in {"manifest", "note"}
        /\ signed' = [signed EXCEPT ![Len(signed)] = [state |-> "gone"]]
        /\ Ends /\ UNCHANGED copies
  /\ UNCHANGED <<live, done, up, crashes>>

Crash ==
  /\ up /\ crashes < MaxCrashes /\ crashes' = crashes + 1
  /\ up' = FALSE /\ Ends
  /\ UNCHANGED <<live, copies, signed, done, faults>>

\* Every start initialises the file before it serves requests, and checks nothing.
Restart ==
  /\ ~up /\ up' = TRUE /\ live' = Initialized(live)
  /\ UNCHANGED <<copies, signed, job, done, faults, crashes>>

Next ==
  \/ \E op \in Ops : Write(op)
  \/ \E row \in Logins : Login(row)
  \/ AskBackup \/ AskSigned
  \/ \E c \in DOMAIN copies : AskRestore(c)
  \/ \E f \in Uploads : AskReplace(f)
  \/ NameCopy \/ FillCopy \/ VerifyCopy
  \/ Replace \/ InitLive \/ FinalCheck \/ Undo \/ Reinit
  \/ Draft \/ Publish \/ Manifest \/ Note
  \/ IOError \/ Crash \/ Restart

Spec == Init /\ [][Next]_vars

-----------------------------------------------------------------------------
(* Properties. *)

\* Nothing that was acknowledged is ever lost: it is in the operational file or in a
\* copy that passes the check a restore makes, whatever request failed or was cut
\* short (the safety copy is whole before the file is replaced, and stays).
NothingLost ==
  \A op \in done :
    \/ op \in live.rows
    \/ \E c \in DOMAIN copies :
         Present(copies[c]) /\ Readable(copies[c].file) /\ op \in copies[c].file.rows

\* A restore or replacement that ends by itself leaves the warehouse as it was or
\* the file that was asked for, complete and, after an upload, with an
\* administrator, unless putting the safety copy back failed as well.
OneOfTheTwo ==
  [][~Idle /\ Idle' /\ up' /\ job.kind \in {"restore", "replace"}
       /\ ~(job.at \in {"undo", "reinit"} /\ faults' # faults) =>
     /\ Complete(job.old) => Complete(live')
     /\ job.kind = "replace" => live'.users = "admin"
     /\ live'.rows \cap Ops \in {job.old.rows \cap Ops, job.file.rows \cap Ops}]_vars

\* A backup the process died on stays in the directory under the name of a whole
\* one, and still never becomes the operational file.
NeverDamaged == Readable(live)

\* A backup that is listed as verified has its data file, is complete and is the
\* file its manifest was written for (list_backups, create_backup), also after a
\* crash between the two renames.
VerifiedIsWhole ==
  \A b \in DOMAIN signed :
    signed[b].state = "both" => Complete(signed[b].file) /\ signed[b].digest = signed[b].file

\* What the program opens and what it offers for a restore is whole.
FilesAreWhole == NeverDamaged /\ VerifiedIsWhole
=============================================================================
