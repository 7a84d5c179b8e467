-------------------------- MODULE DatabaseFilesProofs --------------------------
(***************************************************************************)
(* For any operations, logins, uploads and bounds: what was acknowledged   *)
(* is never lost, the operational file is never a damaged one, and a       *)
(* backup that is listed as verified is whole.                             *)
(*                                                                         *)
(* The argument: from its check on, the safety copy holds all that the     *)
(* operational file held and is kept until the request ends; before its    *)
(* check it holds nothing that the operational file does not hold too, so  *)
(* it may be removed.                                                      *)
(*                                                                         *)
(* A request that ends leaves the file it found or the one asked for,      *)
(* because nobody but a login writes before the rename.                    *)
(*                                                                         *)
(* The last part is about the database of the next version: for any        *)
(* creations, units of work and statements, the path never names a         *)
(* half-migrated file, a unit writes all of its statements or none, as its *)
(* end tells, and a report misses no committed write.                      *)
(***************************************************************************)
EXTENDS DatabaseFiles, OdeDatabase, TLAPS, SequenceTheorems

Copy == [state : {"there", "gone"}, file : File]

Backup == [state : {"data"}, file : File]
            \cup [state : {"both"}, file : File, digest : File]
            \cup [state : {"gone"}]

\* A request up to the rename of the operational file, after it, and a signed backup.
Before == {"name", "fill", "verify", "replace"}
After == {"init", "final", "undo", "reinit"}
Signing == {"draft", "publish", "manifest", "note"}

Request == [at : Before \cup After \cup Signing,
            kind : {"backup", "restore", "replace", "sign"},
            file : File, copy : Nat, old : File]

Typed ==
  /\ live \in File /\ copies \in Seq(Copy) /\ signed \in Seq(Backup)
  /\ done \subseteq Ops
  /\ job \in Request \cup {[at |-> "idle"]}

\* Some backup a restore accepts has the operation.
Kept(op) ==
  \E c \in DOMAIN copies :
    Present(copies[c]) /\ Readable(copies[c].file) /\ op \in copies[c].file.rows

\* The safety copy while it is written: nothing yet, then what the file holds.
Filling ==
  /\ job.at \in {"fill", "verify"} => job.copy \in DOMAIN copies /\ Present(copies[job.copy])
  /\ job.at = "fill" => copies[job.copy].file = Partial
  /\ job.at = "verify" =>
       /\ copies[job.copy].file.rows \subseteq live.rows
       /\ live.rows \cap Ops \subseteq copies[job.copy].file.rows

\* From its check to the end of the request it is there, and so is everything else.
Held ==
  job.at \in {"replace"} \cup After =>
    /\ job.copy \in DOMAIN copies
    /\ Readable(copies[job.copy].file)
    /\ \A op \in done : Kept(op)

\* What may take the place of the operational file was checked.
Checked == job.at \in Before => Readable(job.file)

\* The manifest is written for the data file that was published last.
SigningInv ==
  /\ job.at \in {"publish", "manifest"} => Complete(job.file)
  /\ job.at = "manifest" => Len(signed) > 0 /\ signed[Len(signed)].state = "data"
                              /\ signed[Len(signed)].file = job.file

IInv ==
  /\ Typed
  /\ NothingLost /\ Filling /\ Held
  /\ NeverDamaged /\ Checked
  /\ VerifiedIsWhole /\ SigningInv

-----------------------------------------------------------------------------

LEMMA InitialFile == Init => IInv
<1>1. SUFFICES ASSUME Init PROVE IInv
  OBVIOUS
<1>2. live \in File
  BY <1>1 DEF Init, File, Shapes, Accounts
<1>3. job.at = "idle" /\ live.shape = "current"
  BY <1>1 DEF Init
<1> QED
  BY <1>1, <1>2, <1>3 DEF Init, IInv, Typed, NothingLost, Filling, Held, NeverDamaged, Readable,
     Checked, VerifiedIsWhole, SigningInv, Before, After

\* A sequence with one entry overwritten.
LEMMA Overwritten ==
  ASSUME NEW S, NEW s \in Seq(S), NEW n \in Nat, NEW x \in S
  PROVE  LET t == [s EXCEPT ![n] = x]
         IN  /\ t \in Seq(S) /\ DOMAIN t = DOMAIN s
             /\ \A i \in DOMAIN s : t[i] = IF i = n THEN x ELSE s[i]
<1> DEFINE t == [s EXCEPT ![n] = x]
<1>1. /\ DOMAIN t = DOMAIN s
      /\ \A i \in DOMAIN s : t[i] = IF i = n THEN x ELSE s[i]
  OBVIOUS
<1>2. /\ Len(s) \in Nat /\ DOMAIN s = 1 .. Len(s)
      /\ \A i \in 1 .. Len(s) : s[i] \in S
  OBVIOUS
<1>3. t = [i \in 1 .. Len(s) |-> t[i]] /\ \A i \in 1 .. Len(s) : t[i] \in S
  BY <1>1, <1>2
<1>4. t \in Seq(S)
  <2>1. t \in [1 .. Len(s) -> S]
    BY <1>3
  <2> HIDE DEF t
  <2> QED
    BY <1>2, <2>1
<1> QED
  BY <1>1, <1>4

\* The start-up changes no rows and damages nothing.
LEMMA InitializedKeeps ==
  ASSUME NEW f \in File
  PROVE  /\ Initialized(f) \in File /\ Initialized(f).rows = f.rows
         /\ Readable(f) => Readable(Initialized(f))
BY DEF Initialized, File, Shapes, Accounts, Readable

\* Steps that leave the copies, the backups and the request alone.
LEMMA WorkKeeps ==
  ASSUME IInv,
         NEW row, live' \in File, live'.rows = live.rows \cup {row}, live'.shape = live.shape,
         row \in Ops => job = [at |-> "idle"],
         done' \subseteq done \cup {row}, done' \subseteq Ops,
         UNCHANGED <<copies, signed, job>>
  PROVE  IInv'
<1>1. Typed'
  BY DEF IInv, Typed
<1>2. NothingLost'
  BY DEF IInv, NothingLost
<1>3. Filling'
  BY DEF IInv, Typed, Filling
<1>4. Held'
  <2>1. CASE job = [at |-> "idle"]
    BY <2>1 DEF Held, After
  <2>2. CASE row \notin Ops
    BY <2>2 DEF IInv, Typed, Held, Kept
  <2> QED
    BY <2>1, <2>2
<1>5. NeverDamaged' /\ Checked' /\ VerifiedIsWhole' /\ SigningInv'
  BY DEF IInv, NeverDamaged, Readable, Checked, VerifiedIsWhole, SigningInv
<1> QED
  BY <1>1, <1>2, <1>3, <1>4, <1>5 DEF IInv

LEMMA WriteStep == ASSUME IInv, NEW op \in Ops, Write(op) PROVE IInv'
<1>1. /\ live' \in File /\ live'.rows = live.rows \cup {op} /\ live'.shape = live.shape
  BY DEF Write, IInv, Typed, File
<1> QED
  BY <1>1, WorkKeeps DEF Write, IInv, Typed, Idle

LEMMA LoginStep == ASSUME IInv, NEW row \in Logins, Login(row) PROVE IInv'
<1>1. /\ live' \in File /\ live'.rows = live.rows \cup {row} /\ live'.shape = live.shape
  BY DEF Login, IInv, Typed, File
<1>2. row \notin Ops
  BY FileAssumption
<1> QED
  BY <1>1, <1>2, WorkKeeps DEF Login, IInv, Typed

-----------------------------------------------------------------------------
(* Requests begin. *)

LEMMA AskKeeps ==
  ASSUME IInv, NEW kind \in {"backup", "restore", "replace", "sign"}, NEW file \in File,
         kind # "sign" => Readable(file), Ask(kind, file)
  PROVE  IInv'
<1>1. /\ job' \in Request
      /\ job'.at = IF kind = "sign" THEN "draft" ELSE "name"
      /\ job'.file = file
  BY DEF Ask, IInv, Typed, Request, Before, Signing
<1>2. Typed'
  BY <1>1 DEF Ask, IInv, Typed
<1>3. NothingLost' /\ NeverDamaged' /\ VerifiedIsWhole'
  BY DEF Ask, IInv, NothingLost, NeverDamaged, VerifiedIsWhole
<1>4. Filling' /\ Held' /\ Checked' /\ SigningInv'
  BY <1>1 DEF Filling, Held, Checked, SigningInv, Before, After
<1> QED
  BY <1>2, <1>3, <1>4 DEF IInv

LEMMA AskSteps ==
  ASSUME IInv,
         \/ AskBackup \/ AskSigned
         \/ \E c \in DOMAIN copies : AskRestore(c)
         \/ \E f \in Uploads : AskReplace(f)
  PROVE  IInv'
<1>1. live \in File /\ Readable(live)
  BY DEF IInv, Typed, NeverDamaged
<1>2. CASE AskBackup \/ AskSigned
  BY <1>1, <1>2, AskKeeps DEF AskBackup, AskSigned
<1>3. CASE \E c \in DOMAIN copies : AskRestore(c)
  <2>1. PICK c \in DOMAIN copies : AskRestore(c)
    BY <1>3
  <2>2. copies[c] \in Copy
    BY <2>1 DEF IInv, Typed
  <2>3. copies[c].file \in File
    BY <2>2 DEF Copy
  <2> QED
    BY <2>1, <2>3, AskKeeps DEF AskRestore
<1>4. CASE \E f \in Uploads : AskReplace(f)
  BY <1>4, AskKeeps, FileAssumption DEF AskReplace
<1> QED
  BY <1>2, <1>3, <1>4

-----------------------------------------------------------------------------
(* The safety copy. *)

LEMMA NameStep == ASSUME IInv, NameCopy PROVE IInv'
<1>1. /\ job \in Request /\ Len(copies) \in Nat /\ DOMAIN copies = 1 .. Len(copies)
      /\ DOMAIN job = {"at", "kind", "file", "copy", "old"}
  BY DEF NameCopy, IInv, Typed, Request
<1>2. Partial \in File /\ [state |-> "there", file |-> Partial] \in Copy
  BY DEF Partial, File, Shapes, Accounts, Copy
<1>3. /\ copies' \in Seq(Copy) /\ Len(copies') = Len(copies) + 1
      /\ DOMAIN copies' = 1 .. (Len(copies) + 1)
      /\ \A c \in DOMAIN copies : copies'[c] = copies[c]
      /\ copies'[Len(copies) + 1] = [state |-> "there", file |-> Partial]
  BY <1>1, <1>2 DEF NameCopy, IInv, Typed
<1>4. /\ job' \in Request /\ job'.at = "fill" /\ job'.copy = Len(copies) + 1
      /\ job'.file = job.file /\ job.at = "name"
  <2> DEFINE filling == [job EXCEPT !.at = "fill"]
  <2>1. filling \in Request /\ filling.at = "fill" /\ filling.file = job.file
    BY <1>1 DEF Request, Before
  <2>2. job' = [filling EXCEPT !.copy = Len(copies) + 1] /\ job.at = "name"
    BY <1>1 DEF NameCopy
  <2> HIDE DEF filling
  <2> QED
    BY <1>1, <2>1, <2>2 DEF Request
<1>5. Typed'
  BY <1>3, <1>4 DEF NameCopy, IInv, Typed
<1>6. NothingLost'
  BY <1>1, <1>3 DEF NameCopy, IInv, NothingLost
<1>7. Filling' /\ Held'
  BY <1>3, <1>4 DEF Filling, Held, After, Present
<1>8. NeverDamaged' /\ Checked' /\ VerifiedIsWhole' /\ SigningInv'
  BY <1>4 DEF NameCopy, IInv, NeverDamaged, Checked, Before, VerifiedIsWhole, SigningInv
<1> QED
  BY <1>5, <1>6, <1>7, <1>8 DEF IInv

LEMMA FillStep == ASSUME IInv, FillCopy PROVE IInv'
<1>1. /\ job \in Request /\ job.copy \in DOMAIN copies
      /\ copies[job.copy] \in Copy /\ Present(copies[job.copy])
      /\ copies[job.copy].file = Partial /\ live \in File /\ job.at = "fill"
  BY DEF FillCopy, IInv, Typed, Filling, Request
<1>2. /\ copies' \in Seq(Copy) /\ DOMAIN copies' = DOMAIN copies
      /\ \A c \in DOMAIN copies : c # job.copy => copies'[c] = copies[c]
      /\ copies'[job.copy].file = live /\ copies'[job.copy].state = copies[job.copy].state
  BY <1>1 DEF FillCopy, IInv, Typed, Copy
<1>3. /\ job' \in Request /\ job'.at = "verify" /\ job'.copy = job.copy /\ job'.file = job.file
  BY <1>1 DEF FillCopy, Goes, Request, Before
<1>4. Typed'
  BY <1>2, <1>3 DEF FillCopy, IInv, Typed
<1>5. NothingLost'
  BY <1>1, <1>2 DEF FillCopy, IInv, NothingLost, Readable, Partial
<1>6. Filling' /\ Held'
  BY <1>1, <1>2, <1>3 DEF FillCopy, Filling, Held, After, Present
<1>7. NeverDamaged' /\ Checked' /\ VerifiedIsWhole' /\ SigningInv'
  BY <1>1, <1>3 DEF FillCopy, IInv, NeverDamaged, Checked, Before, VerifiedIsWhole, SigningInv
<1> QED
  BY <1>4, <1>5, <1>6, <1>7 DEF IInv

\* A copy that was not checked yet may go.
LEMMA UnlinkKeeps ==
  ASSUME IInv, job.at \in {"fill", "verify"}, copies' = Unlinked(job.copy),
         job' = [at |-> "idle"], UNCHANGED <<live, signed, done>>
  PROVE  IInv'
<1>1. /\ job \in Request /\ job.copy \in DOMAIN copies /\ copies[job.copy] \in Copy
  BY DEF IInv, Typed, Filling, Request
<1>2. /\ copies' \in Seq(Copy) /\ DOMAIN copies' = DOMAIN copies
      /\ \A c \in DOMAIN copies : c # job.copy => copies'[c] = copies[c]
  BY <1>1 DEF IInv, Typed, Unlinked, Copy
<1>3. \A op \in done : Readable(copies[job.copy].file) /\ op \in copies[job.copy].file.rows
                         => op \in live.rows
  BY DEF IInv, Filling, Readable, Partial
<1>4. NothingLost'
  BY <1>2, <1>3 DEF IInv, NothingLost
<1>5. job'.at = "idle"
  OBVIOUS
<1> QED
  BY <1>2, <1>4, <1>5 DEF IInv, Typed, Filling, Held, After, NeverDamaged, Checked, Before,
     VerifiedIsWhole, SigningInv

\* A request that ends between two steps takes nothing with it.
LEMMA EndKeeps ==
  ASSUME IInv, job' = [at |-> "idle"], UNCHANGED <<live, copies, signed, done>>
  PROVE  IInv'
<1>1. job'.at = "idle"
  OBVIOUS
<1> QED
  BY <1>1 DEF IInv, Typed, NothingLost, Filling, Held, After, NeverDamaged, Checked, Before,
     VerifiedIsWhole, SigningInv

LEMMA VerifyStep == ASSUME IInv, VerifyCopy PROVE IInv'
<1>1. CASE ~Complete(copies[job.copy].file)
  BY <1>1, UnlinkKeeps DEF VerifyCopy, Ends
<1>2. CASE Complete(copies[job.copy].file) /\ job.kind = "backup"
  BY <1>2, EndKeeps DEF VerifyCopy, Ends
<1>3. CASE Complete(copies[job.copy].file) /\ job.kind # "backup"
  <2>1. /\ job \in Request /\ job.at = "verify" /\ UNCHANGED <<live, copies, signed, done>>
    BY <1>3 DEF VerifyCopy, IInv, Typed, Request
  <2>2. /\ job' \in Request /\ job'.at = "replace" /\ job'.copy = job.copy
        /\ job'.file = job.file
    BY <1>3, <2>1 DEF VerifyCopy, Goes, Request, Before
  <2>3. Readable(copies[job.copy].file)
    BY <1>3 DEF Complete, Readable
  <2>4. \A op \in done : Kept(op)
    <3>1. SUFFICES ASSUME NEW op \in done, op \in live.rows PROVE Kept(op)
      BY DEF IInv, NothingLost, Kept
    <3>2. op \in copies[job.copy].file.rows /\ Present(copies[job.copy])
          /\ job.copy \in DOMAIN copies
      BY <2>1, <3>1 DEF IInv, Typed, Filling
    <3> QED
      BY <2>3, <3>2 DEF Kept
  <2>5. Held' /\ Filling'
    BY <2>1, <2>2, <2>3, <2>4 DEF IInv, Filling, Held, Kept
  <2> QED
    BY <2>1, <2>2, <2>5 DEF IInv, Typed, NothingLost, NeverDamaged, Checked, Before,
       VerifiedIsWhole, SigningInv
<1> QED
  BY <1>1, <1>2, <1>3

-----------------------------------------------------------------------------
(* The rename, and the way back. *)

\* The operational file is replaced by one that is not damaged.
LEMMA SwapKeeps ==
  ASSUME IInv, job.at \in {"replace"} \cup After, live' \in File, Readable(live'),
         job' \in Request \cup {[at |-> "idle"]}, job'.at \in After \cup {"idle"},
         job'.at # "idle" => job'.copy = job.copy, UNCHANGED <<copies, signed, done>>
  PROVE  IInv'
<1>1. NothingLost'
  BY DEF IInv, Held, Kept, NothingLost
<1>2. Held'
  BY DEF IInv, Held, Kept, After
<1> QED
  BY <1>1, <1>2 DEF IInv, Typed, Filling, NeverDamaged, Checked, Before, After,
     VerifiedIsWhole, SigningInv

LEMMA SwapSteps ==
  ASSUME IInv, Replace \/ InitLive \/ FinalCheck \/ Undo \/ Reinit
  PROVE  IInv'
<1>1. /\ job \in Request /\ job.at \in {"replace"} \cup After
  BY DEF Replace, InitLive, FinalCheck, Undo, Reinit, IInv, Typed, Request, After
<1>2. /\ live \in File /\ Readable(live)
      /\ job.at = "replace" => job.file \in File /\ Readable(job.file)
      /\ copies[job.copy].file \in File /\ Readable(copies[job.copy].file)
  <2>1. copies[job.copy] \in Copy /\ Readable(copies[job.copy].file)
    BY <1>1 DEF IInv, Typed, Held
  <2>2. copies[job.copy].file \in File
    BY <2>1 DEF Copy
  <2> QED
    BY <1>1, <2>1, <2>2 DEF IInv, Typed, NeverDamaged, Checked, Before, Request
<1>3. live' \in File /\ Readable(live')
  BY <1>2, InitializedKeeps DEF Replace, InitLive, FinalCheck, Undo, Reinit
<1>4. /\ job' \in Request \cup {[at |-> "idle"]} /\ job'.at \in After \cup {"idle"}
      /\ job'.at # "idle" => job'.copy = job.copy
  <2>1. CASE job' = [at |-> "idle"]
    BY <2>1
  <2>2. CASE \E step \in After : job' = [job EXCEPT !.at = step]
    BY <1>1, <2>2 DEF Request
  <2> QED
    BY <2>1, <2>2 DEF Replace, InitLive, FinalCheck, Undo, Reinit, Goes, Ends, After
<1>5. UNCHANGED <<copies, signed, done>>
  BY DEF Replace, InitLive, FinalCheck, Undo, Reinit
<1> QED
  BY <1>1, <1>3, <1>4, <1>5, SwapKeeps

-----------------------------------------------------------------------------
(* Signed backups. *)

\* Steps of a signed backup that touch neither the file nor its copies.
LEMMA SigningKeeps ==
  ASSUME IInv, signed' \in Seq(Backup), job' \in Request, job'.at \in Signing,
         VerifiedIsWhole', SigningInv', UNCHANGED <<live, copies, done>>
  PROVE  IInv'
BY DEF IInv, Typed, NothingLost, Filling, Held, NeverDamaged, Checked, Before, After, Signing

LEMMA DraftStep == ASSUME IInv, Draft PROVE IInv'
<1>1. CASE ~Complete(live)
  BY <1>1, EndKeeps DEF Draft, Ends
<1>2. CASE Complete(live)
  <2>1. job \in Request /\ live \in File
    BY DEF Draft, IInv, Typed, Request
  <2>2. job' \in Request /\ job'.at = "publish" /\ job'.file = live
    BY <1>2, <2>1 DEF Draft, Request, Signing
  <2>3. VerifiedIsWhole' /\ SigningInv' /\ signed' \in Seq(Backup)
    BY <1>2, <2>2 DEF Draft, IInv, Typed, VerifiedIsWhole, SigningInv, Complete
  <2> QED
    BY <1>2, <2>2, <2>3, SigningKeeps DEF Draft, Signing
<1> QED
  BY <1>1, <1>2

LEMMA PublishStep == ASSUME IInv, Publish PROVE IInv'
<1>1. job \in Request /\ job.at = "publish" /\ job.file \in File /\ Complete(job.file)
  BY DEF Publish, IInv, Typed, Request, SigningInv
<1>2. job' \in Request /\ job'.at = "manifest" /\ job'.file = job.file
  BY <1>1 DEF Publish, Goes, Request, Signing
<1>3. [state |-> "data", file |-> job.file] \in Backup
  BY <1>1 DEF Backup
<1>4. /\ Len(signed) \in Nat /\ DOMAIN signed = 1 .. Len(signed)
      /\ signed' \in Seq(Backup) /\ Len(signed') = Len(signed) + 1
      /\ DOMAIN signed' = 1 .. (Len(signed) + 1)
      /\ \A b \in DOMAIN signed : signed'[b] = signed[b]
      /\ signed'[Len(signed) + 1] = [state |-> "data", file |-> job.file]
  BY <1>3 DEF Publish, IInv, Typed
<1>5. signed'[Len(signed) + 1].state = "data" /\ signed'[Len(signed) + 1].file = job.file
  BY <1>4
<1>6. VerifiedIsWhole'
  BY <1>4, <1>5 DEF IInv, VerifiedIsWhole
<1>7. SigningInv'
  BY <1>1, <1>2, <1>4, <1>5 DEF SigningInv
<1> QED
  BY <1>2, <1>4, <1>6, <1>7, SigningKeeps DEF Publish, Signing

LEMMA ManifestStep == ASSUME IInv, Manifest PROVE IInv'
<1>1. /\ job \in Request /\ job.at = "manifest" /\ job.file \in File /\ Complete(job.file)
      /\ Len(signed) > 0 /\ signed[Len(signed)].file = job.file
  BY DEF Manifest, IInv, Typed, Request, SigningInv
<1>2. job' \in Request /\ job'.at = "note"
  BY <1>1 DEF Manifest, Goes, Request, Signing
<1> DEFINE last == [state |-> "both", file |-> job.file, digest |-> job.file]
<1>3. last \in Backup
  BY <1>1 DEF Backup
<1>4. signed' = [signed EXCEPT ![Len(signed)] = last]
  BY <1>1 DEF Manifest
<1>5. /\ signed' \in Seq(Backup) /\ DOMAIN signed' = DOMAIN signed
      /\ \A b \in DOMAIN signed : signed'[b] = IF b = Len(signed) THEN last ELSE signed[b]
  <2>1. signed \in Seq(Backup) /\ Len(signed) \in Nat
    BY DEF IInv, Typed
  <2> HIDE DEF last
  <2> QED
    BY <1>3, <1>4, <2>1, Overwritten
<1>6. last.file = job.file /\ last.digest = job.file
  OBVIOUS
<1>7. VerifiedIsWhole'
  BY <1>1, <1>5, <1>6 DEF IInv, VerifiedIsWhole
<1>8. SigningInv'
  BY <1>2 DEF SigningInv
<1> QED
  BY <1>2, <1>5, <1>7, <1>8, SigningKeeps DEF Manifest, Signing

\* A signed backup that fails at its end is removed.
LEMMA WithdrawKeeps ==
  ASSUME IInv, signed' = [signed EXCEPT ![Len(signed)] = [state |-> "gone"]],
         job' = [at |-> "idle"], UNCHANGED <<live, copies, done>>
  PROVE  IInv'
<1> DEFINE gone == [state |-> "gone"]
<1>1. gone \in Backup /\ gone.state = "gone"
  BY DEF Backup
<1>2. /\ signed' \in Seq(Backup) /\ DOMAIN signed' = DOMAIN signed
      /\ \A b \in DOMAIN signed : signed'[b] = IF b = Len(signed) THEN gone ELSE signed[b]
  <2>1. signed \in Seq(Backup) /\ Len(signed) \in Nat
    BY DEF IInv, Typed
  <2>2. signed' = [signed EXCEPT ![Len(signed)] = gone]
    OBVIOUS
  <2> HIDE DEF gone
  <2> QED
    BY <1>1, <2>1, <2>2, Overwritten
<1>3. VerifiedIsWhole'
  BY <1>1, <1>2 DEF IInv, VerifiedIsWhole
<1>4. job'.at = "idle"
  OBVIOUS
<1> QED
  BY <1>2, <1>3, <1>4 DEF IInv, Typed, NothingLost, Filling, Held, After, NeverDamaged,
     Checked, Before, SigningInv

-----------------------------------------------------------------------------
(* Faults. *)

LEMMA FaultSteps == ASSUME IInv, IOError \/ Crash PROVE IInv'
<1>1. CASE UNCHANGED <<live, copies, signed, done>> /\ job' = [at |-> "idle"]
  BY <1>1, EndKeeps
<1>2. CASE /\ job.at \in {"fill", "verify"} /\ copies' = Unlinked(job.copy)
           /\ job' = [at |-> "idle"] /\ UNCHANGED <<live, signed, done>>
  BY <1>2, UnlinkKeeps
<1>3. CASE /\ job.at \in {"replace", "init", "final"} /\ job' = [job EXCEPT !.at = "undo"]
           /\ UNCHANGED <<live, copies, signed, done>>
  <2>1. job \in Request /\ live \in File /\ Readable(live)
    BY <1>3 DEF IInv, Typed, Request, NeverDamaged
  <2>2. job' \in Request /\ job'.at = "undo" /\ job'.copy = job.copy
    BY <1>3, <2>1 DEF Request, After
  <2> QED
    BY <1>3, <2>1, <2>2, SwapKeeps DEF After
<1>4. CASE /\ signed' = [signed EXCEPT ![Len(signed)] = [state |-> "gone"]]
           /\ job' = [at |-> "idle"] /\ UNCHANGED <<live, copies, done>>
  BY <1>4, WithdrawKeeps
<1> QED
  BY <1>1, <1>2, <1>3, <1>4 DEF IOError, Crash, Ends, Goes

LEMMA RestartStep == ASSUME IInv, Restart PROVE IInv'
<1>1. /\ live' = Initialized(live) /\ UNCHANGED <<copies, signed, job, done>> /\ live \in File
  BY DEF Restart, IInv, Typed
<1>2. live' \in File /\ live'.rows = live.rows /\ Readable(live')
  BY <1>1, InitializedKeeps DEF IInv, NeverDamaged
<1> QED
  BY <1>1, <1>2 DEF IInv, Typed, NothingLost, Filling, Held, Kept, NeverDamaged, Checked,
     VerifiedIsWhole, SigningInv

-----------------------------------------------------------------------------
(* The invariant, and what it is for. *)

\* IInv holds in every reachable state of the files.
THEOREM Invariance == Spec => []IInv
<1>1. IInv /\ [Next]_vars => IInv'
  <2>1. SUFFICES ASSUME IInv, [Next]_vars PROVE IInv'
    OBVIOUS
  <2>2. CASE UNCHANGED vars
    BY <2>1, <2>2 DEF vars, IInv, Typed, NothingLost, Filling, Held, Kept, NeverDamaged,
       Checked, VerifiedIsWhole, SigningInv
  <2>3. CASE Note
    BY <2>1, <2>3, EndKeeps DEF Note, Ends
  <2>4. CASE Next /\ ~Note
    BY <2>1, <2>4, WriteStep, LoginStep, AskSteps, NameStep, FillStep, VerifyStep, SwapSteps,
       DraftStep, PublishStep, ManifestStep, FaultSteps, RestartStep DEF Next
  <2> QED
    BY <2>1, <2>2, <2>3, <2>4
<1> QED
  BY <1>1, InitialFile, PTL DEF Spec

\* Whatever backups, restores and replacements fail or are cut short, an operation
\* that was acknowledged is in the operational file or in a backup that a restore
\* accepts (backup.py:95-133, 143-307).
THEOREM NothingIsLost == Spec => []NothingLost
BY Invariance, PTL DEF IInv

\* The operational file always passes the check with the base tables
\* (backup.py:157, 232), and a backup with data file and manifest is complete and
\* the one the manifest was written for (multi_database_backup.py:350-430).
THEOREM FilesKeptWhole == Spec => []FilesAreWhole
BY Invariance, PTL DEF IInv, FilesAreWhole
-----------------------------------------------------------------------------
(* How a request ends: the operational file as it was, or the one asked for. *)

\* The operations of the warehouse in a file.
Work(f) == f.rows \cap Ops

\* Until the rename the operational file is the one the request found; nobody but a
\* login writes to it.
AsFound ==
  job.at \in Before =>
    Work(live) = Work(job.old) /\ live.shape = job.old.shape /\ live.users = "admin"

\* The safety copy is filled from it, and from its check on it is complete.
CopyAsFound ==
  /\ job.at \in {"verify", "replace"} \cup After =>
       /\ copies[job.copy].file.users = "admin"
       /\ Work(copies[job.copy].file) = Work(job.old)
  /\ job.at \in {"replace"} \cup After => Complete(copies[job.copy].file)

\* After the rename it is the file asked for, after the way back the safety copy.
AsAsked ==
  /\ job.at \in {"init", "final"} => Work(live) = Work(job.file)
  /\ job.at = "reinit" => Work(live) = Work(job.old) /\ Complete(live) /\ live.users = "admin"

EndInv ==
  /\ IInv /\ AsFound /\ CopyAsFound /\ AsAsked
  /\ job.at \in Signing => job.kind = "sign"
  /\ up \/ job.at = "idle"

LEMMA InitialEnd == Init => EndInv
<1>1. Init => job.at = "idle"
  BY DEF Init
<1> QED
  BY <1>1, InitialFile DEF EndInv, AsFound, CopyAsFound, AsAsked, Before, After, Signing

\* A request that moves on to its next step, or ends.
LEMMA Moves ==
  ASSUME IInv, job.at # "idle", NEW step \in Before \cup After \cup Signing, Goes(step)
  PROVE  /\ job' \in Request /\ job'.at = step /\ job'.copy = job.copy
         /\ job'.file = job.file /\ job'.old = job.old /\ job'.kind = job.kind
<1>1. job \in Request
  BY DEF IInv, Typed
<1> QED
  BY <1>1 DEF Goes, Request

LEMMA EndedInv == ASSUME EndInv, Next, job'.at = "idle", IInv' PROVE EndInv'
BY DEF EndInv, AsFound, CopyAsFound, AsAsked, Before, After, Signing

LEMMA IInvStep == ASSUME IInv, Next PROVE IInv'
<1>1. CASE Note
  BY <1>1, EndKeeps DEF Note, Ends
<1> QED
  BY <1>1, WriteStep, LoginStep, AskSteps, NameStep, FillStep, VerifyStep, SwapSteps,
     DraftStep, PublishStep, ManifestStep, FaultSteps, RestartStep DEF Next

LEMMA WorkEnd ==
  ASSUME EndInv, (\E op \in Ops : Write(op)) \/ (\E row \in Logins : Login(row)) \/ Restart
  PROVE  EndInv'
<1>1. IInv' 
  BY IInvStep DEF EndInv, Next
<1>2. CASE \E op \in Ops : Write(op)
  <2>1. job'.at = "idle"
    BY <1>2 DEF Write, Idle
  <2> QED
    BY <1>1, <1>2, <2>1, EndedInv DEF Next
<1>3. CASE \E row \in Logins : Login(row)
  <2>1. PICK row \in Logins : Login(row)
    BY <1>3
  <2>2. /\ Work(live') = Work(live) /\ live'.shape = live.shape /\ live'.users = live.users
        /\ UNCHANGED <<copies, job, up>>
    BY <2>1, FileAssumption DEF Login, Work, EndInv, IInv, Typed, File
  <2>3. AsFound' /\ CopyAsFound' /\ AsAsked'
    BY <2>2 DEF EndInv, AsFound, CopyAsFound, AsAsked, Work, Complete
  <2> QED
    BY <1>1, <2>2, <2>3 DEF EndInv
<1>4. CASE Restart
  <2>1. job'.at = "idle"
    BY <1>4 DEF Restart, EndInv
  <2> QED
    BY <1>1, <1>4, <2>1, EndedInv DEF Next
<1> QED
  BY <1>2, <1>3, <1>4

LEMMA AskEnd ==
  ASSUME EndInv, IInv', NEW kind, NEW file, Ask(kind, file)
  PROVE  EndInv'
<1>1. /\ job'.at = IF kind = "sign" THEN "draft" ELSE "name"
      /\ job'.kind = kind /\ job'.old = live /\ live.users = "admin"
      /\ UNCHANGED <<live, copies>> /\ up /\ up'
  BY DEF Ask
<1> QED
  BY <1>1 DEF EndInv, AsFound, CopyAsFound, AsAsked, Before, After, Signing

LEMMA CopyEnd == ASSUME EndInv, NameCopy \/ FillCopy \/ VerifyCopy PROVE EndInv'
<1>1. IInv' /\ IInv /\ (up' <=> up) /\ live' = live
  BY IInvStep DEF EndInv, Next, NameCopy, FillCopy, VerifyCopy
<1>2. CASE NameCopy
  <2>1. job \in Request /\ job.at = "name"
    BY <1>1, <1>2 DEF NameCopy, IInv, Typed, Request
  <2>2. /\ job'.at = "fill" /\ job'.old = job.old
    BY <1>2, <2>1 DEF NameCopy, Request
  <2> QED
    BY <1>1, <2>1, <2>2 DEF EndInv, AsFound, CopyAsFound, AsAsked, Before, After, Signing
<1>3. CASE FillCopy
  <2>1. job.at = "fill" /\ job'.at = "verify" /\ job'.old = job.old /\ job'.copy = job.copy
    BY <1>1, <1>3, Moves DEF FillCopy, Before
  <2>2. copies'[job.copy].file = live
    BY <1>1, <1>3, <2>1 DEF FillCopy, IInv, Typed, Filling, Copy
  <2> QED
    BY <1>1, <2>1, <2>2 DEF EndInv, AsFound, CopyAsFound, AsAsked, Before, After, Signing
<1>4. CASE VerifyCopy
  <2>1. CASE job'.at = "idle"
    BY <1>1, <1>4, <2>1, EndedInv DEF Next
  <2>2. CASE job'.at # "idle"
    <3>1. Complete(copies[job.copy].file) /\ Goes("replace") /\ UNCHANGED copies
          /\ job.at = "verify"
      BY <1>4, <2>2 DEF VerifyCopy, Ends
    <3>2. job'.at = "replace" /\ job'.old = job.old /\ job'.copy = job.copy
      BY <1>1, <3>1, Moves DEF Before
    <3> QED
      BY <1>1, <3>1, <3>2 DEF EndInv, AsFound, CopyAsFound, AsAsked, Before, After, Signing
  <2> QED
    BY <2>1, <2>2
<1> QED
  BY <1>2, <1>3, <1>4

\* The start-up keeps the rows and completes what it may.
LEMMA InitializedWork ==
  ASSUME NEW f \in File
  PROVE  /\ Work(Initialized(f)) = Work(f)
         /\ Complete(f) => Complete(Initialized(f))
         /\ f.users = "admin" => Initialized(f).users = "admin"
BY DEF Initialized, File, Shapes, Accounts, Work, Complete

LEMMA SwapEnd ==
  ASSUME EndInv, Replace \/ InitLive \/ FinalCheck \/ Undo \/ Reinit
  PROVE  EndInv'
<1>1. IInv' /\ IInv /\ live \in File /\ UNCHANGED <<copies, up>>
  BY IInvStep DEF EndInv, Next, IInv, Typed, Replace, InitLive, FinalCheck, Undo, Reinit
<1>2. CASE job'.at = "idle"
  BY <1>1, <1>2, EndedInv DEF Next
<1>3. CASE job'.at # "idle"
  <2>1. job.at \in {"replace", "init", "final", "undo"}
    BY <1>3 DEF Replace, InitLive, FinalCheck, Undo, Reinit, Ends
  <2>2. /\ job'.copy = job.copy /\ job'.old = job.old /\ job'.file = job.file
        /\ job.at = "replace" => job'.at = "init" /\ live' = job.file
        /\ job.at = "init" => job'.at = "final" /\ live' = Initialized(live)
        /\ job.at = "final" => job'.at = "undo"
        /\ job.at = "undo" => job'.at = "reinit" /\ live' = copies[job.copy].file
    BY <1>1, <1>3, <2>1, Moves DEF Replace, InitLive, FinalCheck, Undo, Reinit, After, Ends
  <2> QED
    BY <1>1, <2>1, <2>2, InitializedWork
    DEF EndInv, AsFound, CopyAsFound, AsAsked, Before, After, Signing, Work, Complete
<1> QED
  BY <1>2, <1>3

LEMMA SigningEnd == ASSUME EndInv, Draft \/ Publish \/ Manifest \/ Note PROVE EndInv'
<1>1. IInv' /\ IInv /\ (up' <=> up) /\ job.at \in Signing /\ job.kind = "sign"
  BY IInvStep DEF EndInv, Next, Draft, Publish, Manifest, Note, Signing
<1>2. CASE job'.at = "idle"
  BY <1>1, <1>2, EndedInv DEF Next
<1>3. CASE job'.at # "idle"
  <2>1. job \in Request
    BY <1>1 DEF IInv, Typed, Signing
  <2>2. CASE Draft
    <3> DEFINE drafted == [job EXCEPT !.at = "publish"]
    <3>1. drafted.at = "publish" /\ drafted.kind = job.kind /\ DOMAIN drafted = DOMAIN job
          /\ DOMAIN job = {"at", "kind", "file", "copy", "old"}
      BY <2>1 DEF Request
    <3>2. job' = [drafted EXCEPT !.file = live]
      BY <1>3, <2>2 DEF Draft, Ends
    <3> HIDE DEF drafted
    <3>3. job'.at = "publish" /\ job'.kind = job.kind
      BY <3>1, <3>2
    <3> QED
      BY <1>1, <3>3 DEF EndInv, AsFound, CopyAsFound, AsAsked, Before, After, Signing
  <2>3. CASE Publish \/ Manifest
    <3>1. job'.at \in Signing /\ job'.kind = "sign"
      BY <1>1, <2>3, Moves DEF Publish, Manifest, Signing
    <3> QED
      BY <1>1, <3>1 DEF EndInv, AsFound, CopyAsFound, AsAsked, Before, After, Signing
  <2> QED
    BY <1>3, <2>2, <2>3 DEF Note, Ends
<1> QED
  BY <1>2, <1>3

LEMMA FaultEnd == ASSUME EndInv, IOError \/ Crash PROVE EndInv'
<1>1. IInv' /\ IInv /\ live' = live
  BY IInvStep DEF EndInv, Next, IOError, Crash
<1>2. CASE job'.at = "idle"
  BY <1>1, <1>2, EndedInv DEF Next
<1>3. CASE job'.at # "idle"
  <2>1. job.at \in {"replace", "init", "final"} /\ Goes("undo") /\ UNCHANGED <<copies, up>>
    BY <1>3 DEF IOError, Crash, Ends
  <2>2. job'.at = "undo" /\ job'.copy = job.copy /\ job'.old = job.old
    BY <1>1, <2>1, Moves DEF After
  <2> QED
    BY <1>1, <2>1, <2>2 DEF EndInv, AsFound, CopyAsFound, AsAsked, Before, After, Signing
<1> QED
  BY <1>2, <1>3

LEMMA EndStep == ASSUME EndInv, Next PROVE EndInv'
<1>1. CASE AskBackup \/ AskSigned \/ (\E c \in DOMAIN copies : AskRestore(c))
             \/ \E f \in Uploads : AskReplace(f)
  <2>1. IInv'
    BY IInvStep DEF EndInv
  <2> QED
    BY <1>1, <2>1, AskEnd DEF AskBackup, AskSigned, AskRestore, AskReplace
<1> QED
  BY <1>1, WorkEnd, CopyEnd, SwapEnd, SigningEnd, FaultEnd DEF Next

\* A restore or replacement that ends by itself leaves the warehouse as it was or the
\* file that was asked for, complete and, after an upload, with an administrator,
\* unless putting the safety copy back failed as well (backup.py:143-307).
THEOREM EndsAsOneOfTheTwo == Spec => OneOfTheTwo
<1>1. EndInv /\ [Next]_vars =>
       [~Idle /\ Idle' /\ up' /\ job.kind \in {"restore", "replace"}
       /\ ~(job.at \in {"undo", "reinit"} /\ faults' # faults) =>
     /\ Complete(job.old) => Complete(live')
     /\ job.kind = "replace" => live'.users = "admin"
     /\ live'.rows \cap Ops \in {job.old.rows \cap Ops, job.file.rows \cap Ops}]_vars
  <2>1. SUFFICES ASSUME EndInv, Next, ~Idle, Idle', up', job.kind \in {"restore", "replace"},
                        ~(job.at \in {"undo", "reinit"} /\ faults' # faults)
                 PROVE  /\ Complete(job.old) => Complete(live')
                        /\ job.kind = "replace" => live'.users = "admin"
                        /\ Work(live') \in {Work(job.old), Work(job.file)}
    BY DEF Work
  <2>2. job \in Request /\ live \in File /\ job'.at = "idle" /\ job.at # "idle"
    BY <2>1 DEF Idle, EndInv, IInv, Typed, Request, Before, After, Signing
  <2>3. CASE job.at \in Before /\ live' = live
    BY <2>1, <2>3 DEF EndInv, AsFound, Complete
  <2>4. CASE FinalCheck
    BY <2>1, <2>2, <2>4 DEF FinalCheck, Goes, Accepted, EndInv, AsAsked, Request
  <2>5. CASE Reinit
    BY <2>1, <2>2, <2>5, InitializedWork DEF Reinit, EndInv, AsAsked
  <2>6. CASE job.at \in Signing
    BY <2>1, <2>6 DEF EndInv
  <2>7. CASE NameCopy \/ FillCopy \/ VerifyCopy
    BY <2>3, <2>7 DEF NameCopy, FillCopy, VerifyCopy, Before
  <2>8. ~Replace /\ ~InitLive /\ ~Undo
    <3>1. IInv
      BY <2>1 DEF EndInv
    <3>2. \A step \in After : ~Goes(step)
      BY <2>2, <3>1, Moves DEF After
    <3> QED
      BY <3>2 DEF Replace, InitLive, Undo, After
  <2>9. CASE IOError
    <3>1. live' = live /\ job.at \notin {"undo", "reinit"} /\ faults' # faults
      BY <2>1, <2>9 DEF IOError, EndInv
    <3>2. job.at \notin {"replace", "init", "final"}
      BY <2>1, <2>2, <2>9, Moves DEF EndInv, IOError, After
    <3> QED
      BY <2>2, <2>3, <2>6, <2>9, <3>1, <3>2 DEF IOError, Before, Signing
  <2>10. CASE Draft \/ Publish \/ Manifest \/ Note
    BY <2>6, <2>10 DEF Draft, Publish, Manifest, Note, Signing
  <2> QED
    BY <2>1, <2>2, <2>4, <2>5, <2>7, <2>8, <2>9, <2>10
    DEF Next, Idle, Write, Login, Ask, AskBackup, AskSigned, AskRestore, AskReplace, Crash, Restart
<1>2. EndInv /\ [Next]_vars => EndInv'
  <2>1. EndInv /\ UNCHANGED vars => EndInv'
    BY DEF vars, EndInv, IInv, AsFound, CopyAsFound, AsAsked, Typed, NothingLost, Filling, Held, Kept,
      NeverDamaged, Checked, VerifiedIsWhole, SigningInv, Work
  <2> QED
    BY <2>1, EndStep
<1> QED
  BY <1>1, <1>2, InitialEnd, PTL DEF Spec, OneOfTheTwo

-----------------------------------------------------------------------------
(* The database of the next version. *)

OdePaths == Creations \cup {Void}

OdeFile == [run : Nat, registered : Nat, main : Seq(WrittenBy), wal : Seq(WrittenBy),
            logged : BOOLEAN, stale : BOOLEAN]

Outcomes == {"none", "returned", "close", "interrupted", "error"}

OdeUnit == [at : {"new", "waiting", "open", "over"}, file : OdePaths \cup {NoFile},
            write : BOOLEAN, tx : BOOLEAN, n : 0 .. MaxWrites, pending : Seq(WrittenBy),
            wanted : BOOLEAN, outcome : Outcomes]

OdeShape ==
  /\ creation \in [Creations -> InHand \cup {"new", "created", "refused", "failed",
                                            "interrupted", "unclean", "killed"}]
  /\ drafts \subseteq Creations /\ target \in OdePaths \cup {NoFile}
  /\ content \in [OdePaths -> OdeFile] /\ unit \in [Units -> OdeUnit]
  /\ active \in [Contexts -> BOOLEAN]

Holding == {"linked", "guarded", "dropped", "left", "published", "created"}

\* Where a creation stands tells what is on disk; one that is killed, or that does not
\* clean up after itself, leaves it there.
Stands(p) ==
  /\ creation[p] \in Holding \cup {"verified"} \/ target = p => MigratedFully(p)
  /\ creation[p] \in Holding => target = p
  /\ creation[p] \in {"new", "building", "verified", "refused", "failed"} => target # p
  /\ creation[p] \in {"new", "dropped", "left", "published", "created", "refused", "failed",
                      "interrupted"} => p \notin drafts

\* The writes a file holds.
Writes(c) == ToSet(c.main) \cup ToSet(c.wal)

NoneBy(u, c) == \A f \in OdePaths : \A w \in Writes(c[f]) : w.by # u

\* What the outcome of a unit tells of its statements, all of them.
Told(wanted, outcome, all) ==
  CASE wanted /\ outcome \in {"returned", "close"} -> {all}
    [] wanted /\ outcome = "interrupted" -> {all, {}}
    [] OTHER -> {{}}

\* A unit r that has not left the transaction it began has written nothing yet; its
\* statements wait, all of them. c: the files
UnitSound(u, r, c) ==
  /\ r.at \in {"waiting", "open"} \/ r.tx => r.file \in OdePaths
  /\ r.tx => r.at \in {"open", "over"}
  /\ ~r.tx \/ ~r.write => r.pending = <<>>
  /\ ~r.write => ~r.wanted
  /\ r.at \in {"new", "waiting"} => r.n = 0 /\ ~r.wanted
  /\ r.at # "over" => r.outcome = "none"
  /\ r.at = "open" /\ r.write => c[r.file].logged
  /\ r.at \in {"new", "waiting"} \/ (r.at = "open" /\ r.tx) => NoneBy(u, c)
  /\ r.at = "open" /\ r.tx /\ r.write => ToSet(r.pending) = [by : {u}, n : 1 .. r.n]
  /\ r.at = "over" /\ r.tx /\ r.write =>
       {w \in Writes(c[r.file]) : w.by = u} \in Told(r.wanted, r.outcome, [by : {u}, n : 1 .. r.n])

UnitsSound == \A u \in Units : UnitSound(u, unit[u], content)

\* r has touched the file f and still has it open.
Touches(r, f) == r.at \in {"waiting", "open"} /\ r.file = f /\ (r.write \/ r.n > 0)

\* What has not reached the main file has sidecars beside it.
LogIsSeen ==
  \A f \in OdePaths : content[f].wal # <<>> =>
    content[f].logged /\ (content[f].stale \/ \E v \in Units : Touches(unit[v], f))

LookOK ==
  /\ look.at \in {"idle", "looking", "read", "reported"}
  /\ look.at = "looking" =>
       look.file \in OdePaths /\ ToSet(look.before) \subseteq ToSet(content[look.file].main)
  /\ look.at \in {"read", "reported"} =>
       DOMAIN look = {"at", "file", "seen", "before"} /\ ToSet(look.before) \subseteq ToSet(look.seen)

OdeInv ==
  /\ OdeShape /\ (\A p \in Creations : Stands(p)) /\ UnitsSound
  /\ LogIsSeen /\ LookOK

-----------------------------------------------------------------------------
LEMMA Joined ==
  ASSUME NEW S, NEW a \in Seq(S), NEW b \in Seq(S)
  PROVE  a \o b \in Seq(S) /\ ToSet(a \o b) = ToSet(a) \cup ToSet(b)
<1>1. /\ a \o b \in Seq(S) /\ Len(a \o b) = Len(a) + Len(b) /\ Len(a) \in Nat /\ Len(b) \in Nat
      /\ DOMAIN a = 1 .. Len(a) /\ DOMAIN b = 1 .. Len(b) /\ DOMAIN (a \o b) = 1 .. (Len(a) + Len(b))
      /\ \A i \in 1 .. (Len(a) + Len(b)) :
           (a \o b)[i] = IF i <= Len(a) THEN a[i] ELSE b[i - Len(a)]
  BY ConcatProperties
<1>2. \A x \in ToSet(a \o b) : x \in ToSet(a) \cup ToSet(b)
  BY <1>1 DEF ToSet
<1>3. \A x \in ToSet(a) : x \in ToSet(a \o b)
  BY <1>1 DEF ToSet
<1>4. ASSUME NEW j \in DOMAIN b PROVE b[j] \in ToSet(a \o b)
  <2>1. Len(a) + j \in 1 .. (Len(a) + Len(b)) /\ ~(Len(a) + j <= Len(a)) /\ (Len(a) + j) - Len(a) = j
    BY <1>1
  <2>2. (a \o b)[Len(a) + j] = b[j]
    BY <1>1, <2>1
  <2> QED
    BY <1>1, <2>1, <2>2 DEF ToSet
<1> QED
  BY <1>1, <1>2, <1>3, <1>4 DEF ToSet

LEMMA Appended ==
  ASSUME NEW S, NEW a \in Seq(S), NEW x \in S
  PROVE  Append(a, x) \in Seq(S) /\ ToSet(Append(a, x)) = ToSet(a) \cup {x} /\ Append(a, x) # <<>>
<1>1. /\ Append(a, x) \in Seq(S) /\ Len(a) \in Nat /\ DOMAIN a = 1 .. Len(a)
      /\ DOMAIN Append(a, x) = 1 .. (Len(a) + 1) /\ Append(a, x)[Len(a) + 1] = x
      /\ \A i \in 1 .. Len(a) : Append(a, x)[i] = a[i]
  OBVIOUS
<1>2. \A i \in 1 .. (Len(a) + 1) : i = Len(a) + 1 \/ i \in 1 .. Len(a)
  BY <1>1
<1>3. Len(a) + 1 \in DOMAIN Append(a, x)
  BY <1>1
<1> QED
  BY <1>1, <1>2, <1>3 DEF ToSet

LEMMA EmptyToSet == ToSet(<<>>) = {} /\ \A S : <<>> \in Seq(S)
BY DEF ToSet

\* A file is a file again, whatever of it is replaced.
LEMMA FileParts ==
  ASSUME NEW c \in OdeFile
  PROVE  /\ c.run \in Nat /\ c.registered \in Nat /\ c.main \in Seq(WrittenBy) /\ c.wal \in Seq(WrittenBy)
         /\ c.logged \in BOOLEAN /\ c.stale \in BOOLEAN
BY DEF OdeFile

LEMMA FileAgain ==
  ASSUME NEW c \in OdeFile, NEW d, DOMAIN d = DOMAIN c, d = [f \in DOMAIN c |-> d[f]],
         d.run \in Nat, d.registered \in Nat, d.main \in Seq(WrittenBy), d.wal \in Seq(WrittenBy),
         d.logged \in BOOLEAN, d.stale \in BOOLEAN
  PROVE  d \in OdeFile
BY DEF OdeFile

LEMMA RunChanges ==
  ASSUME NEW c \in OdeFile, NEW n \in Nat
  PROVE  LET d == [c EXCEPT !.run = n]
             e == [c EXCEPT !.registered = n]
         IN  /\ d \in OdeFile /\ e \in OdeFile
             /\ d.main = c.main /\ d.wal = c.wal /\ d.logged = c.logged /\ d.stale = c.stale
             /\ e.main = c.main /\ e.wal = c.wal /\ e.logged = c.logged /\ e.stale = c.stale
<1> DEFINE d == [c EXCEPT !.run = n]
           e == [c EXCEPT !.registered = n]
<1>1. /\ DOMAIN d = DOMAIN c /\ d = [f \in DOMAIN c |-> d[f]] /\ d.run = n /\ d.registered = c.registered
      /\ d.main = c.main /\ d.wal = c.wal /\ d.logged = c.logged /\ d.stale = c.stale
  BY DEF OdeFile
<1>2. /\ DOMAIN e = DOMAIN c /\ e = [f \in DOMAIN c |-> e[f]] /\ e.run = c.run /\ e.registered = n
      /\ e.main = c.main /\ e.wal = c.wal /\ e.logged = c.logged /\ e.stale = c.stale
  BY DEF OdeFile
<1> HIDE DEF d, e
<1>3. d \in OdeFile /\ e \in OdeFile
  BY <1>1, <1>2, FileParts, FileAgain
<1> QED
  BY <1>1, <1>2, <1>3 DEF d, e

LEMMA FilePut ==
  ASSUME content \in [OdePaths -> OdeFile], NEW f \in OdePaths, NEW c \in OdeFile,
         content' = [content EXCEPT ![f] = c]
  PROVE  /\ content' \in [OdePaths -> OdeFile] /\ content'[f] = c
         /\ \A g \in OdePaths : g # f => content'[g] = content[g]
OBVIOUS

-----------------------------------------------------------------------------
(* Creations. *)

\* Migrating touches nothing that a unit or a report looks at.
LEMMA DataKept ==
  ASSUME OdeInv, UNCHANGED <<unit, look>>,
         content' \in [OdePaths -> OdeFile],
         \A f \in OdePaths : /\ content'[f].main = content[f].main /\ content'[f].wal = content[f].wal
                             /\ content'[f].logged = content[f].logged
                             /\ content'[f].stale = content[f].stale
  PROVE  UnitsSound' /\ LogIsSeen' /\ LookOK'
<1>1. LookOK'
  BY DEF OdeInv, LookOK
<1>2. LogIsSeen'
  BY DEF OdeInv, LogIsSeen, Touches
<1>3. \A f \in OdePaths : Writes(content'[f]) = Writes(content[f])
  BY DEF Writes
<1>4. ASSUME NEW u \in Units PROVE UnitSound(u, unit[u], content')
  <2>1. NoneBy(u, content') <=> NoneBy(u, content)
    BY <1>3 DEF NoneBy
  <2>2. UnitSound(u, unit[u], content)
    BY DEF OdeInv, UnitsSound
  <2> QED
    BY <1>3, <2>1, <2>2 DEF UnitSound
<1>5. UnitsSound'
  BY <1>4 DEF UnitsSound
<1> QED
  BY <1>1, <1>2, <1>5

\* What a creation does to the files: it migrates its own, nothing else.
LEMMA Migrates ==
  ASSUME OdeInv, NEW p \in Creations, RunScript(p) \/ Register(p)
  PROVE  /\ content' \in [OdePaths -> OdeFile] /\ creation[p] = "building"
         /\ \A f \in OdePaths : /\ content'[f].main = content[f].main /\ content'[f].wal = content[f].wal
                                /\ content'[f].logged = content[f].logged
                                /\ content'[f].stale = content[f].stale
                                /\ f # p => content'[f] = content[f]
         /\ UNCHANGED <<creation, drafts, target, unit, active, look>>
<1>1. p \in OdePaths /\ content[p] \in OdeFile /\ content \in [OdePaths -> OdeFile]
      /\ content[p].run \in Nat /\ content[p].registered \in Nat
  BY DEF OdeInv, OdeShape, OdePaths, OdeFile
<1>2. PICK c \in OdeFile :
        /\ content' = [content EXCEPT ![p] = c]
        /\ c.main = content[p].main /\ c.wal = content[p].wal
        /\ c.logged = content[p].logged /\ c.stale = content[p].stale
  <2>1. CASE RunScript(p)
    <3>1. content' = [content EXCEPT ![p] = [content[p] EXCEPT !.run = content[p].run + 1]]
      BY <2>1 DEF RunScript
    <3>2. content[p].run + 1 \in Nat
      BY <1>1
    <3> QED
      BY <1>1, <3>1, <3>2, RunChanges
  <2>2. CASE Register(p)
    <3>1. content' = [content EXCEPT ![p] = [content[p] EXCEPT !.registered = content[p].registered + 1]]
      BY <2>2 DEF Register
    <3>2. content[p].registered + 1 \in Nat
      BY <1>1
    <3> QED
      BY <1>1, <3>1, <3>2, RunChanges
  <2> QED
    BY <2>1, <2>2
<1>3. /\ content' \in [OdePaths -> OdeFile] /\ content'[p] = c
      /\ \A g \in OdePaths : g # p => content'[g] = content[g]
  BY <1>1, <1>2, FilePut
<1>4. creation[p] = "building" /\ UNCHANGED <<creation, drafts, target, unit, active, look>>
  BY DEF RunScript, Register, making
<1> QED
  BY <1>2, <1>3, <1>4

CreationStep(p) ==
  \/ BeginCreate(p) \/ RunScript(p) \/ Register(p) \/ VerifyDraft(p) \/ Link(p)
  \/ Guard(p) \/ DropDraft(p) \/ Leave(p) \/ MarkPublished(p) \/ Return(p)
  \/ \E cleans, unlinks \in BOOLEAN :
       StopCreate(p, cleans) \/ InterruptCreate(p, cleans) \/ TakeBack(p, cleans, unlinks)
  \/ KillCreate(p)

LEMMA CreatingKeeps == ASSUME OdeInv, NEW p \in Creations, CreationStep(p) PROVE OdeInv'
<1>1. OdeShape /\ \A q \in Creations : Stands(q)
  BY DEF OdeInv
<1>2. /\ Void \notin Creations /\ NoFile \notin Creations /\ NoFile # Void /\ p \in OdePaths
  BY OdeAssumption DEF OdePaths
<1>3. CASE RunScript(p) \/ Register(p)
  <2>1. /\ content' \in [OdePaths -> OdeFile] /\ creation[p] = "building"
        /\ \A f \in OdePaths : /\ content'[f].main = content[f].main /\ content'[f].wal = content[f].wal
                               /\ content'[f].logged = content[f].logged
                               /\ content'[f].stale = content[f].stale
                               /\ f # p => content'[f] = content[f]
        /\ UNCHANGED <<creation, drafts, target, unit, active, look>>
    BY <1>3, Migrates
  <2>2. OdeShape'
    BY <1>1, <2>1 DEF OdeShape
  <2>3. \A q \in Creations : Stands(q)'
    BY <1>1, <2>1 DEF Stands, MigratedFully, OdePaths
  <2>4. UnitsSound' /\ LogIsSeen' /\ LookOK'
    BY <2>1, DataKept
  <2> QED
    BY <2>2, <2>3, <2>4 DEF OdeInv
<1>4. CASE ~(RunScript(p) \/ Register(p))
  <2>1. UNCHANGED <<content, unit, active, look>>
    BY <1>4 DEF CreationStep, BeginCreate, VerifyDraft, Link, Guard, DropDraft, Leave, MarkPublished, Return, Then,
          StopCreate, InterruptCreate, TakeBack, KillCreate
  <2>2. OdeShape'
    BY <1>1, <1>2, <1>4, <2>1 DEF OdeShape, OdePaths, InHand, Proceeds, CreationStep,
          BeginCreate, VerifyDraft, Link, Guard, DropDraft, Leave, MarkPublished, Return, Then,
          StopCreate, InterruptCreate, TakeBack, KillCreate
  <2>3. ASSUME NEW q \in Creations PROVE Stands(q)'
    <3>1. Stands(q) /\ Stands(p) /\ creation \in [Creations -> InHand \cup
             {"new", "created", "refused", "failed", "interrupted", "unclean", "killed"}]
      BY <1>1 DEF OdeShape
    <3>2. MigratedFully(q)' <=> MigratedFully(q)
      BY <2>1 DEF MigratedFully
    <3>3. CASE BeginCreate(p)
      BY <1>2, <3>1, <3>2, <3>3 DEF Stands, Holding, BeginCreate, Proceeds
    <3>4. CASE VerifyDraft(p)
      BY <1>2, <3>1, <3>2, <3>4 DEF Stands, Holding, VerifyDraft, Proceeds
    <3>5. CASE Link(p)
      BY <1>2, <3>1, <3>2, <3>5 DEF Stands, Holding, Link, Proceeds
    <3>6. CASE Guard(p) \/ DropDraft(p) \/ Leave(p) \/ MarkPublished(p) \/ Return(p)
      BY <1>2, <3>1, <3>2, <3>6
      DEF Stands, Holding, Guard, DropDraft, Leave, MarkPublished, Return, Then, Proceeds
    <3>7. CASE KillCreate(p)
      BY <1>2, <3>1, <3>2, <3>7 DEF Stands, Holding, KillCreate, Proceeds, InHand
    <3>8. ASSUME NEW cleans \in BOOLEAN, StopCreate(p, cleans) PROVE Stands(q)'
      BY <1>2, <3>1, <3>2, <3>8 DEF Stands, Holding, StopCreate, Proceeds
    <3>9. ASSUME NEW cleans \in BOOLEAN, InterruptCreate(p, cleans) PROVE Stands(q)'
      BY <1>2, <3>1, <3>2, <3>9 DEF Stands, Holding, InterruptCreate, Proceeds
    <3>10. ASSUME NEW cleans \in BOOLEAN, NEW unlinks \in BOOLEAN, TakeBack(p, cleans, unlinks)
           PROVE  Stands(q)'
      BY <1>2, <3>1, <3>2, <3>10 DEF Stands, Holding, TakeBack, Proceeds
    <3> QED
      BY <1>4, <3>3, <3>4, <3>5, <3>6, <3>7, <3>8, <3>9, <3>10 DEF CreationStep
  <2>4. UnitsSound' /\ LogIsSeen' /\ LookOK'
    BY <1>1, <2>1, DataKept DEF OdeShape
  <2> QED
    BY <2>2, <2>3, <2>4 DEF OdeInv
<1> QED
  BY <1>3, <1>4

-----------------------------------------------------------------------------
(* Units of work. *)

LEMMA UnitParts ==
  ASSUME NEW r \in OdeUnit
  PROVE  /\ r.at \in {"new", "waiting", "open", "over"} /\ r.file \in OdePaths \cup {NoFile}
         /\ r.write \in BOOLEAN /\ r.tx \in BOOLEAN /\ r.n \in 0 .. MaxWrites /\ r.n \in Nat
         /\ r.pending \in Seq(WrittenBy) /\ r.wanted \in BOOLEAN /\ r.outcome \in Outcomes
BY OdeAssumption DEF OdeUnit

LEMMA UnitAgain ==
  ASSUME NEW r \in OdeUnit, NEW s, DOMAIN s = DOMAIN r, s = [f \in DOMAIN r |-> s[f]],
         s.at \in {"new", "waiting", "open", "over"}, s.file \in OdePaths \cup {NoFile},
         s.write \in BOOLEAN, s.tx \in BOOLEAN, s.n \in 0 .. MaxWrites,
         s.pending \in Seq(WrittenBy), s.wanted \in BOOLEAN, s.outcome \in Outcomes
  PROVE  s \in OdeUnit
BY DEF OdeUnit

\* A step of one unit is sound for the others, which see their own writes only.
LEMMA UnitSteps ==
  ASSUME OdeInv, NEW u \in Units, NEW r \in OdeUnit, unit' = [unit EXCEPT ![u] = r],
         content' \in [OdePaths -> OdeFile],
         \A f \in OdePaths :
           /\ content'[f].run = content[f].run /\ content'[f].registered = content[f].registered
           /\ content[f].logged => content'[f].logged
           /\ ToSet(content[f].main) \subseteq ToSet(content'[f].main)
           /\ \A w : w.by # u => (w \in Writes(content'[f]) <=> w \in Writes(content[f])),
         UNCHANGED <<creation, drafts, look>>,
         target' = target \/ (target = NoFile /\ target' = Void),
         active' \in [Contexts -> BOOLEAN],
         UnitSound(u, r, content'), LogIsSeen'
  PROVE  OdeInv'
<1>1. OdeShape'
  BY DEF OdeInv, OdeShape, OdePaths
<1>2. \A p \in Creations : Stands(p)'
  BY OdeAssumption DEF OdeInv, Stands, MigratedFully, OdePaths
<1>3. LookOK'
  BY DEF OdeInv, LookOK
<1>4. ASSUME NEW v \in Units, v # u PROVE UnitSound(v, unit'[v], content')
  <2>1. unit'[v] = unit[v] /\ UnitSound(v, unit[v], content)
    BY <1>4 DEF OdeInv, OdeShape, UnitsSound
  <2>2. \A f \in OdePaths : {w \in Writes(content'[f]) : w.by = v} = {w \in Writes(content[f]) : w.by = v}
    BY <1>4
  <2>3. NoneBy(v, content') <=> NoneBy(v, content)
    BY <1>4 DEF NoneBy
  <2> QED
    BY <2>1, <2>2, <2>3 DEF UnitSound
<1>5. unit'[u] = r
  BY DEF OdeInv, OdeShape
<1>6. UnitsSound'
  BY <1>4, <1>5 DEF UnitsSound
<1> QED
  BY <1>1, <1>2, <1>3, <1>6 DEF OdeInv

\* A unit that lets go of nothing leaves the logs as they were.
LEMMA LogStays ==
  ASSUME OdeInv, NEW u \in Units, NEW r, unit' = [unit EXCEPT ![u] = r],
         \A f \in OdePaths :
           /\ content'[f].wal = content[f].wal
           /\ content[f].logged => content'[f].logged
           /\ content[f].stale => content'[f].stale
           /\ Touches(unit[u], f) => Touches(r, f)
  PROVE  LogIsSeen'
<1>1. unit'[u] = r /\ \A v \in Units \ {u} : unit'[v] = unit[v]
  BY DEF OdeInv, OdeShape
<1>2. \A f \in OdePaths, v \in Units : Touches(unit[v], f) => Touches(unit'[v], f)
  BY <1>1
<1> QED
  BY <1>2 DEF OdeInv, LogIsSeen

\* A step of one unit that leaves the files alone.
LEMMA QuietStep ==
  ASSUME OdeInv, NEW u \in Units, NEW r \in OdeUnit, unit' = [unit EXCEPT ![u] = r],
         UNCHANGED <<creation, drafts, look, content>>,
         target' = target \/ (target = NoFile /\ target' = Void),
         active' \in [Contexts -> BOOLEAN],
         UnitSound(u, r, content),
         \A f \in OdePaths : Touches(unit[u], f) => Touches(r, f)
  PROVE  OdeInv'
<1>1. content \in [OdePaths -> OdeFile]
  BY DEF OdeInv, OdeShape
<1>2. LogIsSeen'
  BY LogStays
<1> QED
  BY <1>1, <1>2, UnitSteps

LEMMA OfUnits ==
  ASSUME OdeInv, NEW u \in Units
  PROVE  /\ unit[u] \in OdeUnit /\ UnitSound(u, unit[u], content)
         /\ content \in [OdePaths -> OdeFile] /\ active \in [Contexts -> BOOLEAN]
         /\ DOMAIN unit[u] = {"at", "file", "write", "tx", "n", "pending", "wanted", "outcome"}
BY DEF OdeInv, OdeShape, OdeUnit, UnitsSound

LEMMA EnterKeeps == ASSUME OdeInv, NEW u \in Units, NEW write \in BOOLEAN, Enter(u, write) PROVE OdeInv'
<1> DEFINE f == IF target = NoFile THEN Void ELSE target
           refused == [unit[u] EXCEPT !.at = "over", !.outcome = "error"]
           entered == [unit[u] EXCEPT !.at = "waiting", !.file = f, !.write = write]
<1>1. unit[u] \in OdeUnit /\ UnitSound(u, unit[u], content) /\ unit[u].at = "new" /\ active' \in [Contexts -> BOOLEAN]
      /\ UNCHANGED <<creation, drafts, look, content>>
  BY OfUnits DEF Enter, making
<1>2. f \in OdePaths /\ (f = target \/ (target = NoFile /\ f = Void))
  BY OdeAssumption DEF OdeInv, OdeShape, OdePaths
<1>3. \A g \in OdePaths : ~Touches(unit[u], g)
  BY <1>1 DEF Touches
<1>4. CASE unit' = [unit EXCEPT ![u] = refused] /\ target' = target
  <2>1. /\ DOMAIN refused = DOMAIN unit[u] /\ refused = [x \in DOMAIN unit[u] |-> refused[x]]
        /\ refused.at = "over" /\ refused.outcome = "error" /\ refused.file = unit[u].file /\ refused.write = unit[u].write
        /\ refused.tx = unit[u].tx /\ refused.n = unit[u].n /\ refused.pending = unit[u].pending
        /\ refused.wanted = unit[u].wanted
    BY <1>1 DEF OdeUnit
  <2> HIDE DEF refused
  <2>2. refused \in OdeUnit
    BY <1>1, <2>1, UnitParts, UnitAgain DEF Outcomes
  <2>3. UnitSound(u, refused, content)
    BY <1>1, <2>1 DEF UnitSound
  <2> QED
    BY <1>1, <1>3, <1>4, <2>2, <2>3, QuietStep
<1>5. CASE unit' = [unit EXCEPT ![u] = entered] /\ target' = f
  <2>1. /\ DOMAIN entered = DOMAIN unit[u] /\ entered = [x \in DOMAIN unit[u] |-> entered[x]]
        /\ entered.at = "waiting" /\ entered.outcome = unit[u].outcome /\ entered.file = f /\ entered.write = write
        /\ entered.tx = unit[u].tx /\ entered.n = unit[u].n /\ entered.pending = unit[u].pending
        /\ entered.wanted = unit[u].wanted
    BY <1>1 DEF OdeUnit
  <2> HIDE DEF entered, f
  <2>2. entered \in OdeUnit
    BY <1>1, <1>2, <2>1, UnitParts, UnitAgain
  <2>3. UnitSound(u, entered, content)
    BY <1>1, <1>2, <2>1 DEF UnitSound
  <2> QED
    BY <1>1, <1>2, <1>3, <1>5, <2>2, <2>3, QuietStep
<1> QED
  BY <1>1, <1>4, <1>5 DEF Enter

\* The last statements of a transaction, undone or not begun, and wishes: the files
\* are left alone.
LEMMA RollbackKeeps == ASSUME OdeInv, NEW u \in Units, Rollback(u) PROVE OdeInv'
<1> DEFINE r == [unit[u] EXCEPT !.tx = FALSE, !.pending = <<>>, !.wanted = FALSE]
<1>1. unit[u] \in OdeUnit /\ UnitSound(u, unit[u], content) /\ unit[u].at = "open" /\ active' \in [Contexts -> BOOLEAN]
      /\ unit' = [unit EXCEPT ![u] = r] /\ UNCHANGED <<creation, drafts, target, look, content>>
  BY OfUnits DEF Rollback, Runs, making
<1>2. /\ DOMAIN r = DOMAIN unit[u] /\ r = [x \in DOMAIN unit[u] |-> r[x]]
      /\ r.at = unit[u].at /\ r.file = unit[u].file
      /\ r.write = unit[u].write /\ r.tx = FALSE
      /\ r.n = unit[u].n /\ r.pending = <<>>
      /\ r.wanted = FALSE /\ r.outcome = unit[u].outcome
  BY <1>1 DEF OdeUnit
<1> HIDE DEF r
<1>3. r \in OdeUnit
  <2>1. r.pending \in Seq(WrittenBy)
    BY <1>2, EmptyToSet
  <2> QED
    BY <1>1, <1>2, <2>1, UnitParts, UnitAgain
<1>4. UnitSound(u, r, content)
  BY <1>1, <1>2 DEF UnitSound
<1>5. \A f \in OdePaths : Touches(unit[u], f) => Touches(r, f)
  BY <1>2 DEF Touches
<1> QED
  BY <1>1, <1>3, <1>4, <1>5, QuietStep

LEMMA StatementEndsKeeps == ASSUME OdeInv, NEW u \in Units, StatementEndsTx(u) PROVE OdeInv'
<1> DEFINE r == [unit[u] EXCEPT !.tx = FALSE, !.pending = <<>>]
<1>1. unit[u] \in OdeUnit /\ UnitSound(u, unit[u], content) /\ unit[u].at = "open" /\ active' \in [Contexts -> BOOLEAN]
      /\ unit' = [unit EXCEPT ![u] = r] /\ UNCHANGED <<creation, drafts, target, look, content>>
  BY OfUnits DEF StatementEndsTx, Runs, making
<1>2. /\ DOMAIN r = DOMAIN unit[u] /\ r = [x \in DOMAIN unit[u] |-> r[x]]
      /\ r.at = unit[u].at /\ r.file = unit[u].file
      /\ r.write = unit[u].write /\ r.tx = FALSE
      /\ r.n = unit[u].n /\ r.pending = <<>>
      /\ r.wanted = unit[u].wanted /\ r.outcome = unit[u].outcome
  BY <1>1 DEF OdeUnit
<1> HIDE DEF r
<1>3. r \in OdeUnit
  <2>1. r.pending \in Seq(WrittenBy)
    BY <1>2, EmptyToSet
  <2> QED
    BY <1>1, <1>2, <2>1, UnitParts, UnitAgain
<1>4. UnitSound(u, r, content)
  BY <1>1, <1>2 DEF UnitSound
<1>5. \A f \in OdePaths : Touches(unit[u], f) => Touches(r, f)
  BY <1>2 DEF Touches
<1> QED
  BY <1>1, <1>3, <1>4, <1>5, QuietStep

LEMMA AskCommitKeeps == ASSUME OdeInv, NEW u \in Units, AskCommit(u) PROVE OdeInv'
<1> DEFINE r == [unit[u] EXCEPT !.wanted = TRUE]
<1>1. unit[u] \in OdeUnit /\ UnitSound(u, unit[u], content) /\ unit[u].at = "open" /\ active' \in [Contexts -> BOOLEAN]
      /\ unit' = [unit EXCEPT ![u] = r] /\ UNCHANGED <<creation, drafts, target, look, content>> /\ unit[u].write
  BY OfUnits DEF AskCommit, Runs, making
<1>2. /\ DOMAIN r = DOMAIN unit[u] /\ r = [x \in DOMAIN unit[u] |-> r[x]]
      /\ r.at = unit[u].at /\ r.file = unit[u].file
      /\ r.write = unit[u].write /\ r.tx = unit[u].tx
      /\ r.n = unit[u].n /\ r.pending = unit[u].pending
      /\ r.wanted = TRUE /\ r.outcome = unit[u].outcome
  BY <1>1 DEF OdeUnit
<1> HIDE DEF r
<1>3. r \in OdeUnit
  BY <1>1, <1>2, UnitParts, UnitAgain
<1>4. UnitSound(u, r, content)
  BY <1>1, <1>2 DEF UnitSound
<1>5. \A f \in OdePaths : Touches(unit[u], f) => Touches(r, f)
  BY <1>2 DEF Touches
<1> QED
  BY <1>1, <1>3, <1>4, <1>5, QuietStep

LEMMA QueryKeeps == ASSUME OdeInv, NEW u \in Units, Query(u) PROVE OdeInv'
<1> DEFINE r == [unit[u] EXCEPT !.n = unit[u].n + 1]
<1>1. unit[u] \in OdeUnit /\ UnitSound(u, unit[u], content) /\ unit[u].at = "open" /\ active' \in [Contexts -> BOOLEAN]
      /\ unit' = [unit EXCEPT ![u] = r] /\ UNCHANGED <<creation, drafts, target, look, content>>
      /\ ~unit[u].write /\ unit[u].n < MaxWrites
  BY OfUnits DEF Query, Runs, making
<1>2. /\ DOMAIN r = DOMAIN unit[u] /\ r = [x \in DOMAIN unit[u] |-> r[x]]
      /\ r.at = unit[u].at /\ r.file = unit[u].file
      /\ r.write = unit[u].write /\ r.tx = unit[u].tx
      /\ r.n = unit[u].n + 1 /\ r.pending = unit[u].pending
      /\ r.wanted = unit[u].wanted /\ r.outcome = unit[u].outcome
  BY <1>1 DEF OdeUnit
<1> HIDE DEF r
<1>3. r \in OdeUnit
  <2>1. unit[u].n + 1 \in 0 .. MaxWrites
    BY <1>1, UnitParts, OdeAssumption
  <2> QED
    BY <1>1, <1>2, <2>1, UnitParts, UnitAgain
<1>4. UnitSound(u, r, content)
  BY <1>1, <1>2 DEF UnitSound
<1>5. \A f \in OdePaths : Touches(unit[u], f) => Touches(r, f)
  BY <1>1, <1>2, UnitParts DEF Touches
<1> QED
  BY <1>1, <1>3, <1>4, <1>5, QuietStep

\* A statement inside the transaction waits; one outside is committed by itself.
LEMMA ExecuteKeeps == ASSUME OdeInv, NEW u \in Units, Execute(u) PROVE OdeInv'
<1> DEFINE f == unit[u].file
           x == Statement(u)
<1>1. unit[u] \in OdeUnit /\ UnitSound(u, unit[u], content) /\ unit[u].at = "open" /\ active' \in [Contexts -> BOOLEAN]
      /\ UNCHANGED <<creation, drafts, target, look>> /\ f \in OdePaths /\ content[f] \in OdeFile
      /\ unit[u].write /\ unit[u].n < MaxWrites /\ content[f].logged /\ unit[u].n \in Nat
  BY OfUnits, UnitParts DEF Execute, Runs, making, UnitSound
<1>2. unit[u].n + 1 \in 0 .. MaxWrites /\ unit[u].n + 1 \in 1 .. MaxWrites
  BY <1>1, OdeAssumption
<1>3. x \in WrittenBy /\ x.by = u /\ x.n = unit[u].n + 1 /\ x = [by |-> u, n |-> unit[u].n + 1]
  BY <1>2 DEF WrittenBy, Statement
<1>4. CASE unit[u].tx
  <2> DEFINE r == [unit[u] EXCEPT !.n = unit[u].n + 1, !.pending = Append(unit[u].pending, x)]
  <2>1. unit' = [unit EXCEPT ![u] = r] /\ content' = content
    BY <1>4 DEF Execute
  <2>2. /\ DOMAIN r = DOMAIN unit[u] /\ r = [k \in DOMAIN unit[u] |-> r[k]]
        /\ r.at = unit[u].at /\ r.file = unit[u].file
        /\ r.write = unit[u].write /\ r.tx = unit[u].tx
        /\ r.n = unit[u].n + 1 /\ r.pending = Append(unit[u].pending, x)
        /\ r.wanted = unit[u].wanted /\ r.outcome = unit[u].outcome
    BY <1>1 DEF OdeUnit
  <2> HIDE DEF r
  <2>3. /\ Append(unit[u].pending, x) \in Seq(WrittenBy)
        /\ ToSet(Append(unit[u].pending, x)) = ToSet(unit[u].pending) \cup {x}
    BY <1>1, <1>3, Appended, UnitParts
  <2>4. r \in OdeUnit
    BY <1>1, <1>2, <2>2, <2>3, UnitParts, UnitAgain
  <2>5. ToSet(r.pending) = [by : {u}, n : 1 .. r.n]
    <3>1. ToSet(unit[u].pending) = [by : {u}, n : 1 .. unit[u].n]
      BY <1>1, <1>4 DEF UnitSound
    <3>2. 1 .. (unit[u].n + 1) = (1 .. unit[u].n) \cup {unit[u].n + 1}
      BY <1>1
    <3>3. [by : {u}, n : 1 .. (unit[u].n + 1)] = [by : {u}, n : 1 .. unit[u].n] \cup {x}
      <4>1. x \in [by : {u}, n : 1 .. (unit[u].n + 1)]
        BY <1>3, <3>2
      <4>2. ASSUME NEW y \in [by : {u}, n : 1 .. (unit[u].n + 1)]
            PROVE  y \in [by : {u}, n : 1 .. unit[u].n] \/ y = x
        <5>1. y = [by |-> u, n |-> y.n] /\ (y.n \in 1 .. unit[u].n \/ y.n = unit[u].n + 1)
          BY <3>2
        <5> QED
          BY <1>3, <5>1
      <4> HIDE DEF x
      <4>3. \A y \in [by : {u}, n : 1 .. unit[u].n] : y \in [by : {u}, n : 1 .. (unit[u].n + 1)]
        BY <3>2
      <4> QED
        BY <4>1, <4>2, <4>3
    <3> QED
      BY <2>2, <2>3, <3>1, <3>3
  <2>6. UnitSound(u, r, content)
    BY <1>1, <1>4, <2>2, <2>5 DEF UnitSound
  <2>7. \A g \in OdePaths : Touches(unit[u], g) => Touches(r, g)
    BY <1>1, <2>2 DEF Touches
  <2> QED
    BY <1>1, <2>1, <2>4, <2>6, <2>7, QuietStep
<1>5. CASE ~unit[u].tx
  <2> DEFINE r == [unit[u] EXCEPT !.n = unit[u].n + 1]
             c == [content[f] EXCEPT !.wal = Append(content[f].wal, x)]
  <2>1. unit' = [unit EXCEPT ![u] = r] /\ content' = [content EXCEPT ![f] = c]
    BY <1>5 DEF Execute
  <2>2. /\ DOMAIN r = DOMAIN unit[u] /\ r = [k \in DOMAIN unit[u] |-> r[k]]
        /\ r.at = unit[u].at /\ r.file = unit[u].file
        /\ r.write = unit[u].write /\ r.tx = unit[u].tx
        /\ r.n = unit[u].n + 1 /\ r.pending = unit[u].pending
        /\ r.wanted = unit[u].wanted /\ r.outcome = unit[u].outcome
    BY <1>1 DEF OdeUnit
  <2>3. /\ DOMAIN c = DOMAIN content[f] /\ c = [y \in DOMAIN content[f] |-> c[y]]
        /\ c.run = content[f].run /\ c.registered = content[f].registered /\ c.main = content[f].main
        /\ c.wal = Append(content[f].wal, x) /\ c.logged = content[f].logged /\ c.stale = content[f].stale
    BY <1>1 DEF OdeFile
  <2> HIDE DEF r, c
  <2>4. r \in OdeUnit
    BY <1>1, <1>2, <2>2, UnitParts, UnitAgain
  <2>5. c.wal \in Seq(WrittenBy) /\ ToSet(c.wal) = ToSet(content[f].wal) \cup {x}
    <3>1. content[f].wal \in Seq(WrittenBy)
      BY <1>1, FileParts
    <3> HIDE DEF x, f
    <3>2. /\ Append(content[f].wal, x) \in Seq(WrittenBy)
          /\ ToSet(Append(content[f].wal, x)) = ToSet(content[f].wal) \cup {x}
      BY <1>3, <3>1, Appended
    <3> QED
      BY <2>3, <3>2
  <2>6. c \in OdeFile
    BY <1>1, <2>3, <2>5, FileParts, FileAgain
  <2> HIDE DEF x, f
  <2>7. /\ content' \in [OdePaths -> OdeFile] /\ content'[f] = c
        /\ \A g \in OdePaths : g # f => content'[g] = content[g]
    BY <1>1, <2>1, <2>6, FilePut, OfUnits
  <2>8. \A g \in OdePaths :
           /\ content'[g].run = content[g].run /\ content'[g].registered = content[g].registered
           /\ content[g].logged => content'[g].logged
           /\ ToSet(content[g].main) \subseteq ToSet(content'[g].main)
           /\ \A w : w.by # u => (w \in Writes(content'[g]) <=> w \in Writes(content[g]))
    <3>1. \A w : w.by # u => (w \in Writes(c) <=> w \in Writes(content[f]))
      BY <1>3, <2>3, <2>5 DEF Writes
    <3> QED
      BY <2>3, <2>7, <3>1
  <2>9. UnitSound(u, r, content')
    BY <1>1, <1>5, <2>2, <2>3, <2>7 DEF UnitSound, f
  <2>10. LogIsSeen'
    <3>1. unit'[u] = r /\ \A v \in Units \ {u} : unit'[v] = unit[v]
      BY <2>1, OfUnits DEF OdeInv, OdeShape
    <3>2. \A g \in OdePaths, v \in Units : Touches(unit[v], g) => Touches(unit'[v], g)
      BY <1>1, <2>2, <3>1 DEF Touches
    <3>3. Touches(unit'[u], f) /\ content'[f].logged
      BY <1>1, <2>2, <2>3, <2>7, <3>1 DEF Touches, f
    <3>4. \A g \in OdePaths : g # f => content'[g] = content[g]
      BY <2>7
    <3> QED
      BY <3>2, <3>3, <3>4 DEF OdeInv, LogIsSeen
  <2> QED
    BY <1>1, <2>1, <2>4, <2>7, <2>8, <2>9, <2>10, UnitSteps
<1> QED
  BY <1>4, <1>5

LEMMA BeginTxKeeps == ASSUME OdeInv, NEW u \in Units, BeginTx(u) PROVE OdeInv'
<1> DEFINE f == unit[u].file
           r == [unit[u] EXCEPT !.at = "open", !.tx = TRUE]
           c == [content[f] EXCEPT !.logged = content[f].logged \/ unit[u].write]
<1>1. unit[u] \in OdeUnit /\ UnitSound(u, unit[u], content) /\ unit[u].at = "waiting"
      /\ UNCHANGED <<creation, drafts, target, look>> /\ f \in OdePaths /\ content[f] \in OdeFile
      /\ unit' = [unit EXCEPT ![u] = r] /\ content' = [content EXCEPT ![f] = c] /\ unit[u].write \in BOOLEAN
  BY OfUnits, UnitParts DEF BeginTx, making, UnitSound
<1>2. /\ DOMAIN r = DOMAIN unit[u] /\ r = [x \in DOMAIN unit[u] |-> r[x]]
      /\ r.at = "open" /\ r.file = unit[u].file
      /\ r.write = unit[u].write /\ r.tx = TRUE
      /\ r.n = unit[u].n /\ r.pending = unit[u].pending
      /\ r.wanted = unit[u].wanted /\ r.outcome = unit[u].outcome
  BY <1>1 DEF OdeUnit
<1>3. /\ DOMAIN c = DOMAIN content[f] /\ c = [y \in DOMAIN content[f] |-> c[y]]
      /\ c.run = content[f].run /\ c.registered = content[f].registered /\ c.main = content[f].main
      /\ c.wal = content[f].wal /\ c.stale = content[f].stale
      /\ c.logged \in BOOLEAN /\ (c.logged <=> content[f].logged \/ unit[u].write)
  BY <1>1 DEF OdeFile
<1> HIDE DEF r, c
<1>4. r \in OdeUnit
  BY <1>1, <1>2, UnitParts, UnitAgain
<1>5. c \in OdeFile
  BY <1>1, <1>3, FileParts, FileAgain
<1>6. active' \in [Contexts -> BOOLEAN]
  BY OfUnits DEF BeginTx
<1> HIDE DEF f
<1>7. /\ content' \in [OdePaths -> OdeFile] /\ content'[f] = c
      /\ \A g \in OdePaths : g # f => content'[g] = content[g]
  BY <1>1, <1>5, FilePut, OfUnits
<1>8. \A g \in OdePaths :
        /\ content'[g].run = content[g].run /\ content'[g].registered = content[g].registered
        /\ content'[g].wal = content[g].wal /\ content'[g].main = content[g].main
        /\ content[g].logged => content'[g].logged
        /\ content[g].stale => content'[g].stale
  BY <1>3, <1>7
<1>9. \A g \in OdePaths : Writes(content'[g]) = Writes(content[g])
  BY <1>8 DEF Writes
<1>10. UnitSound(u, r, content')
  <2>1. NoneBy(u, content')
    BY <1>1, <1>9 DEF UnitSound, NoneBy
  <2>2. unit[u].write => content'[f].logged
    BY <1>3, <1>7
  <2>3. ToSet(r.pending) = {} /\ r.n = 0 /\ r.pending = <<>>
    BY <1>1, <1>2, EmptyToSet DEF UnitSound
  <2>4. [by : {u}, n : 1 .. 0] = {}
    OBVIOUS
  <2> QED
    BY <1>1, <1>2, <2>1, <2>2, <2>3, <2>4 DEF UnitSound, f
<1>11. \A g \in OdePaths : Touches(unit[u], g) => Touches(r, g)
  BY <1>2 DEF Touches
<1>12. LogIsSeen'
  BY <1>1, <1>8, <1>11, LogStays
<1> QED
  BY <1>1, <1>4, <1>6, <1>7, <1>8, <1>9, <1>10, <1>12, UnitSteps

\* Closing u's connection to f makes d of the files c: writes move within the file,
\* and a log that is not empty afterwards keeps its sidecars.
LetsGo(u, f, c, d) ==
  /\ d \in [OdePaths -> OdeFile]
  /\ \A g \in OdePaths : g # f => d[g] = c[g]
  /\ d[f].run = c[f].run /\ d[f].registered = c[f].registered /\ d[f].logged = c[f].logged
  /\ Writes(d[f]) = Writes(c[f]) /\ ToSet(c[f].main) \subseteq ToSet(d[f].main)
  /\ Attached(f) # {u} => d[f] = c[f]
  /\ Attached(f) = {u} /\ d[f].wal # <<>> => d[f].wal = c[f].wal /\ (c[f].logged => d[f].stale)

LEMMA ClosedFacts ==
  ASSUME NEW c \in [OdePaths -> OdeFile], NEW u \in Units, unit[u] \in OdeUnit, unit[u].file \in OdePaths,
         NEW closes \in BOOLEAN
  PROVE  LetsGo(u, unit[u].file, c, Closed(c, u, closes))
<1> DEFINE f == unit[u].file
           d == Closed(c, u, closes)
<1>1. c[f] \in OdeFile /\ f \in OdePaths
  OBVIOUS
<1>2. CASE Attached(f) # {u}
  BY <1>2 DEF Closed, LetsGo
<1>3. CASE Attached(f) = {u} /\ unit[u].write /\ closes
  <2> DEFINE e == [c[f] EXCEPT !.main = c[f].main \o c[f].wal, !.wal = <<>>, !.stale = FALSE]
  <2>1. d = [c EXCEPT ![f] = e]
    BY <1>3 DEF Closed
  <2>2. /\ DOMAIN e = DOMAIN c[f] /\ e = [y \in DOMAIN c[f] |-> e[y]]
        /\ e.run = c[f].run /\ e.registered = c[f].registered /\ e.main = c[f].main \o c[f].wal
        /\ e.wal = <<>> /\ e.logged = c[f].logged /\ e.stale = FALSE
    BY <1>1 DEF OdeFile
  <2> HIDE DEF e
  <2>3. c[f].main \in Seq(WrittenBy) /\ c[f].wal \in Seq(WrittenBy)
    BY <1>1, FileParts
  <2>4. e.main \in Seq(WrittenBy) /\ ToSet(e.main) = ToSet(c[f].main) \cup ToSet(c[f].wal)
    <3>1. /\ c[f].main \o c[f].wal \in Seq(WrittenBy)
          /\ ToSet(c[f].main \o c[f].wal) = ToSet(c[f].main) \cup ToSet(c[f].wal)
      BY <2>3, Joined
    <3> QED
      BY <2>2, <3>1
  <2>5. e.wal \in Seq(WrittenBy) /\ ToSet(e.wal) = {}
    BY <2>2, EmptyToSet
  <2>6. e \in OdeFile
    BY <1>1, <2>2, <2>4, <2>5, FileParts, FileAgain
  <2>7. d \in [OdePaths -> OdeFile] /\ d[f] = e /\ \A g \in OdePaths : g # f => d[g] = c[g]
    BY <1>1, <2>1, <2>6
  <2> QED
    BY <1>3, <2>2, <2>4, <2>5, <2>7 DEF Writes, LetsGo
<1>4. CASE Attached(f) = {u} /\ ~(unit[u].write /\ closes)
  <2> DEFINE e == [c[f] EXCEPT !.stale = c[f].stale \/ c[f].logged]
  <2>1. d = [c EXCEPT ![f] = e]
    BY <1>4 DEF Closed
  <2>2. /\ DOMAIN e = DOMAIN c[f] /\ e = [y \in DOMAIN c[f] |-> e[y]]
        /\ e.run = c[f].run /\ e.registered = c[f].registered /\ e.main = c[f].main
        /\ e.wal = c[f].wal /\ e.logged = c[f].logged
        /\ e.stale \in BOOLEAN /\ (c[f].logged => e.stale)
    BY <1>1 DEF OdeFile
  <2> HIDE DEF e
  <2>3. e \in OdeFile
    BY <1>1, <2>2, FileParts, FileAgain
  <2>4. d \in [OdePaths -> OdeFile] /\ d[f] = e /\ \A g \in OdePaths : g # f => d[g] = c[g]
    BY <1>1, <2>1, <2>3
  <2> QED
    BY <1>4, <2>2, <2>4 DEF Writes, LetsGo
<1> QED
  BY <1>2, <1>3, <1>4

\* A unit closes its connection, having appended to the log of its file or not.
LEMMA LogAfterClose ==
  ASSUME OdeInv, NEW u \in Units, unit[u].at \in {"waiting", "open"},
         unit[u].file \in OdePaths, NEW after \in [OdePaths -> OdeFile],
         \A g \in OdePaths : g # unit[u].file => after[g] = content[g],
         after[unit[u].file].logged = content[unit[u].file].logged,
         after[unit[u].file].stale = content[unit[u].file].stale,
         after[unit[u].file].wal # content[unit[u].file].wal => unit[u].write /\ content[unit[u].file].logged,
         NEW closes \in BOOLEAN, content' = Closed(after, u, closes), NEW r, unit' = [unit EXCEPT ![u] = r]
  PROVE  LogIsSeen'
<1> DEFINE f == unit[u].file
<1>1. unit[u] \in OdeUnit /\ \A v \in Units \ {u} : unit'[v] = unit[v]
  BY OfUnits DEF OdeInv, OdeShape
<1>2. \A v \in Units : v \in Attached(f) <=> Touches(unit[v], f)
  BY DEF Attached, Touches
<1>3. LetsGo(u, f, after, content')
  BY <1>1, ClosedFacts
<1>4. ASSUME NEW g \in OdePaths, g # f, content'[g].wal # <<>>
      PROVE  content'[g].logged /\ (content'[g].stale \/ \E v \in Units : Touches(unit'[v], g))
  <2>1. content'[g] = content[g] /\ ~Touches(unit[u], g)
    BY <1>3, <1>4 DEF Touches, LetsGo
  <2> QED
    BY <1>1, <1>4, <2>1 DEF OdeInv, LogIsSeen
<1>5. ASSUME content'[f].wal # <<>>
      PROVE  content'[f].logged /\ (content'[f].stale \/ \E v \in Units : Touches(unit'[v], f))
  <2>1. CASE \E v \in Attached(f) : v # u
    <3>1. PICK v \in Attached(f) : v # u
      BY <2>1
    <3>2. v \in Units /\ Touches(unit'[v], f)
      BY <1>1, <1>2, <3>1 DEF Attached
    <3>3. content'[f] = after[f]
      BY <1>3, <3>1 DEF LetsGo
    <3>4. content[f].logged
      BY <1>5, <3>3 DEF OdeInv, LogIsSeen
    <3> QED
      BY <1>3, <3>2, <3>3, <3>4 DEF LetsGo
  <2>2. CASE Attached(f) = {u}
    <3>1. content'[f].wal = after[f].wal /\ (after[f].logged => content'[f].stale)
      BY <1>3, <1>5, <2>2 DEF LetsGo
    <3>2. content[f].logged
      BY <1>5, <3>1 DEF OdeInv, LogIsSeen
    <3> QED
      BY <1>3, <3>1, <3>2 DEF LetsGo
  <2>3. CASE Attached(f) = {}
    <3>1. content'[f] = after[f] /\ ~unit[u].write
      BY <1>2, <1>3, <2>3 DEF Touches, LetsGo
    <3>2. content[f].wal # <<>>
      BY <1>5, <3>1
    <3>3. content[f].logged /\ content[f].stale
      BY <1>2, <2>3, <3>2 DEF OdeInv, LogIsSeen
    <3> QED
      BY <1>3, <3>1, <3>3 DEF LetsGo
  <2> QED
    BY <2>1, <2>2, <2>3
<1> QED
  BY <1>4, <1>5 DEF LogIsSeen

LEMMA BeginFailsKeeps ==
  ASSUME OdeInv, NEW u \in Units, NEW closes \in BOOLEAN, BeginFails(u, closes) PROVE OdeInv'
<1> DEFINE f == unit[u].file
           r == [unit[u] EXCEPT !.at = "over", !.outcome = "error"]
<1>1. unit[u] \in OdeUnit /\ UnitSound(u, unit[u], content) /\ unit[u].at = "waiting" /\ active' \in [Contexts -> BOOLEAN]
      /\ UNCHANGED <<creation, drafts, target, look>> /\ f \in OdePaths /\ content \in [OdePaths -> OdeFile]
      /\ unit' = [unit EXCEPT ![u] = r] /\ content' = Closed(content, u, closes)
  BY OfUnits DEF BeginFails, making, UnitSound
<1>2. /\ DOMAIN r = DOMAIN unit[u] /\ r = [x \in DOMAIN unit[u] |-> r[x]]
      /\ r.at = "over" /\ r.file = unit[u].file
      /\ r.write = unit[u].write /\ r.tx = unit[u].tx
      /\ r.n = unit[u].n /\ r.pending = unit[u].pending
      /\ r.wanted = unit[u].wanted /\ r.outcome = "error"
  BY <1>1 DEF OdeUnit
<1> HIDE DEF r
<1>3. r \in OdeUnit
  BY <1>1, <1>2, UnitParts, UnitAgain DEF Outcomes
<1>4. LetsGo(u, f, content, content')
  BY <1>1, ClosedFacts
<1>5. UnitSound(u, r, content')
  BY <1>1, <1>2 DEF UnitSound
<1>6. LogIsSeen'
  BY <1>1, LogAfterClose
<1> QED
  BY <1>1, <1>3, <1>4, <1>5, <1>6, UnitSteps DEF LetsGo

LEMMA ExitKeeps ==
  ASSUME OdeInv, NEW u \in Units, NEW raised \in BOOLEAN, NEW did \in BOOLEAN,
         NEW closes \in BOOLEAN, NEW interrupted \in BOOLEAN, Exit(u, raised, did, closes, interrupted)
  PROVE  OdeInv'
<1> DEFINE f == unit[u].file
           r == [unit[u] EXCEPT !.at = "over", !.outcome = Outcome(raised, did, closes, interrupted)]
           whole == Commits(u, raised) /\ did
           c == [content[f] EXCEPT !.wal = content[f].wal \o unit[u].pending]
           after == IF whole THEN [content EXCEPT ![f] = c] ELSE content
<1>1. unit[u] \in OdeUnit /\ UnitSound(u, unit[u], content) /\ unit[u].at = "open"
      /\ UNCHANGED <<creation, drafts, target, look>> /\ f \in OdePaths /\ content \in [OdePaths -> OdeFile]
      /\ content[f] \in OdeFile /\ unit' = [unit EXCEPT ![u] = r]
      /\ \E moves \in BOOLEAN : content' = Closed(after, u, moves)
  BY OfUnits DEF Exit, Runs, making, UnitSound
<1> PICK moves \in BOOLEAN : content' = Closed(after, u, moves)
  BY <1>1
<1>2. active' \in [Contexts -> BOOLEAN]
  BY OfUnits DEF Exit
<1>3. /\ DOMAIN r = DOMAIN unit[u] /\ r = [x \in DOMAIN unit[u] |-> r[x]]
      /\ r.at = "over" /\ r.file = f /\ r.write = unit[u].write /\ r.tx = unit[u].tx
      /\ r.n = unit[u].n /\ r.pending = unit[u].pending /\ r.wanted = unit[u].wanted
      /\ r.outcome = Outcome(raised, did, closes, interrupted)
  BY <1>1 DEF OdeUnit
<1>4. /\ whole <=> ~raised /\ did /\ unit[u].wanted
      /\ r.outcome \in Outcomes
      /\ r.outcome \in {"returned", "close"} => ~raised /\ did
      /\ r.outcome \in {"none", "error"} => raised \/ ~did
  BY <1>3 DEF Commits, Outcome, Outcomes
<1> HIDE DEF r, whole
<1>5. r \in OdeUnit
  BY <1>1, <1>3, <1>4, UnitParts, UnitAgain
<1>6. /\ DOMAIN c = DOMAIN content[f] /\ c = [y \in DOMAIN content[f] |-> c[y]]
      /\ c.run = content[f].run /\ c.registered = content[f].registered /\ c.main = content[f].main
      /\ c.wal = content[f].wal \o unit[u].pending /\ c.logged = content[f].logged /\ c.stale = content[f].stale
  BY <1>1 DEF OdeFile
<1> HIDE DEF c
<1>7. c.wal \in Seq(WrittenBy) /\ ToSet(c.wal) = ToSet(content[f].wal) \cup ToSet(unit[u].pending)
  <2>1. content[f].wal \in Seq(WrittenBy) /\ unit[u].pending \in Seq(WrittenBy)
    BY <1>1, FileParts, UnitParts
  <2>2. /\ content[f].wal \o unit[u].pending \in Seq(WrittenBy)
        /\ ToSet(content[f].wal \o unit[u].pending) = ToSet(content[f].wal) \cup ToSet(unit[u].pending)
    BY <2>1, Joined
  <2> QED
    BY <1>6, <2>2
<1>8. c \in OdeFile
  BY <1>1, <1>6, <1>7, FileParts, FileAgain
<1>9. /\ after \in [OdePaths -> OdeFile] /\ after[f] = IF whole THEN c ELSE content[f]
      /\ \A g \in OdePaths : g # f => after[g] = content[g]
  BY <1>1, <1>8
<1> HIDE DEF after, f
\* Only a transaction of a write unit has statements that wait, and they are its own.
<1>10. /\ ToSet(unit[u].pending) # {} => unit[u].tx /\ unit[u].write
       /\ unit[u].tx /\ unit[u].write => /\ ToSet(unit[u].pending) = [by : {u}, n : 1 .. unit[u].n]
                                         /\ NoneBy(u, content) /\ content[f].logged
       /\ unit[u].wanted => unit[u].write /\ content[f].logged
  BY <1>1, EmptyToSet DEF UnitSound, f
<1>11. /\ after[f].run = content[f].run /\ after[f].registered = content[f].registered
       /\ after[f].logged = content[f].logged /\ after[f].stale = content[f].stale /\ after[f].main = content[f].main
       /\ Writes(after[f]) = Writes(content[f]) \cup (IF whole THEN ToSet(unit[u].pending) ELSE {})
       /\ after[f].wal # content[f].wal => unit[u].write /\ content[f].logged
  BY <1>4, <1>6, <1>7, <1>9, <1>10 DEF Writes
<1>12. LetsGo(u, f, after, content')
  BY <1>1, <1>9, ClosedFacts DEF f
<1>13. LogIsSeen'
  BY <1>1, <1>9, <1>11, LogAfterClose DEF f
<1>14. \A g \in OdePaths :
         /\ content'[g].run = content[g].run /\ content'[g].registered = content[g].registered
         /\ content[g].logged => content'[g].logged
         /\ ToSet(content[g].main) \subseteq ToSet(content'[g].main)
         /\ \A w : w.by # u => (w \in Writes(content'[g]) <=> w \in Writes(content[g]))
  <2>1. \A w \in ToSet(unit[u].pending) : w.by = u
    <3>1. CASE unit[u].tx /\ unit[u].write
      <4>1. ToSet(unit[u].pending) = [by : {u}, n : 1 .. unit[u].n]
        BY <1>10, <3>1
      <4> QED
        BY <4>1
    <3>2. CASE ~(unit[u].tx /\ unit[u].write)
      BY <1>10, <3>2
    <3> QED
      BY <3>1, <3>2
  <2>2. \A w : w.by # u => (w \in Writes(content'[f]) <=> w \in Writes(content[f]))
    BY <1>11, <1>12, <2>1 DEF LetsGo
  <2> QED
    BY <1>9, <1>11, <1>12, <2>2 DEF LetsGo
<1>15. UnitSound(u, r, content')
  <2>1. ASSUME unit[u].tx, unit[u].write
        PROVE  {w \in Writes(content'[f]) : w.by = u} \in
                 Told(unit[u].wanted, r.outcome, [by : {u}, n : 1 .. unit[u].n])
    <3>1. \A w \in Writes(content[f]) : w.by # u
      BY <1>1, <1>10, <2>1 DEF NoneBy, f
    <3>2. \A w \in [by : {u}, n : 1 .. unit[u].n] : w.by = u
      OBVIOUS
    <3>3. Writes(content'[f]) = Writes(content[f]) \cup
            (IF whole THEN [by : {u}, n : 1 .. unit[u].n] ELSE {})
      BY <1>10, <1>11, <1>12, <2>1 DEF LetsGo
    <3>4. {w \in Writes(content'[f]) : w.by = u} =
            IF whole THEN [by : {u}, n : 1 .. unit[u].n] ELSE {}
      BY <3>1, <3>2, <3>3
    <3> QED
      BY <1>4, <3>4 DEF Told, Outcomes
  <2> QED
    BY <1>1, <1>3, <2>1 DEF UnitSound
<1> QED
  BY <1>1, <1>2, <1>5, <1>12, <1>13, <1>14, <1>15, UnitSteps DEF LetsGo

\* The process dies: what the units had written stays, and the logs keep sidecars.
LEMMA DieKeeps == ASSUME OdeInv, Die PROVE OdeInv'
<1> DEFINE gone(u) == [unit[u] EXCEPT !.at = "over", !.outcome = "error"]
           left(f) == [content[f] EXCEPT !.stale = Sidecars(f)]
<1>1. /\ unit' = [u \in Units |-> IF unit[u].at \in {"waiting", "open"} THEN gone(u) ELSE unit[u]]
      /\ content' = [f \in OdePaths |-> left(f)] /\ active' \in [Contexts -> BOOLEAN]
      /\ UNCHANGED <<creation, drafts, target, look>>
  BY DEF Die, making, OdeInv, OdeShape
<1>2. ASSUME NEW u \in Units
      PROVE  /\ unit[u] \in OdeUnit /\ UnitSound(u, unit[u], content)
             /\ /\ DOMAIN gone(u) = DOMAIN unit[u] /\ gone(u) = [x \in DOMAIN unit[u] |-> gone(u)[x]]
             /\ gone(u).at = "over" /\ gone(u).file = unit[u].file
             /\ gone(u).write = unit[u].write /\ gone(u).tx = unit[u].tx
             /\ gone(u).n = unit[u].n /\ gone(u).pending = unit[u].pending
             /\ gone(u).wanted = unit[u].wanted /\ gone(u).outcome = "error"
  BY OfUnits DEF OdeUnit
<1>3. ASSUME NEW f \in OdePaths
      PROVE  /\ content[f] \in OdeFile /\ DOMAIN left(f) = DOMAIN content[f]
             /\ left(f) = [y \in DOMAIN content[f] |-> left(f)[y]]
             /\ left(f).run = content[f].run /\ left(f).registered = content[f].registered
             /\ left(f).main = content[f].main /\ left(f).wal = content[f].wal
             /\ left(f).logged = content[f].logged
             /\ left(f).stale \in BOOLEAN /\ (left(f).stale <=> Sidecars(f))
  <2>1. content[f] \in OdeFile /\ Sidecars(f) \in BOOLEAN
    BY FileParts DEF OdeInv, OdeShape, Sidecars
  <2> QED
    BY <2>1 DEF OdeFile
<1> HIDE DEF gone, left
<1>4. \A u \in Units : gone(u) \in OdeUnit
  BY <1>2, UnitParts, UnitAgain DEF Outcomes
<1>5. \A f \in OdePaths : left(f) \in OdeFile
  BY <1>3, FileParts, FileAgain
<1>6. \A f \in OdePaths : content'[f] = left(f)
  BY <1>1
<1>7. OdeShape'
  <2>1. content' \in [OdePaths -> OdeFile] /\ unit' \in [Units -> OdeUnit]
    BY <1>1, <1>2, <1>4, <1>5
  <2> QED
    BY <1>1, <2>1 DEF OdeInv, OdeShape
<1>8. \A p \in Creations : Stands(p)'
  BY <1>1, <1>3, <1>6 DEF OdeInv, Stands, MigratedFully, OdePaths
<1>9. \A f \in OdePaths : Writes(content'[f]) = Writes(content[f])
  BY <1>3, <1>6 DEF Writes
<1>10. ASSUME NEW u \in Units PROVE UnitSound(u, unit'[u], content')
  <2>1. UnitSound(u, unit[u], content)
    BY <1>2
  <2>2. NoneBy(u, content') <=> NoneBy(u, content)
    BY <1>9 DEF NoneBy
  <2>3. CASE unit[u].at \in {"waiting", "open"}
    <3>1. unit'[u] = gone(u)
      BY <1>1, <2>3
    <3>2. unit[u].file \in OdePaths
      BY <2>1, <2>3 DEF UnitSound
    <3>3. unit[u].tx => NoneBy(u, content')
      BY <2>1, <2>2, <2>3 DEF UnitSound
    <3>4. unit[u].tx => {w \in Writes(content'[unit[u].file]) : w.by = u} = {}
      BY <3>2, <3>3 DEF NoneBy
    <3>5. /\ gone(u).at = "over" /\ gone(u).file = unit[u].file /\ gone(u).write = unit[u].write
          /\ gone(u).tx = unit[u].tx /\ gone(u).pending = unit[u].pending
          /\ gone(u).wanted = unit[u].wanted /\ gone(u).outcome = "error"
      BY <1>2
    <3>6. UnitSound(u, gone(u), content')
      BY <2>1, <3>2, <3>4, <3>5 DEF UnitSound, Told
    <3> QED
      BY <3>1, <3>6
  <2>4. CASE unit[u].at \notin {"waiting", "open"}
    <3>1. unit'[u] = unit[u]
      BY <1>1, <2>4
    <3> QED
      BY <1>9, <2>1, <2>2, <2>4, <3>1 DEF UnitSound
  <2> QED
    BY <2>3, <2>4
<1>11. LogIsSeen'
  <2>1. ASSUME NEW f \in OdePaths, content'[f].wal # <<>> PROVE content'[f].logged /\ content'[f].stale
    <3>1. content[f].wal # <<>>
      BY <1>3, <1>6, <2>1
    <3>2. content[f].logged /\ (content[f].stale \/ \E v \in Units : Touches(unit[v], f))
      BY <3>1 DEF OdeInv, LogIsSeen
    <3>3. Sidecars(f)
      BY <3>2 DEF Sidecars, Attached, Touches
    <3> QED
      BY <1>3, <1>6, <3>2, <3>3
  <2> QED
    BY <2>1 DEF LogIsSeen
<1>12. LookOK'
  BY <1>1, <1>3, <1>6 DEF OdeInv, LookOK
<1> QED
  BY <1>7, <1>8, <1>10, <1>11, <1>12 DEF OdeInv, UnitsSound

-----------------------------------------------------------------------------
(* Read-only commands. *)

\* With no sidecars beside it a file has nothing in its log.
LEMMA LookKeeps == ASSUME OdeInv, Looking PROVE OdeInv'
<1>1. UNCHANGED <<creation, drafts, target, content, unit, active>>
  BY DEF Looking, Look, Read, Report, Forget, making
<1>2. /\ OdeShape' /\ (\A p \in Creations : Stands(p))' /\ UnitsSound' /\ LogIsSeen'
  BY <1>1 DEF OdeInv, OdeShape, Stands, MigratedFully, UnitsSound, LogIsSeen
<1>3. CASE Look
  <2>1. target \in OdePaths /\ look' = [at |-> "looking", file |-> target, before |-> Committed(target)]
    BY <1>3 DEF Look, OdeInv, OdeShape
  <2>2. content[target].wal = <<>>
    <3>1. content[target].wal # <<>> => Sidecars(target)
      BY <2>1 DEF OdeInv, LogIsSeen, Sidecars, Attached, Touches
    <3> QED
      BY <1>3, <3>1 DEF Look
  <2>3. ToSet(Committed(target)) = ToSet(content[target].main)
    <3>1. content[target].main \in Seq(WrittenBy) /\ content[target].wal \in Seq(WrittenBy)
      BY <2>1, FileParts DEF OdeInv, OdeShape
    <3>2. ToSet(content[target].main \o content[target].wal) =
            ToSet(content[target].main) \cup ToSet(content[target].wal)
      BY <3>1, Joined
    <3> QED
      BY <2>2, <3>2, EmptyToSet DEF Committed
  <2>4. LookOK'
    BY <1>1, <2>1, <2>3 DEF LookOK
  <2> QED
    BY <1>2, <2>4 DEF OdeInv
<1>4. CASE Read
  <2>1. /\ look.at = "looking"
        /\ \/ look' = [at |-> "idle"]
           \/ look' = [at |-> "read", file |-> target, seen |-> content[target].main,
                       before |-> IF target = look.file THEN look.before ELSE <<>>]
    BY <1>4 DEF Read
  <2>2. ToSet(look.before) \subseteq ToSet(content[look.file].main) /\ ToSet(<<>>) = {}
    BY <2>1, EmptyToSet DEF OdeInv, LookOK
  <2>3. LookOK'
    BY <2>1, <2>2 DEF LookOK
  <2> QED
    BY <1>2, <2>3 DEF OdeInv
<1>5. CASE Report
  <2>1. look.at = "read" /\ (look' = [at |-> "idle"] \/ look' = [look EXCEPT !.at = "reported"])
    BY <1>5 DEF Report
  <2> QED
    BY <1>2, <2>1 DEF OdeInv, LookOK
<1>6. CASE Forget
  BY <1>2, <1>6 DEF OdeInv, LookOK, Forget
<1> QED
  BY <1>3, <1>4, <1>5, <1>6 DEF Looking

-----------------------------------------------------------------------------
(* The invariant, and what it is for. *)

LEMMA InitialOde == InitOde => OdeInv
<1>1. SUFFICES ASSUME InitOde PROVE OdeInv
  OBVIOUS
<1>2. Blank \in OdeFile /\ Blank.main = <<>> /\ Blank.wal = <<>>
  BY EmptyToSet DEF Blank, OdeFile
<1>3. NotEntered \in OdeUnit
  BY EmptyToSet, OdeAssumption DEF NotEntered, OdeUnit, Outcomes
<1>4. OdeShape
  BY <1>1, <1>2, <1>3 DEF InitOde, OdeShape, OdePaths, InHand
<1>5. \A p \in Creations : Stands(p)
  BY <1>1, OdeAssumption DEF InitOde, Stands, Holding
<1>6. \A f \in OdePaths : content[f] = Blank /\ Writes(content[f]) = {}
  BY <1>1, <1>2, EmptyToSet DEF InitOde, OdePaths, Writes
<1>7. UnitsSound
  BY <1>1, <1>6 DEF InitOde, UnitsSound, UnitSound, NotEntered, NoneBy
<1>8. LogIsSeen /\ LookOK
  BY <1>1, <1>2, <1>6 DEF InitOde, LogIsSeen, LookOK
<1> QED
  BY <1>4, <1>5, <1>7, <1>8 DEF OdeInv

LEMMA OdeInvariance == OdeSpec => []OdeInv
<1>1. OdeInv /\ [NextOde]_odeVars => OdeInv'
  <2>1. SUFFICES ASSUME OdeInv, [NextOde]_odeVars PROVE OdeInv'
    OBVIOUS
  <2>2. CASE UNCHANGED odeVars
    BY <2>1, <2>2 DEF odeVars, OdeInv, OdeShape, Stands, MigratedFully, UnitsSound, LogIsSeen, LookOK
  <2>3. CASE Creating
    BY <2>1, <2>3, CreatingKeeps DEF Creating, CreationStep
  <2>4. CASE Working
    BY <2>1, <2>4, EnterKeeps, BeginTxKeeps, BeginFailsKeeps, ExecuteKeeps, QueryKeeps, StatementEndsKeeps,
       AskCommitKeeps, RollbackKeeps, ExitKeeps, DieKeeps DEF Working
  <2>5. CASE Looking
    BY <2>1, <2>5, LookKeeps
  <2> QED
    BY <2>1, <2>2, <2>3, <2>4, <2>5 DEF NextOde
<1> QED
  BY <1>1, InitialOde, PTL DEF OdeSpec

\* For any creations and units: the path never names a half-migrated file, also when
\* Ctrl-C or a failing unlink left one there; a creation that reported success keeps its
\* file; and one that failed leaves neither a candidate nor a target, unless its own
\* clean-up failed or Ctrl-C came where the target is not taken back, whoever else was
\* creating, working or killed (MigrationRunner.create).
THEOREM PublishedWhole == OdeSpec => []PublishedWholeOrNotAtAll
<1>1. OdeInv => PublishedWholeOrNotAtAll
  BY DEF OdeInv, Stands, Holding, PublishedWholeOrNotAtAll
<1> QED
  BY <1>1, OdeInvariance, PTL

\* For any units, contexts and statements: a unit of work that never left its
\* transaction has written all of its statements or none, all of them also if only the
\* close after its COMMIT failed, and a read-only command that answers has seen every
\* write committed before it began (SqliteUnitOfWork, require_immutable_snapshot_safe).
THEOREM CommitsWholeAndSeen == OdeSpec => []CommitsAreWholeAndSeen
<1>1. OdeInv => AllOrNothing
  <2>1. SUFFICES ASSUME OdeInv, NEW u \in Units, unit[u].tx, unit[u].write
                 PROVE  OfUnit(u) \in Told(unit[u].wanted, unit[u].outcome, [by : {u}, n : 1 .. unit[u].n])
    BY DEF AllOrNothing, WrittenAfter, All, Told
  <2> DEFINE f == unit[u].file
  <2>2. /\ UnitSound(u, unit[u], content) /\ f \in OdePaths /\ unit[u].at \in {"open", "over"}
        /\ content[f] \in OdeFile
    BY <2>1, OfUnits DEF UnitSound
  <2>3. OfUnit(u) = {w \in Writes(content[f]) : w.by = u}
    <3>1. content[f].main \in Seq(WrittenBy) /\ content[f].wal \in Seq(WrittenBy)
      BY <2>2, FileParts
    <3>2. ToSet(content[f].main \o content[f].wal) = ToSet(content[f].main) \cup ToSet(content[f].wal)
      BY <3>1, Joined
    <3> QED
      BY <3>2 DEF OfUnit, Committed, Writes
  <2>4. unit[u].at = "open" => OfUnit(u) = {} /\ unit[u].outcome = "none"
    BY <2>1, <2>2, <2>3 DEF UnitSound, NoneBy
  <2> QED
    BY <2>1, <2>2, <2>3, <2>4 DEF UnitSound, Told
<1>2. OdeInv => ReportsMissNothing
  BY DEF OdeInv, LookOK, ReportsMissNothing
<1> QED
  BY <1>1, <1>2, OdeInvariance, PTL DEF CommitsAreWholeAndSeen
=============================================================================
