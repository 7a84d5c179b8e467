------------------------------ MODULE OfflineBuild ------------------------------
(***************************************************************************)
(* Publication of the three databases built outside the server: the        *)
(* candidate from the raw files and the working database, the pilot and    *)
(* the full candidate from that candidate. A builder reads files that      *)
(* others may change meanwhile, compares them at the end with what it saw  *)
(* at the beginning, and replaces the published files one by one. The      *)
(* review of the S/N, serial_review.xlsx, is compared with nothing once it *)
(* was read.                                                               *)
(*                                                                         *)
(*   source     versions of the raw directory and of the two reviews,      *)
(*              which raw version the manifest lists, and the working      *)
(*              database with the journal of an open transaction           *)
(*   published  per stage the database in place: its build, what was read  *)
(*              of every source and what it says was read                  *)
(*   reports    per stage and report the build that wrote it               *)
(*   builder    per stage the build that is running, one at a time         *)
(*   begun      builds begun so far                                        *)
(*                                                                         *)
(* A version stands for the bytes of a file: a file that changes never     *)
(* takes an earlier content again. The health checks of the sources in     *)
(* between, which compare them before and after as well, are left out: a   *)
(* build they refuse is one that dies. How rows become cards is in         *)
(* FullMigration and PilotMigration.                                       *)
(***************************************************************************)
EXTENDS Integers, Sequences, FiniteSets

CONSTANTS
  MaxEdits,   \* bound: changes of source files
  MaxBuilds,  \* bound: builds begun
  NoBuild

ASSUME Bounded == MaxEdits \in Nat /\ MaxBuilds \in Nat /\ NoBuild \notin Nat

Stages == {"candidate", "pilot", "full"}

VARIABLES source, published, reports, builder, begun
buildVars == <<source, published, reports, builder, begun>>

-----------------------------------------------------------------------------
(* What a build does, in order. *)

Do(what, of) == [what |-> what, of |-> of]

\* build_candidate: inspection, the content of the file, and the final comparison.
CandidateContent ==
  <<Do("read", "working"), Do("name", "raw"), Do("name", "review"), Do("read", "review"),
    Do("read", "raw"), Do("match", "raw"), Do("match", "review")>>
CandidateSteps ==
  <<Do("listed", "raw"), Do("quiet", "working"), Do("keep", "raw"), Do("keep", "working")>>
    \o CandidateContent \o <<Do("same", "raw"), Do("same", "working")>>

\* select_pilot_receipts: the review of the S/N has the approved hash before it is
\* read; the workbook is the one the candidate was built from.
PilotReads ==
  <<Do("name", "serialReview"), Do("approved", "serialReview"), Do("read", "serialReview"),
    Do("registered", "raw"), Do("read", "raw"), Do("read", "candidate"), Do("name", "candidate")>>
PilotSteps(copies) ==
  <<Do("keep", "raw"), Do("keep", "working"), Do("keep", "candidate")>> \o PilotReads
    \o (IF copies THEN <<Do("read", "candidate")>> ELSE <<>>)
    \o <<Do("same", "raw"), Do("same", "working"), Do("same", "candidate")>>

\* build_full_candidate: S/N of the working database, the copied candidate, the dates;
\* the review of the S/N is read here and hashed for the build key after the rows.
FullContent ==
  <<Do("read", "candidate"), Do("read", "raw"), Do("read", "serialReview"),
    Do("name", "serialReview")>>
FullSteps ==
  <<Do("keep", "raw"), Do("keep", "working"), Do("keep", "candidate"),
    Do("read", "working"), Do("name", "candidate"), Do("name", "working")>>
    \o FullContent \o <<Do("same", "raw"), Do("same", "working"), Do("same", "candidate")>>

ReportsOf == [candidate |-> {"package", "serials", "report"},
              pilot |-> {"selection", "text"},
              full |-> {"main", "mainText", "clean", "cleanText"}]

\* The order of the os.replace calls: the database is the marker of the bundle.
CandidateOutputs == <<"package", "serials", "report", "database">>
PilotOutputs == <<"selection", "text", "database">>
FullOutputs == <<"main", "mainText", "clean", "cleanText", "database">>

Steps(b) ==
  CASE b.stage = "candidate" -> CandidateSteps
    [] b.stage = "full" -> FullSteps
    [] OTHER -> PilotSteps(b.copies)
Outputs(b) ==
  CASE b.stage = "candidate" -> CandidateOutputs
    [] b.stage = "full" -> FullOutputs
    [] OTHER -> IF b.copies THEN PilotOutputs ELSE SubSeq(PilotOutputs, 1, 2)

-----------------------------------------------------------------------------
(* The files. *)

\* What a reader finds, and the bytes a hash covers: an open journal counts for the latter.
Content(x) ==
  CASE x = "candidate" ->
         [id |-> published["candidate"].id, raw |-> published["candidate"].named["raw"]]
    [] x = "raw" -> source.raw
    [] x = "review" -> source.review
    [] x = "serialReview" -> source.serialReview
    [] OTHER -> source.working
State(x) == IF x = "working" THEN <<source.working, source.journal>> ELSE <<Content(x)>>

Nothing == [x \in {} |-> {}]

\* The first candidate is there, built from the first versions.
Original ==
  [id |-> 0, read |-> [x \in {"raw", "review", "working"} |-> {0}],
   named |-> [x \in {"raw", "review", "working"} |-> 0]]

InitBuild ==
  /\ source = [raw |-> 0, listed |-> 0, review |-> 0, serialReview |-> 0, working |-> 0,
               journal |-> FALSE, edits |-> 0]
  /\ published = [s \in Stages |-> IF s = "candidate" THEN Original ELSE NoBuild]
  /\ reports = [s \in Stages |-> [r \in ReportsOf[s] |-> IF s = "candidate" THEN 0 ELSE NoBuild]]
  /\ builder = [s \in Stages |-> NoBuild]
  /\ begun = 0

Edit(next) ==
  /\ source.edits < MaxEdits /\ source' = [next EXCEPT !.edits = @ + 1]
  /\ UNCHANGED <<published, reports, builder, begun>>

\* Somebody puts other files into raw/, with a new manifest or without one.
EditRaw ==
  \E l \in {source.listed, source.raw + 1} :
    Edit([source EXCEPT !.raw = @ + 1, !.listed = l])
EditReview == Edit([source EXCEPT !.review = @ + 1])
EditSerialReview == Edit([source EXCEPT !.serialReview = @ + 1])

\* A transaction of the running server on the working database.
ServerBegins == ~source.journal /\ Edit([source EXCEPT !.journal = TRUE])
ServerEnds ==
  /\ source.journal /\ source' = [source EXCEPT !.working = @ + 1, !.journal = FALSE]
  /\ UNCHANGED <<published, reports, builder, begun>>

-----------------------------------------------------------------------------
(* A build. *)

\* Without --overwrite no output may be there; the pilot looks at the database alone.
InTheWay(s, copies) ==
  \/ s # "pilot" /\ (published[s] # NoBuild \/ \E r \in ReportsOf[s] : reports[s][r] # NoBuild)
  \/ s = "pilot" /\ copies /\ published[s] # NoBuild
  \/ s = "pilot" /\ ~copies /\ \E r \in ReportsOf[s] : reports[s][r] # NoBuild

Begin(s) ==
  /\ builder[s] = NoBuild /\ begun < MaxBuilds
  /\ \E copies \in IF s = "pilot" THEN BOOLEAN ELSE {TRUE}, overwrite \in BOOLEAN :
       /\ overwrite \/ ~InTheWay(s, copies)
       /\ builder' = [builder EXCEPT ![s] =
            [stage |-> s, copies |-> copies, id |-> begun + 1, step |-> 1, out |-> 1,
             kept |-> Nothing, read |-> Nothing, named |-> Nothing]]
  /\ begun' = begun + 1
  /\ UNCHANGED <<source, published, reports>>

With(f, x, v) == [y \in DOMAIN f \cup {x} |-> IF y = x THEN v ELSE f[y]]
Upto(f, x, v) == With(f, x, {v} \cup IF x \in DOMAIN f THEN f[x] ELSE {})

At(s, what) ==
  /\ builder[s] # NoBuild /\ builder[s].step <= Len(Steps(builder[s]))
  /\ Steps(builder[s])[builder[s].step].what = what
Of(s) == Steps(builder[s])[builder[s].step].of
Passed(s, next) ==
  /\ builder' = [builder EXCEPT ![s] = [next EXCEPT !.step = @ + 1]]
  /\ UNCHANGED <<source, published, reports, begun>>

\* raw_file_hashes and source_content_state before the build
Keep(s) ==
  At(s, "keep") /\ Passed(s, [builder[s] EXCEPT !.kept = With(@, Of(s), State(Of(s)))])
Read(s) ==
  At(s, "read") /\ Passed(s, [builder[s] EXCEPT !.read = Upto(@, Of(s), Content(Of(s)))])
Name(s) ==
  At(s, "name") /\ Passed(s, [builder[s] EXCEPT !.named = With(@, Of(s), Content(Of(s)))])

\* verify_raw_manifest
Listed == source.listed = source.raw
\* assert_source_database_safe and the sidecars
Quiet == ~source.journal
\* verify_candidate_source_files
Matches(s) == builder[s].named[Of(s)] = Content(Of(s))
\* The workbook of the candidate's provenance
Registered == published["candidate"].named["raw"] = source.raw
\* SERIAL_REVIEW_SHA256, that of the first version
FirstReview == 0
IsApproved(s) == builder[s].named[Of(s)] = FirstReview
\* Mutant: only the raw files are compared again.
SameRaw(s) == Of(s) # "raw" \/ builder[s].kept[Of(s)] = State(Of(s))
\* The comparison after the build
Same(s) == builder[s].kept[Of(s)] = State(Of(s))

Holds(s) ==
  \/ At(s, "listed") /\ Listed
  \/ At(s, "quiet") /\ Quiet
  \/ At(s, "match") /\ Matches(s)
  \/ At(s, "approved") /\ IsApproved(s)
  \/ At(s, "registered") /\ Registered
  \/ At(s, "same") /\ Same(s)
Checked(s) == Holds(s) /\ Passed(s, builder[s])
Refused(s) ==
  /\ \E c \in {"listed", "quiet", "match", "approved", "registered", "same"} : At(s, c)
  /\ ~Holds(s) /\ builder' = [builder EXCEPT ![s] = NoBuild]
  /\ UNCHANGED <<source, published, reports, begun>>

\* What the database of a build says of its sources: the hashes kept at the beginning
\* stand for those that were not taken again.
Names(b) ==
  [x \in DOMAIN b.read |-> IF x \in DOMAIN b.named THEN b.named[x] ELSE b.kept[x][1]]

\* One os.replace; the temporary directory goes after the last.
Publish(s) ==
  /\ builder[s] # NoBuild /\ builder[s].step > Len(Steps(builder[s]))
  /\ LET b == builder[s]
         file == Outputs(b)[b.out]
     IN  /\ IF file = "database"
            THEN /\ published' = [published EXCEPT ![s] =
                                    [id |-> b.id, read |-> b.read, named |-> Names(b)]]
                 /\ UNCHANGED reports
            ELSE reports' = [reports EXCEPT ![s][file] = b.id] /\ UNCHANGED published
         /\ builder' = [builder EXCEPT ![s] =
                          IF b.out = Len(Outputs(b)) THEN NoBuild ELSE [b EXCEPT !.out = @ + 1]]
  /\ UNCHANGED <<source, begun>>

\* The process is killed or fails; what it replaced stays replaced.
Dies(s) ==
  /\ builder[s] # NoBuild /\ builder' = [builder EXCEPT ![s] = NoBuild]
  /\ UNCHANGED <<source, published, reports, begun>>

NextBuild ==
  \/ EditRaw \/ EditReview \/ EditSerialReview \/ ServerBegins \/ ServerEnds
  \/ \E s \in Stages :
       \/ Begin(s) \/ Keep(s) \/ Read(s) \/ Name(s) \/ Checked(s) \/ Refused(s)
       \/ Publish(s) \/ Dies(s)

BuildSpec == InitBuild /\ [][NextBuild]_buildVars

-----------------------------------------------------------------------------
(* Properties. *)

\* The review of the S/N that the rows were decided by. The pilot names the approved
\* one, and may have read one that came after its check; the full candidate names the
\* one it found when the rows were done, and may have read one that was there before.
ReviewInOrder(s, db) ==
  /\ s = "pilot" =>
       /\ db.named["serialReview"] = FirstReview
       /\ \A v \in db.read["serialReview"] : v >= db.named["serialReview"]
  /\ s = "full" => \A v \in db.read["serialReview"] : v <= db.named["serialReview"]

\* A published database says what it was built from: of every source it names but the
\* review of the S/N, all that was read is the version it names, whatever was edited,
\* written or rebuilt in the meantime; the pilot selects from and copies one candidate,
\* and takes its dates from the workbook of that candidate. Of the review of the S/N,
\* which nothing compares after it was read, only the order is known. And the database
\* is the marker of its bundle: after a failure at any point none stands whose reports
\* are those of an earlier build (build_candidate, build_pilot, build_full_candidate).
BundlesTellTheTruth ==
  \A s \in Stages : published[s] # NoBuild =>
    LET db == published[s]
    IN  /\ \A x \in DOMAIN db.read \ {"serialReview"} : db.read[x] = {db.named[x]}
        /\ ReviewInOrder(s, db)
        /\ s = "pilot" => db.named["raw"] = db.named["candidate"].raw
        /\ \A r \in ReportsOf[s] : reports[s][r] # NoBuild /\ reports[s][r] >= db.id
=============================================================================
