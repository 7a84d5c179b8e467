------------------------ MODULE FullInventoryProofs ------------------------
(***************************************************************************)
(* Without late failures at most one FULL inventory session is active, for *)
(* any number of threads, workspaces, runs and resolutions.                *)
(*                                                                         *)
(* OneActive is not inductive: a second session appears when a creator     *)
(* that found none commits its draft, or when a preview ends in a session  *)
(* that is over. The invariant therefore also says what a creator that     *)
(* holds the lock file has already seen (Creating) and that the session of *)
(* a running preview is PREVIEWING and nobody else's (Building).           *)
(*                                                                         *)
(* With late failures and crashes, what a session shows as ready for       *)
(* approval was built from its own workbook and from every decision in     *)
(* force (ReviewStaysCurrent). Its invariant says of each file what a      *)
(* review may rest on (SessionOK), and of each request what it has made    *)
(* sure of and nobody can take away while it waits or writes (RequestOK).  *)
(*                                                                         *)
(* For any workbooks, decisions, dictionary, request threads and bounds:   *)
(* the candidate database of a session is the count (RehearsalInv). A      *)
(* preview is ready only when every finding of every row is settled, the   *)
(* findings about numbers, places and quantities are settled by no         *)
(* decision but the one that names them, and a decision once recorded is   *)
(* never changed, so what a preview was built from stays. A builder fills  *)
(* a file that it has created and nobody else fills it, from a preview     *)
(* that was ready when it was opened and so is ready still.                *)
(***************************************************************************)
EXTENDS FullInventory, CandidateRehearsal, TLAPS,
        FiniteSetTheorems, SequenceTheorems, WellFoundedInduction

SessionFields == {"status", "source", "active", "runs", "resolutions"}
RequestFields == {"kind", "stage", "w", "arg", "run", "plan", "todo"}

\* The state is made of functions and records of the right shape.
Shape ==
  /\ DOMAIN disk = Workspaces
  /\ \A w \in Workspaces : DOMAIN disk[w] = SessionFields
  /\ DOMAIN writer = Workspaces
  /\ DOMAIN op = Threads
  /\ \A t \in Threads : DOMAIN op[t] = RequestFields

\* Only the holder of the lock file creates.
CreatorHolds == \A t \in Threads : op[t].kind = "create" => creator = t

BuildStages == {"read", "build", "rows", "fail", "undo"}

\* A request is of some kind, and only a preview builds.
StageFitsKind ==
  \A t \in Threads :
    /\ op[t].stage # "idle" => op[t].kind \in Kinds \ {"none"}
    /\ op[t].stage \in BuildStages \cup {"answer"} => op[t].kind = "preview"

\* A request that has a workspace to work on has an existing one.
InWorkspace ==
  \A t \in Threads :
    \/ op[t].stage = "scan" /\ op[t].kind # "create"
    \/ op[t].stage \in BuildStages \cup {"store", "lock", "write"}
    => op[t].w \in Workspaces

\* A session whose preview runs is PREVIEWING, and one thread runs it.
Building ==
  /\ \A t \in Threads :
       op[t].stage \in BuildStages => disk[op[t].w].status = "PREVIEWING"
  /\ \A t, u \in Threads :
       op[t].stage \in BuildStages /\ op[u].stage \in BuildStages /\ op[t].w = op[u].w
         => t = u

\* An open transaction holds the lock, and what it rechecked still holds.
Writing ==
  \A t \in Threads :
    /\ op[t].stage \in {"write", "rows", "undo"} => writer[op[t].w] = t
    /\ op[t].stage = "write" =>
         /\ disk[op[t].w].status # "PREVIEWING"
         /\ op[t].kind \in {"upload", "preview", "resolve"} => IsActive(op[t].w)

Quiet(w) == disk[w].status \in {"ABSENT", "EMPTY", "REJECTED"}

\* Whatever file a creator has verified stays quiet until it is done.
Creating ==
  \A t \in Threads :
    op[t].kind = "create" =>
      /\ op[t].stage = "scan" => \A w \in Workspaces \ op[t].todo : Quiet(w)
      /\ op[t].stage \in {"file", "store", "lock", "write"} => \A w \in Workspaces : Quiet(w)

CalmInv ==
  /\ Shape
  /\ CreatorHolds
  /\ StageFitsKind
  /\ InWorkspace
  /\ Building
  /\ Writing
  /\ Creating
  /\ OneActive
-----------------------------------------------------------------------------
\* The program starts without sessions and requests.
LEMMA CalmInit == Init => CalmInv
  BY ConstantsAssumption
  DEF Init, CalmInv, Shape, CreatorHolds, StageFitsKind, InWorkspace, Building, Writing,
      Creating, OneActive, IsActive, ActiveStatuses, NoSession, Idle, SessionFields,
      RequestFields, BuildStages

\* What a transaction leaves of a session: the status it sets, and the fields.
LEMMA EffectStatus ==
  ASSUME NEW s, DOMAIN s = SessionFields,
         NEW o, o.kind \in Kinds \ {"none"}
  PROVE  /\ DOMAIN Effect(s, o) = SessionFields
         /\ Effect(s, o).status =
              CASE o.kind = "create"  -> "DRAFT"
                [] o.kind = "upload"  -> "UPLOADED"
                [] o.kind = "preview" -> "PREVIEWING"
                [] o.kind = "resolve" -> "REVIEW_REQUIRED"
                [] o.kind = "reject"  -> "REJECTED"
  BY DEF Effect, Drafted, Uploaded, Claimed, Resolved, Rejected, SessionFields, Kinds

\* Every step of a schedule without late failures keeps the invariant.
LEMMA CalmStepKeeps == ASSUME CalmInv, [CalmNext]_vars PROVE CalmInv'
<1>. USE ConstantsAssumption
     DEF Shape, CreatorHolds, StageFitsKind, InWorkspace, Building, Writing, Creating,
         OneActive, Quiet, IsActive, ActiveStatuses, ReviewStatuses, SessionFields,
         RequestFields, BuildStages, Kinds, Idle, Ends, Goto, FreesCreator, Locks,
         Unlocks, Files
<1>1. ASSUME NEW t \in Threads, BeginCreate(t) PROVE CalmInv'
  BY <1>1, SMTT(20) DEF BeginCreate, CalmInv
<1>2. ASSUME NEW t \in Threads, NEW kind \in Kinds \ {"create", "none"},
            NEW w \in Workspaces, NEW arg, Begin(t, kind, w, arg)
     PROVE  CalmInv'
  BY <1>2, SMTT(20) DEF Begin, CalmInv
<1>3. ASSUME NEW t \in Threads, ScanFile(t) PROVE CalmInv'
  <2>1. Shape'
    BY <1>3 DEF ScanFile, AfterScan, CalmInv
  <2>2. CreatorHolds'
    BY <1>3 DEF ScanFile, AfterScan, CalmInv
  <2>3. StageFitsKind'
    BY <1>3 DEF ScanFile, AfterScan, CalmInv
  <2>4. InWorkspace'
    BY <1>3 DEF ScanFile, AfterScan, CalmInv
  <2>5. Building'
    BY <1>3 DEF ScanFile, AfterScan, CalmInv
  <2>6. Writing'
    BY <1>3 DEF ScanFile, AfterScan, CalmInv
  <2>7. Creating'
    <3>. SUFFICES ASSUME NEW u \in Threads, op'[u].kind = "create"
                  PROVE  /\ op'[u].stage = "scan" =>
                              \A w \in Workspaces \ op'[u].todo : Quiet(w)'
                         /\ op'[u].stage \in {"file", "store", "lock", "write"} =>
                              \A w \in Workspaces : Quiet(w)'
      OBVIOUS
    <3>1. disk' = disk /\ op'[u].kind = op[u].kind
      BY <1>3 DEF ScanFile, CalmInv
    <3>2. CASE u # t
      BY <1>3, <3>1, <3>2 DEF ScanFile, CalmInv
    <3>3. CASE u = t
      <4>1. Quiet(NextFile(t)) /\ \A w \in Workspaces \ op[t].todo : Quiet(w)
        BY <1>3, <3>1, <3>3 DEF ScanFile, FirstLook, CalmInv
      <4>2. op'[t].todo = op[t].todo \ {NextFile(t)}
        BY <1>3 DEF ScanFile, CalmInv
      <4>3. op'[t].stage # "scan" => op[t].todo \ {NextFile(t)} = {}
        BY <1>3 DEF ScanFile, CalmInv
      <4>. QED  BY <3>1, <3>3, <4>1, <4>2, <4>3
    <3>. QED  BY <3>2, <3>3
  <2>8. OneActive'
    BY <1>3 DEF ScanFile, AfterScan, CalmInv
  <2>. QED  BY <2>1, <2>2, <2>3, <2>4, <2>5, <2>6, <2>7, <2>8 DEF CalmInv
<1>4. ASSUME NEW t \in Threads, ScanRefuses(t) PROVE CalmInv'
  BY <1>4, SMTT(20) DEF ScanRefuses, CalmInv
<1>5. ASSUME NEW t \in Threads, CreateFile(t) PROVE CalmInv'
  BY <1>5, SMTT(20) DEF CreateFile, CalmInv
<1>6. ASSUME NEW t \in Threads, StoreSource(t) PROVE CalmInv'
  BY <1>6, SMTT(20) DEF StoreSource, CalmInv
<1>7. ASSUME NEW t \in Threads, TakeLock(t) PROVE CalmInv'
  <2>1. Shape'
    BY <1>7 DEF TakeLock, CalmInv
  <2>2. CreatorHolds'
    BY <1>7 DEF TakeLock, CalmInv
  <2>3. StageFitsKind'
    BY <1>7 DEF TakeLock, CalmInv
  <2>4. InWorkspace'
    BY <1>7 DEF TakeLock, CalmInv
  <2>5. Building'
    BY <1>7 DEF TakeLock, CalmInv
  <2>6. Writing'
    <3>1. /\ op[t].w \in Workspaces
          /\ disk[op[t].w].status # "PREVIEWING"
          /\ op[t].kind \in {"upload", "preview", "resolve"} => IsActive(op[t].w)
      BY <1>7 DEF TakeLock, Recheck, CanPreview, CanResolve, CalmInv
    <3>. QED  BY <1>7, <3>1 DEF TakeLock, CalmInv
  <2>7. Creating'
    BY <1>7 DEF TakeLock, CalmInv
  <2>8. OneActive'
    BY <1>7 DEF TakeLock, CalmInv
  <2>. QED  BY <2>1, <2>2, <2>3, <2>4, <2>5, <2>6, <2>7, <2>8 DEF CalmInv
<1>8. ASSUME NEW t \in Threads, LockRefuses(t) PROVE CalmInv'
  BY <1>8, SMTT(20) DEF LockRefuses, CalmInv
<1>9. ASSUME NEW t \in Threads, Commit(t) PROVE CalmInv'
  <2>0. /\ op[t].w \in Workspaces
        /\ op[t].kind \in Kinds \ {"none"}
        /\ disk' = [disk EXCEPT ![op[t].w] = Effect(disk[op[t].w], op[t])]
        /\ DOMAIN Effect(disk[op[t].w], op[t]) = SessionFields
        /\ Effect(disk[op[t].w], op[t]).status =
             CASE op[t].kind = "create"  -> "DRAFT"
               [] op[t].kind = "upload"  -> "UPLOADED"
               [] op[t].kind = "preview" -> "PREVIEWING"
               [] op[t].kind = "resolve" -> "REVIEW_REQUIRED"
               [] op[t].kind = "reject"  -> "REJECTED"
    <3>1. /\ op[t].w \in Workspaces
          /\ op[t].kind \in Kinds \ {"none"}
          /\ DOMAIN disk[op[t].w] = SessionFields
          /\ disk' = [disk EXCEPT ![op[t].w] = Effect(disk[op[t].w], op[t])]
      BY <1>9 DEF Commit, CalmInv
    <3>. QED  BY ONLY <3>1, EffectStatus
  <2>1. Shape'
    BY <1>9, <2>0 DEF Commit, CalmInv
  <2>2. CreatorHolds'
    BY <1>9, <2>0 DEF Commit, CalmInv
  <2>3. StageFitsKind'
    BY <1>9, <2>0 DEF Commit, CalmInv
  <2>4. InWorkspace'
    BY <1>9, <2>0 DEF Commit, CalmInv
  <2>5. Building'
    BY <1>9, <2>0 DEF Commit, CalmInv
  <2>6. Writing'
    BY <1>9, <2>0 DEF Commit, CalmInv
  <2>7. Creating'
    BY <1>9, <2>0 DEF Commit, CalmInv
  <2>8. OneActive'
    BY <1>9, <2>0 DEF Commit, CalmInv
  <2>. QED  BY <2>1, <2>2, <2>3, <2>4, <2>5, <2>6, <2>7, <2>8 DEF CalmInv
<1>10. ASSUME NEW t \in Threads, ReadPlan(t) PROVE CalmInv'
  BY <1>10, SMTT(20) DEF ReadPlan, CalmInv
<1>11. ASSUME NEW t \in Threads, BuildRows(t) PROVE CalmInv'
  BY <1>11, SMTT(20) DEF BuildRows, CalmInv
<1>12. ASSUME NEW t \in Threads, BuildCommit(t) PROVE CalmInv'
  <2>1. Shape'
    BY <1>12 DEF BuildCommit, Previewed, CalmInv
  <2>2. CreatorHolds'
    BY <1>12 DEF BuildCommit, CalmInv
  <2>3. StageFitsKind'
    BY <1>12 DEF BuildCommit, CalmInv
  <2>4. InWorkspace'
    BY <1>12 DEF BuildCommit, CalmInv
  <2>5. Building'
    BY <1>12 DEF BuildCommit, CalmInv
  <2>6. Writing'
    BY <1>12 DEF BuildCommit, CalmInv
  <2>7. Creating'
    BY <1>12 DEF BuildCommit, CalmInv
  <2>8. OneActive'
    <3>1. op[t].w \in Workspaces /\ IsActive(op[t].w)
      BY <1>12 DEF BuildCommit, CalmInv
    <3>2. \A w \in Workspaces \ {op[t].w} : disk'[w] = disk[w]
      BY <1>12 DEF BuildCommit, CalmInv
    <3>. QED  BY <3>1, <3>2 DEF CalmInv
  <2>. QED  BY <2>1, <2>2, <2>3, <2>4, <2>5, <2>6, <2>7, <2>8 DEF CalmInv
<1>13. ASSUME NEW t \in Threads, BuildFails(t) PROVE CalmInv'
  BY <1>13, SMTT(20) DEF BuildFails, CalmInv
<1>14. ASSUME NEW t \in Threads, Answer(t) PROVE CalmInv'
  BY <1>14, SMTT(20) DEF Answer, CalmInv
<1>15. ASSUME NEW t \in Threads, FailLock(t) PROVE CalmInv'
  BY <1>15, SMTT(20) DEF FailLock, CalmInv
<1>16. ASSUME NEW t \in Threads, FailCommit(t) PROVE CalmInv'
  <2>1. Shape'
    BY <1>16 DEF FailCommit, Failed, CalmInv
  <2>2. CreatorHolds'
    BY <1>16 DEF FailCommit, Failed, CalmInv
  <2>3. StageFitsKind'
    BY <1>16 DEF FailCommit, Failed, CalmInv
  <2>4. InWorkspace'
    BY <1>16 DEF FailCommit, Failed, CalmInv
  <2>5. Building'
    BY <1>16 DEF FailCommit, Failed, CalmInv
  <2>6. Writing'
    BY <1>16 DEF FailCommit, Failed, CalmInv
  <2>7. Creating'
    BY <1>16 DEF FailCommit, Failed, CalmInv
  <2>8. OneActive'
    BY <1>16 DEF FailCommit, Failed, CalmInv
  <2>. QED  BY <2>1, <2>2, <2>3, <2>4, <2>5, <2>6, <2>7, <2>8 DEF CalmInv
<1>17. ASSUME NEW t \in Threads, BusyTimeout(t) PROVE CalmInv'
  BY <1>17, SMTT(20) DEF BusyTimeout, CalmInv
<1>18. ASSUME Crash PROVE CalmInv'
  BY <1>18, SMTT(20) DEF Crash, CalmInv
<1>19. ASSUME UNCHANGED vars PROVE CalmInv'
  BY <1>19 DEF vars, CalmInv
<1>20. ASSUME NEW t \in Threads, Arrive(t) PROVE CalmInv'
  BY <1>1, <1>2, <1>20 DEF Arrive
<1>21. ASSUME NEW t \in Threads, CalmStep(t) PROVE CalmInv'
  BY <1>3, <1>4, <1>5, <1>6, <1>7, <1>8, <1>9, <1>10, <1>11, <1>12, <1>13, <1>14, <1>15, <1>16, <1>17, <1>21 DEF CalmStep
<1>. QED  BY <1>18, <1>19, <1>20, <1>21 DEF CalmNext

\* Without late failures at most one session is active: the creation lock, the
\* look at every workspace file and the rechecks under the write lock of
\* create_session and its fellows together keep what the message of
\* create_session promises.
THEOREM OneActiveWhenCalm == CalmSpec => []OneActive
<1>1. CalmInv => OneActive
  BY DEF CalmInv
<1>. QED  BY CalmInit, CalmStepKeeps, <1>1, PTL DEF CalmSpec

-----------------------------------------------------------------------------
(* What a session offers for approval, with late failures and crashes. *)

\* A finished run applied resolutions that are on record, and its verdict is theirs.
Truthful(s) ==
  \A r \in DOMAIN s.runs :
    s.runs[r].status = "READY" =>
      /\ s.runs[r].plan \subseteq DOMAIN s.resolutions
      /\ s.runs[r].verdict = Verdict(s, s.runs[r].source, s.runs[r].plan)

Shown(s) ==
  s.status \in ReviewStatuses =>
    /\ s.active \in DOMAIN s.runs
    /\ s.runs[s.active].status = "READY" /\ s.runs[s.active].source = s.source

Current(s) ==
  s.status = "READY_FOR_APPROVAL" =>
    /\ s.runs[s.active].plan = ActiveResolutions(s)
    /\ OpenBlockers(s, s.source, ActiveResolutions(s)) = {}

SessionOK(s) ==
  /\ s \in Session /\ Len(s.runs) <= MaxRuns /\ Len(s.resolutions) <= MaxResolutions
  /\ Truthful(s) /\ Shown(s) /\ Current(s)

\* A late failure or a rejection may have ended the session, but nobody has
\* changed its source or its resolutions under the preview that is being built.
BeingBuilt(s, o) ==
  /\ s.status \in {"PREVIEWING", "FAILED", "REJECTED"}
  /\ s.active = o.run /\ o.run \in DOMAIN s.runs
  /\ s.runs[o.run].source = s.source /\ s.runs[o.run].status # "READY"
  /\ o.stage # "read" => o.plan = ActiveResolutions(s)

PreviewStages == {"read", "build", "rows"}

\* What a request that stands at a session s has made sure of.
RequestOK(o, s, stored) ==
  /\ o.stage # "idle" => o.kind \in Kinds \ {"none"}
  /\ o.stage \notin {"idle", "file"} /\ (o.stage = "scan" => o.kind # "create") =>
       o.w \in Workspaces /\ s.status # "ABSENT"
  /\ o.stage = "file" => o.kind = "create"
  /\ o.stage = "store" => o.kind = "upload"
  /\ o.kind = "upload" => o.arg \in Sources
  /\ o.kind = "upload" /\ o.stage \in {"lock", "write"} => o.arg \in stored
  /\ o.kind = "resolve" => o.arg \in Resolution
  /\ o.stage = "write" => Recheck(s, o)
  /\ o.stage \in PreviewStages => BeingBuilt(s, o)

\* An open transaction holds the write lock of its file.
HoldsLock == \A t \in Threads : op[t].stage \in {"write", "rows", "undo"} => writer[op[t].w] = t

\* Late failures apart, one thread builds the preview of a session.
OneBuilder ==
  \A t, u \in Threads :
    op[t].stage \in PreviewStages /\ op[u].stage \in PreviewStages /\ op[t].w = op[u].w => t = u

ReviewInv ==
  /\ TypeOK
  /\ \A w \in Workspaces : SessionOK(disk[w]) /\ (disk[w].source # NoSource => disk[w].source \in vault)
  /\ \A t \in Threads : RequestOK(op[t], disk[op[t].w], vault)
  /\ HoldsLock /\ OneBuilder

-----------------------------------------------------------------------------
(* What the transactions make of a session. *)

LEMMA SessionParts ==
  ASSUME NEW s \in Session
  PROVE  /\ s.status \in Statuses /\ s.source \in Sources \cup {NoSource} /\ s.active \in 0 .. MaxRuns
         /\ s.runs \in Seq(Run) /\ s.resolutions \in Seq(Resolution)
         /\ Len(s.runs) \in Nat /\ DOMAIN s.runs = 1 .. Len(s.runs)
         /\ Len(s.resolutions) \in Nat /\ DOMAIN s.resolutions = 1 .. Len(s.resolutions)
         /\ \A r \in DOMAIN s.runs : s.runs[r] \in Run
BY DEF Session

LEMMA SeqOfFunction ==
  ASSUME NEW S, NEW n \in Nat, NEW f, DOMAIN f = 1 .. n, f = [i \in 1 .. n |-> f[i]], \A i \in 1 .. n : f[i] \in S
  PROVE  f \in Seq(S) /\ Len(f) = n
<1>1. f \in [1 .. n -> S]
  OBVIOUS
<1> QED
  BY <1>1, SeqDef

LEMMA StatusNames ==
  /\ \A x \in {"DRAFT", "UPLOADED", "PREVIEWING", "REVIEW_REQUIRED", "FAILED", "REJECTED"} : x \in Statuses
  /\ ReviewStatuses \subseteq Statuses
BY DEF Statuses, ActiveStatuses, ReviewStatuses

\* A session is a session again, whatever of it is replaced.
LEMMA SessionAgain ==
  ASSUME NEW s \in Session, NEW c, DOMAIN c = DOMAIN s, c = [f \in DOMAIN s |-> c[f]],
         c.status \in Statuses, c.source \in Sources \cup {NoSource}, c.active \in 0 .. MaxRuns,
         c.runs \in Seq(Run), c.resolutions \in Seq(Resolution)
  PROVE  c \in Session
BY DEF Session

\* Verdicts and active resolutions are about the resolutions and nothing else.
LEMMA SameResolutions ==
  ASSUME NEW s, NEW s2, s2.resolutions = s.resolutions
  PROVE  /\ ActiveResolutions(s2) = ActiveResolutions(s)
         /\ \A source, plan : OpenBlockers(s2, source, plan) = OpenBlockers(s, source, plan)
         /\ \A source, plan : Verdict(s2, source, plan) = Verdict(s, source, plan)
BY DEF ActiveResolutions, OpenBlockers, Verdict

LEMMA Plans ==
  ASSUME NEW s \in Session, Len(s.resolutions) <= MaxResolutions
  PROVE  ActiveResolutions(s) \subseteq DOMAIN s.resolutions /\ ActiveResolutions(s) \subseteq 1 .. MaxResolutions
BY SessionParts, ConstantsAssumption DEF ActiveResolutions

LEMMA DraftedOK ==
  ASSUME NEW s, SessionOK(s)
  PROVE  SessionOK(Drafted(s)) /\ Drafted(s).source = s.source /\ Drafted(s).status = "DRAFT"
BY SessionParts, SameResolutions
   DEF SessionOK, Drafted, Session, Statuses, ActiveStatuses, ReviewStatuses, Truthful, Shown, Current

LEMMA UploadedOK ==
  ASSUME NEW s, SessionOK(s), NEW source \in Sources
  PROVE  SessionOK(Uploaded(s, source)) /\ Uploaded(s, source).source = source
         /\ Uploaded(s, source).status = "UPLOADED"
<1> DEFINE c == Uploaded(s, source)
<1>1. s \in Session
  BY DEF SessionOK
<1>2. /\ c.status = "UPLOADED" /\ c.source = source /\ c.active = 0 /\ c.runs = s.runs /\ c.resolutions = s.resolutions
      /\ DOMAIN c = DOMAIN s /\ c = [f \in DOMAIN s |-> c[f]]
  BY <1>1 DEF Uploaded, Session
<1>3. c \in Session
  BY <1>1, <1>2, SessionParts, SessionAgain, StatusNames, ConstantsAssumption
<1>4. Truthful(c)
  BY <1>2, SameResolutions DEF SessionOK, Truthful
<1> QED
  BY <1>2, <1>3, <1>4 DEF SessionOK, Shown, Current, ReviewStatuses

LEMMA ClaimedOK ==
  ASSUME NEW s, SessionOK(s), CanPreview(s)
  PROVE  /\ SessionOK(Claimed(s)) /\ Claimed(s).source = s.source /\ Claimed(s).status = "PREVIEWING"
         /\ Len(s.runs) + 1 \in DOMAIN Claimed(s).runs /\ Len(s.runs) + 1 \in 0 .. MaxRuns
         /\ Claimed(s).runs[Len(s.runs) + 1].source = s.source
         /\ Claimed(s).runs[Len(s.runs) + 1].status = "RUNNING"
<1> DEFINE run == [status |-> "RUNNING", source |-> s.source, plan |-> {}, verdict |-> "REVIEW_REQUIRED"]
           c == Claimed(s)
<1>1. s \in Session /\ Len(s.runs) < MaxRuns /\ Len(s.runs) \in Nat /\ MaxRuns \in Nat
  BY SessionParts, ConstantsAssumption DEF SessionOK, CanPreview
<1>2. run \in Run
  BY <1>1, SessionParts DEF Run, RunStatuses, ReviewStatuses
<1>3. /\ c.status = "PREVIEWING" /\ c.source = s.source /\ c.active = Len(s.runs) + 1
      /\ c.runs = Append(s.runs, run) /\ c.resolutions = s.resolutions
      /\ c \in Session
  <2>1. /\ c.status = "PREVIEWING" /\ c.source = s.source /\ c.active = Len(s.runs) + 1
        /\ c.runs = Append(s.runs, run) /\ c.resolutions = s.resolutions
        /\ DOMAIN c = DOMAIN s /\ c = [f \in DOMAIN s |-> c[f]]
    BY <1>1 DEF Claimed, Session
  <2>2. c.active \in 0 .. MaxRuns /\ c.runs \in Seq(Run)
    BY <1>1, <1>2, <2>1, SessionParts
  <2> QED
    BY <1>1, <2>1, <2>2, SessionParts, SessionAgain, StatusNames
<1>4. /\ DOMAIN c.runs = 1 .. Len(s.runs) + 1 /\ Len(c.runs) = Len(s.runs) + 1
      /\ c.runs[Len(s.runs) + 1] = run
      /\ \A r \in DOMAIN s.runs : c.runs[r] = s.runs[r]
  BY <1>1, <1>2, <1>3, SessionParts
<1>5. \A r \in DOMAIN c.runs : r \in DOMAIN s.runs \/ c.runs[r] = run
  BY <1>1, <1>4, SessionParts
<1>6. Truthful(c)
  <2> SUFFICES ASSUME NEW r \in DOMAIN c.runs, c.runs[r].status = "READY"
               PROVE  /\ c.runs[r].plan \subseteq DOMAIN c.resolutions
                      /\ c.runs[r].verdict = Verdict(c, c.runs[r].source, c.runs[r].plan)
    BY DEF Truthful
  <2>1. r \in DOMAIN s.runs /\ c.runs[r] = s.runs[r]
    BY <1>4, <1>5
  <2> QED
    BY <1>3, <2>1, SameResolutions DEF SessionOK, Truthful
<1>7. Shown(c) /\ Current(c)
  BY <1>3 DEF Shown, Current, ReviewStatuses
<1>8. Len(c.resolutions) <= MaxResolutions /\ Len(c.runs) <= MaxRuns
  BY <1>1, <1>3, <1>4 DEF SessionOK
<1> QED
  BY <1>1, <1>3, <1>4, <1>6, <1>7, <1>8 DEF SessionOK

LEMMA ResolvedOK ==
  ASSUME NEW s, SessionOK(s), NEW res \in Resolution, CanResolve(s, res)
  PROVE  /\ SessionOK(Resolved(s, res)) /\ Resolved(s, res).source = s.source
         /\ Resolved(s, res).status = "REVIEW_REQUIRED"
<1> DEFINE c == Resolved(s, res)
<1>1. /\ s \in Session /\ Len(s.resolutions) < MaxResolutions /\ Len(s.resolutions) \in Nat
      /\ MaxResolutions \in Nat /\ s.status \in ReviewStatuses
  BY SessionParts, ConstantsAssumption DEF SessionOK, CanResolve
<1>2. /\ c.status = "REVIEW_REQUIRED" /\ c.source = s.source /\ c.active = s.active
      /\ c.runs = s.runs /\ c.resolutions = Append(s.resolutions, res)
      /\ c \in Session
  <2>1. /\ c.status = "REVIEW_REQUIRED" /\ c.source = s.source /\ c.active = s.active
        /\ c.runs = s.runs /\ c.resolutions = Append(s.resolutions, res)
        /\ DOMAIN c = DOMAIN s /\ c = [f \in DOMAIN s |-> c[f]]
    BY <1>1 DEF Resolved, Session
  <2>2. c.resolutions \in Seq(Resolution)
    BY <1>1, <2>1, SessionParts
  <2> QED
    BY <1>1, <2>1, <2>2, SessionParts, SessionAgain, StatusNames
<1>3. /\ DOMAIN c.resolutions = 1 .. Len(s.resolutions) + 1 /\ Len(c.resolutions) = Len(s.resolutions) + 1
      /\ \A i \in DOMAIN s.resolutions : i \in DOMAIN c.resolutions /\ c.resolutions[i] = s.resolutions[i]
  BY <1>1, <1>2, SessionParts
<1>4. ASSUME NEW source, NEW plan, plan \subseteq DOMAIN s.resolutions
      PROVE  Verdict(c, source, plan) = Verdict(s, source, plan)
  <2>1. OpenBlockers(c, source, plan) = OpenBlockers(s, source, plan)
    BY <1>3, <1>4 DEF OpenBlockers
  <2> QED
    BY <2>1 DEF Verdict
<1>5. Truthful(c)
  <2> SUFFICES ASSUME NEW r \in DOMAIN s.runs, s.runs[r].status = "READY"
               PROVE  /\ s.runs[r].plan \subseteq DOMAIN c.resolutions
                      /\ s.runs[r].verdict = Verdict(c, s.runs[r].source, s.runs[r].plan)
    BY <1>2 DEF Truthful
  <2>1. s.runs[r].plan \subseteq DOMAIN s.resolutions /\ s.runs[r].verdict = Verdict(s, s.runs[r].source, s.runs[r].plan)
    BY DEF SessionOK, Truthful
  <2> QED
    BY <1>3, <1>4, <2>1
<1>6. Shown(c) /\ Current(c)
  BY <1>1, <1>2 DEF Shown, Current, ReviewStatuses, SessionOK
<1>7. Len(c.resolutions) <= MaxResolutions /\ Len(c.runs) <= MaxRuns
  BY <1>1, <1>2, <1>3 DEF SessionOK
<1> QED
  BY <1>2, <1>5, <1>6, <1>7 DEF SessionOK

\* Runs whose status alone changes, and to no new READY, stay truthful.
LEMMA OtherStatuses ==
  ASSUME NEW s, SessionOK(s), NEW c, c.resolutions = s.resolutions, c.status \notin ReviewStatuses,
         c.status \in Statuses, c.source = s.source, c.active = s.active, c \in Session,
         DOMAIN c.runs = DOMAIN s.runs,
         \A r \in DOMAIN s.runs : c.runs[r] = s.runs[r] \/ c.runs[r].status # "READY"
  PROVE  SessionOK(c)
<1>1. Truthful(c)
  <2> SUFFICES ASSUME NEW r \in DOMAIN c.runs, c.runs[r].status = "READY"
               PROVE  /\ c.runs[r].plan \subseteq DOMAIN c.resolutions
                      /\ c.runs[r].verdict = Verdict(c, c.runs[r].source, c.runs[r].plan)
    BY DEF Truthful
  <2> QED
    BY SameResolutions DEF SessionOK, Truthful
<1>2. Len(c.runs) = Len(s.runs)
  BY SessionParts DEF SessionOK
<1> QED
  BY <1>1, <1>2 DEF SessionOK, Shown, Current, ReviewStatuses

LEMMA RejectedOK ==
  ASSUME NEW s, SessionOK(s)
  PROVE  /\ SessionOK(Rejected(s)) /\ Rejected(s).source = s.source /\ Rejected(s).status = "REJECTED"
         /\ Rejected(s).resolutions = s.resolutions /\ DOMAIN Rejected(s).runs = DOMAIN s.runs
         /\ \A r \in DOMAIN s.runs :
              /\ Rejected(s).runs[r].source = s.runs[r].source
              /\ s.runs[r].status # "READY" => Rejected(s).runs[r].status # "READY"
<1> DEFINE c == Rejected(s)
           cancelled(r) == IF r = s.active /\ s.runs[r].status = "RUNNING"
                           THEN [s.runs[r] EXCEPT !.status = "CANCELLED"] ELSE s.runs[r]
<1>1. s \in Session
  BY DEF SessionOK
<1>2. c.status = "REJECTED" /\ c.source = s.source /\ c.active = s.active /\ c.resolutions = s.resolutions
      /\ c.runs = [r \in DOMAIN s.runs |-> cancelled(r)]
  BY <1>1 DEF Rejected, Session
<1>3. \A r \in DOMAIN s.runs :
        /\ cancelled(r) \in Run /\ cancelled(r).source = s.runs[r].source
        /\ cancelled(r) = s.runs[r] \/ cancelled(r).status = "CANCELLED"
  BY <1>1, SessionParts DEF Run, RunStatuses
<1> HIDE DEF cancelled
<1>4. c.runs \in Seq(Run)
  BY <1>1, <1>2, <1>3, SessionParts, SeqOfFunction
<1>5. c \in Session
  <2>1. DOMAIN c = DOMAIN s /\ c = [f \in DOMAIN s |-> c[f]]
    BY <1>1 DEF Rejected, Session
  <2> QED
    BY <1>1, <1>2, <1>4, <2>1, SessionParts, SessionAgain, StatusNames
<1> QED
  BY <1>1, <1>2, <1>3, <1>5, OtherStatuses DEF ReviewStatuses, Statuses

LEMMA FailedOK ==
  ASSUME NEW s, SessionOK(s), NEW run
  PROVE  /\ SessionOK(Failed(s, run)) /\ Failed(s, run).source = s.source /\ Failed(s, run).status = "FAILED"
         /\ Failed(s, run).resolutions = s.resolutions /\ DOMAIN Failed(s, run).runs = DOMAIN s.runs
         /\ \A r \in DOMAIN s.runs :
              /\ Failed(s, run).runs[r].source = s.runs[r].source
              /\ s.runs[r].status # "READY" => Failed(s, run).runs[r].status # "READY"
<1> DEFINE c == Failed(s, run)
<1>1. s \in Session
  BY DEF SessionOK
<1>2. c.status = "FAILED" /\ c.source = s.source /\ c.active = s.active /\ c.resolutions = s.resolutions
      /\ c.runs = [s.runs EXCEPT ![run].status = "FAILED"]
  BY <1>1 DEF Failed, Session
<1>3. DOMAIN c.runs = DOMAIN s.runs /\ c.runs = [r \in DOMAIN s.runs |-> c.runs[r]] /\
      \A r \in DOMAIN s.runs :
        /\ c.runs[r] \in Run /\ c.runs[r].source = s.runs[r].source
        /\ c.runs[r] = s.runs[r] \/ c.runs[r].status = "FAILED"
  <2>1. \A x \in Run : [x EXCEPT !.status = "FAILED"] \in Run /\ [x EXCEPT !.status = "FAILED"].source = x.source
                       /\ [x EXCEPT !.status = "FAILED"].status = "FAILED"
    BY DEF Run, RunStatuses
  <2>2. c.runs = [r \in DOMAIN s.runs |-> IF r = run THEN [s.runs[r] EXCEPT !.status = "FAILED"] ELSE s.runs[r]]
    BY <1>1, <1>2, SessionParts
  <2>3. \A r \in DOMAIN s.runs : s.runs[r] \in Run
    BY <1>1, SessionParts
  <2> QED
    BY <2>1, <2>2, <2>3
<1>4. c.runs \in Seq(Run)
  <2>1. Len(s.runs) \in Nat /\ DOMAIN s.runs = 1 .. Len(s.runs)
    BY <1>1, SessionParts
  <2> QED
    BY <1>3, <2>1, SeqOfFunction
<1>5. c \in Session
  <2>1. DOMAIN c = DOMAIN s /\ c = [f \in DOMAIN s |-> c[f]]
    BY <1>1 DEF Failed, Session
  <2> QED
    BY <1>1, <1>2, <1>4, <2>1, SessionParts, SessionAgain, StatusNames
<1> QED
  BY <1>1, <1>2, <1>3, <1>5, OtherStatuses DEF ReviewStatuses, Statuses

LEMMA PreviewedOK ==
  ASSUME NEW s, SessionOK(s), NEW o, BeingBuilt(s, o), o.plan = ActiveResolutions(s)
  PROVE  /\ SessionOK(Previewed(s, o.run, o.plan)) /\ Previewed(s, o.run, o.plan).source = s.source
         /\ Previewed(s, o.run, o.plan).status \in ReviewStatuses
<1> DEFINE run == o.run
           plan == o.plan
           c == Previewed(s, run, plan)
           same == Identical(s, s.runs[run].source, plan)
           verdict == Verdict(s, s.source, plan)
           ended(status) == [s.runs[run] EXCEPT !.status = status, !.plan = plan, !.verdict = verdict]
           runs(status) == [r \in DOMAIN s.runs |-> IF r = run THEN ended(status) ELSE s.runs[r]]
<1>1. /\ s \in Session /\ s.active = run /\ run \in DOMAIN s.runs /\ s.runs[run].source = s.source
      /\ s.runs[run].status # "READY" /\ s.runs[run] \in Run
  BY SessionParts DEF SessionOK, BeingBuilt
<1>2. verdict \in ReviewStatuses /\ (verdict = "READY_FOR_APPROVAL" => OpenBlockers(s, s.source, plan) = {})
  BY DEF Verdict, ReviewStatuses
<1>3. plan \subseteq DOMAIN s.resolutions /\ plan \in SUBSET (1 .. MaxResolutions)
  BY <1>1, Plans DEF SessionOK
<1>4. ASSUME NEW status \in RunStatuses
      PROVE  /\ EndRun(s, run, status, plan) = runs(status)
             /\ ended(status) \in Run /\ ended(status).status = status /\ ended(status).plan = plan
             /\ ended(status).verdict = verdict /\ ended(status).source = s.source
             /\ runs(status) \in Seq(Run) /\ Len(runs(status)) = Len(s.runs)
  <2>1. /\ ended(status) \in Run /\ ended(status).status = status /\ ended(status).plan = plan
        /\ ended(status).verdict = verdict /\ ended(status).source = s.source
    BY <1>1, <1>2, <1>3 DEF Run
  <2>2. EndRun(s, run, status, plan) = runs(status)
    BY <1>1, SessionParts DEF EndRun
  <2> HIDE DEF ended
  <2>3. \A r \in DOMAIN s.runs : runs(status)[r] \in Run
    BY <1>1, <2>1, SessionParts
  <2>4. Len(s.runs) \in Nat /\ DOMAIN s.runs = 1 .. Len(s.runs)
    BY <1>1, SessionParts
  <2>5. runs(status) \in Seq(Run) /\ Len(runs(status)) = Len(s.runs)
    <3>1. runs(status) \in [1 .. Len(s.runs) -> Run]
      BY <2>3, <2>4
    <3> HIDE DEF runs
    <3> QED
      BY <2>4, <3>1, SeqDef
  <2> QED
    BY <2>1, <2>2, <2>5
<1> HIDE DEF ended
\* Whatever the run ends as, what the finished runs say stays true.
<1>5. ASSUME NEW status \in RunStatuses, NEW d, d.runs = runs(status), d.resolutions = s.resolutions
      PROVE  Truthful(d)
  <2> SUFFICES ASSUME NEW r \in DOMAIN s.runs, d.runs[r].status = "READY"
               PROVE  /\ d.runs[r].plan \subseteq DOMAIN d.resolutions
                      /\ d.runs[r].verdict = Verdict(d, d.runs[r].source, d.runs[r].plan)
    BY <1>5 DEF Truthful
  <2>1. CASE r = run
    BY <1>1, <1>3, <1>4, <1>5, <2>1, SameResolutions
  <2>2. CASE r # run
    BY <1>5, <2>2, SameResolutions DEF SessionOK, Truthful
  <2> QED
    BY <2>1, <2>2
<1>6. CASE same = {}
  <2>1. /\ c.runs = runs("READY") /\ c.status = verdict /\ c.source = s.source /\ c.active = s.active
        /\ c.resolutions = s.resolutions /\ DOMAIN c = DOMAIN s /\ c = [f \in DOMAIN s |-> c[f]]
    <3>1. c = [s EXCEPT !.runs = runs("READY"), !.status = verdict]
      BY <1>1, <1>4, <1>6 DEF Previewed, RunStatuses
    <3> HIDE DEF c, runs, verdict
    <3> QED
      BY <1>1, <3>1 DEF Session
  <2>2. c.active \in 0 .. MaxRuns /\ c.status \in Statuses /\ "READY" \in RunStatuses
    BY <1>1, <1>2, <2>1, SessionParts, StatusNames DEF RunStatuses
  <2>3. c \in Session
    <3>1. runs("READY") \in Seq(Run)
      BY <1>4, <2>2
    <3> HIDE DEF c, runs, verdict
    <3> QED
      BY <1>1, <2>1, <2>2, <3>1, SessionParts, SessionAgain
  <2>4. Truthful(c)
    BY <1>5, <2>1, <2>2
  <2>0. /\ c.active \in DOMAIN c.runs /\ c.runs[c.active] = ended("READY")
        /\ ended("READY").status = "READY" /\ ended("READY").source = s.source /\ ended("READY").plan = plan
    BY <1>1, <1>4, <2>1, <2>2
  <2>5. Shown(c)
    BY <2>1, <2>0 DEF Shown
  <2>6. Current(c)
    <3>1. ActiveResolutions(c) = plan
      BY <2>1, SameResolutions
    <3>2. OpenBlockers(c, c.source, plan) = OpenBlockers(s, s.source, plan)
      BY <2>1, SameResolutions
    <3> QED
      BY <1>2, <2>1, <2>0, <3>1, <3>2 DEF Current
  <2>7. Len(c.runs) <= MaxRuns /\ Len(c.resolutions) <= MaxResolutions
    BY <1>4, <2>1, <2>2 DEF SessionOK
  <2> QED
    BY <1>2, <2>1, <2>3, <2>4, <2>5, <2>6, <2>7 DEF SessionOK
<1>7. CASE same # {}
  <2> DEFINE first == CHOOSE r \in same : \A x \in same : r <= x
  <2>1. first \in same
    <3>1. same \subseteq Nat /\ same # {}
      BY <1>1, <1>7, SessionParts DEF Identical
    <3> HIDE DEF same
    <3>2. \E r \in same : \A x \in same : ~ (<<x, r>> \in OpToRel(<, Nat))
      BY <3>1, NatLessThanWellFounded, WFMin
    <3>3. PICK r \in same : \A x \in same : ~ (x < r)
      BY <3>1, <3>2 DEF OpToRel
    <3>4. r \in Nat /\ \A x \in same : r <= x
      BY <3>1, <3>3
    <3> QED
      BY <3>4
  <2>2. /\ first \in DOMAIN s.runs /\ s.runs[first].status = "READY" /\ s.runs[first].source = s.source
        /\ s.runs[first].plan = plan /\ s.runs[first].verdict = verdict /\ first # run
    BY <1>1, <2>1 DEF Identical, SessionOK, Truthful
  <2>3. "CANCELLED" \in RunStatuses
    BY DEF RunStatuses
  <2>4. /\ c.runs = runs("CANCELLED") /\ c.status = verdict /\ c.source = s.source /\ c.active = first
        /\ c.resolutions = s.resolutions /\ DOMAIN c = DOMAIN s /\ c = [f \in DOMAIN s |-> c[f]]
    <3>1. c = [s EXCEPT !.runs = runs("CANCELLED"), !.status = s.runs[first].verdict, !.active = first]
      BY <1>1, <1>4, <1>7, <2>3 DEF Previewed
    <3> HIDE DEF c, runs, verdict, first
    <3> QED
      BY <1>1, <2>2, <3>1 DEF Session
  <2>5. c.runs[first] = s.runs[first] /\ DOMAIN c.runs = DOMAIN s.runs
    <3> HIDE DEF c, first
    <3> QED
      BY <2>2, <2>4
  <2>6. c \in Session
    <3>1. runs("CANCELLED") \in Seq(Run)
      BY <1>4, <2>3
    <3>2. first \in 0 .. MaxRuns
      BY <1>1, <2>2, SessionParts, ConstantsAssumption DEF SessionOK
    <3> HIDE DEF c, runs, verdict, first
    <3> QED
      BY <1>1, <1>2, <2>4, <3>1, <3>2, SessionParts, SessionAgain, StatusNames
  <2>7. Truthful(c)
    BY <1>5, <2>3, <2>4
  <2> HIDE DEF c, first, verdict, runs
  <2>8. Shown(c)
    BY <2>2, <2>4, <2>5 DEF Shown
  <2>9. Current(c)
    <3>1. ActiveResolutions(c) = plan
      BY <2>4, SameResolutions
    <3>2. OpenBlockers(c, c.source, plan) = OpenBlockers(s, s.source, plan)
      BY <2>4, SameResolutions
    <3> QED
      BY <1>2, <2>2, <2>4, <2>5, <3>1, <3>2 DEF Current
  <2>10. Len(c.runs) <= MaxRuns /\ Len(c.resolutions) <= MaxResolutions
    BY <1>4, <2>3, <2>4 DEF SessionOK
  <2> QED
    BY <1>2, <2>4, <2>6, <2>7, <2>8, <2>9, <2>10 DEF SessionOK, c, verdict
<1> QED
  BY <1>6, <1>7

-----------------------------------------------------------------------------
(* What a step of one thread leaves of the others. *)

LEMMA RequestParts ==
  ASSUME NEW o \in Request
  PROVE  /\ o.kind \in Kinds /\ o.stage \in Stages /\ o.w \in 0 .. MaxWorkspaces
         /\ o.arg \in Sources \cup Resolution \cup {NoArg} /\ o.run \in 0 .. MaxRuns
         /\ o.plan \in SUBSET (1 .. MaxResolutions) /\ o.todo \in SUBSET Workspaces
BY DEF Request

\* A request is a request again, whatever of it is replaced.
LEMMA RequestAgain ==
  ASSUME NEW o \in Request, NEW c, DOMAIN c = DOMAIN o, c = [f \in DOMAIN o |-> c[f]],
         c.kind \in Kinds, c.stage \in Stages, c.w \in 0 .. MaxWorkspaces,
         c.arg \in Sources \cup Resolution \cup {NoArg}, c.run \in 0 .. MaxRuns,
         c.plan \in SUBSET (1 .. MaxResolutions), c.todo \in SUBSET Workspaces
  PROVE  c \in Request
BY DEF Request

LEMMA IdleRequest == Idle \in Request /\ \A s, stored : RequestOK(Idle, s, stored)
BY ConstantsAssumption DEF Idle, Request, Kinds, Stages, RequestOK, PreviewStages

\* A request stays sound as long as its session is there, what it has rechecked
\* holds, and what it builds is not taken away.
LEMMA RequestKept ==
  ASSUME NEW o, NEW s, NEW stored, RequestOK(o, s, stored), NEW s2, NEW stored2,
         stored \subseteq stored2, s2.status # "ABSENT",
         o.stage = "write" => Recheck(s2, o), o.stage \in PreviewStages => BeingBuilt(s2, o)
  PROVE  RequestOK(o, s2, stored2)
BY DEF RequestOK

\* Thread t turns to request o, and no file changes.
LEMMA TurnsTo ==
  ASSUME ReviewInv, NEW t \in Threads, NEW o \in Request,
         op' = [op EXCEPT ![t] = o], UNCHANGED <<disk, hot>>,
         vault \subseteq vault', vault' \subseteq Sources,
         creator' \in Threads \cup {NoThread}, writer' \in [Workspaces -> Threads \cup {NoThread}],
         \A u \in Threads \ {t}, w \in Workspaces : writer[w] = u => writer'[w] = u,
         RequestOK(o, disk[o.w], vault'),
         o.stage \in {"write", "rows", "undo"} => writer'[o.w] = t,
         o.stage \in PreviewStages => op[t].stage \in PreviewStages /\ o.w = op[t].w
  PROVE  ReviewInv'
<1>1. op \in [Threads -> Request] /\ op' \in [Threads -> Request] /\ op'[t] = o
      /\ \A u \in Threads \ {t} : op'[u] = op[u]
  BY DEF ReviewInv, TypeOK
<1>2. TypeOK'
  BY <1>1 DEF ReviewInv, TypeOK
<1>3. \A w \in Workspaces : SessionOK(disk'[w]) /\ (disk'[w].source # NoSource => disk'[w].source \in vault')
  BY DEF ReviewInv
<1>4. ASSUME NEW u \in Threads PROVE RequestOK(op'[u], disk'[op'[u].w], vault')
  <2>1. CASE u = t
    BY <1>1, <2>1
  <2>2. CASE u # t
    <3>1. RequestOK(op[u], disk[op[u].w], vault)
      BY DEF ReviewInv
    <3>2. RequestOK(op[u], disk[op[u].w], vault')
      BY <3>1 DEF RequestOK
    <3> QED
      BY <1>1, <2>2, <3>2
  <2> QED
    BY <2>1, <2>2
<1>5. HoldsLock'
  <2> SUFFICES ASSUME NEW u \in Threads, op'[u].stage \in {"write", "rows", "undo"} PROVE writer'[op'[u].w] = u
    BY DEF HoldsLock
  <2>1. CASE u # t
    <3>1. writer[op[u].w] = u /\ op[u].w \in Workspaces
      BY <1>1, <2>1 DEF ReviewInv, HoldsLock, RequestOK
    <3> QED
      BY <1>1, <2>1, <3>1
  <2> QED
    BY <1>1, <2>1
<1>6. OneBuilder'
  BY <1>1 DEF ReviewInv, OneBuilder
<1> QED
  BY <1>2, <1>3, <1>4, <1>5, <1>6 DEF ReviewInv

\* Thread t ends or goes on, and the file w holds another session from now on.
LEMMA Writes ==
  ASSUME ReviewInv, NEW t \in Threads, NEW w \in Workspaces,
         op' = [op EXCEPT ![t] = op'[t]], op'[t] \in Request,
         disk' = [disk EXCEPT ![w] = disk'[w]], hot' = hot, vault' = vault,
         creator' \in Threads \cup {NoThread}, writer' \in [Workspaces -> Threads \cup {NoThread}],
         \A u \in Threads \ {t}, x \in Workspaces : writer[x] = u => writer'[x] = u,
         SessionOK(disk'[w]), disk'[w].status # "ABSENT",
         disk'[w].source # NoSource => disk'[w].source \in vault,
         \A u \in Threads \ {t} : op[u].w = w =>
           /\ op[u].stage = "write" => Recheck(disk'[w], op[u])
           /\ op[u].stage \in PreviewStages => BeingBuilt(disk'[w], op[u]),
         RequestOK(op'[t], disk'[op'[t].w], vault),
         op'[t].stage \notin {"write", "rows", "undo"},
         op'[t].stage \in PreviewStages =>
           \A u \in Threads \ {t} : op[u].stage \in PreviewStages => op[u].w # op'[t].w
  PROVE  ReviewInv'
<1> DEFINE s == disk'[w]
           o == op'[t]
<1>1. op \in [Threads -> Request] /\ op' \in [Threads -> Request]
      /\ \A u \in Threads \ {t} : op'[u] = op[u]
  BY DEF ReviewInv, TypeOK
<1>2. disk' \in [Workspaces -> Session] /\ \A x \in Workspaces \ {w} : disk'[x] = disk[x]
  BY DEF ReviewInv, TypeOK, SessionOK
<1>3. TypeOK'
  BY <1>1, <1>2 DEF ReviewInv, TypeOK
<1>4. \A x \in Workspaces : SessionOK(disk'[x]) /\ (disk'[x].source # NoSource => disk'[x].source \in vault')
  BY <1>2 DEF ReviewInv
<1>5. ASSUME NEW u \in Threads PROVE RequestOK(op'[u], disk'[op'[u].w], vault')
  <2>1. CASE u = t
    BY <1>1, <2>1
  <2>2. CASE u # t
    <3>1. RequestOK(op[u], disk[op[u].w], vault)
      BY DEF ReviewInv
    <3>2. CASE op[u].w = w
      <4> HIDE DEF s
      <4>1. RequestOK(op[u], s, vault)
        BY <2>2, <3>1, <3>2, RequestKept DEF s
      <4>2. disk'[op'[u].w] = s /\ op'[u] = op[u] /\ vault' = vault
        BY <1>1, <2>2, <3>2 DEF s
      <4> QED
        BY <4>1, <4>2
    <3>3. CASE op[u].w # w /\ op[u].w \in Workspaces
      BY <1>1, <1>2, <2>2, <3>1, <3>3
    <3>4. CASE op[u].w \notin Workspaces
      BY <1>1, <2>2, <3>1, <3>4 DEF RequestOK, PreviewStages
    <3> QED
      BY <3>2, <3>3, <3>4
  <2> QED
    BY <2>1, <2>2
<1>6. HoldsLock'
  <2> SUFFICES ASSUME NEW u \in Threads, op'[u].stage \in {"write", "rows", "undo"} PROVE writer'[op'[u].w] = u
    BY DEF HoldsLock
  <2>1. u # t
    BY <1>1
  <2>2. writer[op[u].w] = u /\ op[u].w \in Workspaces
    BY <1>1, <2>1 DEF ReviewInv, HoldsLock, RequestOK
  <2> QED
    BY <1>1, <2>1, <2>2
<1>7. OneBuilder'
  BY <1>1 DEF ReviewInv, OneBuilder
<1> QED
  BY <1>3, <1>4, <1>5, <1>6, <1>7 DEF ReviewInv

-----------------------------------------------------------------------------
(* The steps. *)

LEMMA OfThread ==
  ASSUME ReviewInv, NEW t \in Threads
  PROVE  /\ op[t] \in Request /\ RequestOK(op[t], disk[op[t].w], vault)
         /\ op[t].stage \in {"write", "rows", "undo"} => writer[op[t].w] = t
         /\ DOMAIN op = Threads /\ DOMAIN writer = Workspaces /\ DOMAIN disk = Workspaces
         /\ creator \in Threads \cup {NoThread} /\ vault \subseteq Sources
         /\ writer \in [Workspaces -> Threads \cup {NoThread}]
BY DEF ReviewInv, TypeOK, HoldsLock

\* Ends: a request that is answered leaves nothing behind.
LEMMA EndsKeeps ==
  ASSUME ReviewInv, NEW t \in Threads, Ends(t), UNCHANGED <<disk, hot, vault, writer>>,
         creator' \in Threads \cup {NoThread}
  PROVE  ReviewInv'
BY OfThread, IdleRequest, TurnsTo DEF Ends, Idle, PreviewStages

\* A request that goes on to another stage is a request.
LEMMA Staged ==
  ASSUME NEW o \in Request, NEW stage \in Stages
  PROVE  LET c == [o EXCEPT !.stage = stage] IN
         /\ c \in Request /\ c.stage = stage /\ c.kind = o.kind /\ c.w = o.w /\ c.arg = o.arg
         /\ c.run = o.run /\ c.plan = o.plan /\ c.todo = o.todo
BY DEF Request

\* Recheck, BeingBuilt and the effect look at nothing but these.
LEMMA SameRequest ==
  ASSUME NEW o, NEW c, c.kind = o.kind, c.arg = o.arg, c.run = o.run, c.plan = o.plan
  PROVE  /\ \A s : Recheck(s, c) <=> Recheck(s, o)
         /\ \A s : BeingBuilt(s, o) /\ (c.stage # "read" => c.plan = ActiveResolutions(s)) => BeingBuilt(s, c)
BY DEF Recheck, BeingBuilt

LEMMA BeginCreateKeeps == ASSUME ReviewInv, NEW t \in Threads, BeginCreate(t) PROVE ReviewInv'
<1> DEFINE stage == IF Files = {} THEN "file" ELSE "scan"
           o == [Idle EXCEPT !.kind = "create", !.todo = Files, !.stage = stage]
<1>1. /\ o.kind = "create" /\ o.stage \in {"file", "scan"} /\ o.w = 0 /\ o.arg = NoArg /\ o.run = 0
      /\ o.plan = {} /\ o.todo = Files /\ DOMAIN o = DOMAIN Idle /\ o = [f \in DOMAIN Idle |-> o[f]]
  BY DEF Idle
<1>2. op' = [op EXCEPT ![t] = o] /\ creator' = t /\ UNCHANGED <<disk, writer, hot, vault>>
  BY DEF BeginCreate
<1> HIDE DEF o
<1>3. o \in Request
  BY <1>1, IdleRequest, RequestAgain, ConstantsAssumption DEF Kinds, Stages, Files
<1>4. RequestOK(o, disk[o.w], vault')
  BY <1>1, <1>2 DEF RequestOK, Kinds, PreviewStages
<1> QED
  BY <1>1, <1>2, <1>3, <1>4, OfThread, TurnsTo DEF PreviewStages

LEMMA BeginKeeps ==
  ASSUME ReviewInv, NEW t \in Threads, NEW w \in Workspaces, NEW kind, NEW arg, Begin(t, kind, w, arg),
         \/ kind \in {"preview", "reject"} /\ arg = NoArg
         \/ kind = "upload" /\ arg \in Sources
         \/ kind = "resolve" /\ arg \in Resolution
  PROVE  ReviewInv'
<1> DEFINE o == [Idle EXCEPT !.kind = kind, !.w = w, !.arg = arg, !.todo = Files, !.stage = "scan"]
<1>1. /\ o.kind = kind /\ o.stage = "scan" /\ o.w = w /\ o.arg = arg /\ o.run = 0
      /\ o.plan = {} /\ o.todo = Files /\ DOMAIN o = DOMAIN Idle /\ o = [f \in DOMAIN Idle |-> o[f]]
  BY DEF Idle
<1>2. op' = [op EXCEPT ![t] = o] /\ UNCHANGED <<disk, writer, hot, vault, creator>> /\ disk[w].status # "ABSENT"
  BY DEF Begin
<1> HIDE DEF o
<1>3. o \in Request
  BY <1>1, IdleRequest, RequestAgain, ConstantsAssumption DEF Kinds, Stages, Files, Workspaces
<1>4. RequestOK(o, disk[o.w], vault')
  BY <1>1, <1>2 DEF RequestOK, Kinds, PreviewStages
<1> QED
  BY <1>1, <1>2, <1>3, <1>4, OfThread, TurnsTo DEF PreviewStages

LEMMA ScanFileKeeps == ASSUME ReviewInv, NEW t \in Threads, ScanFile(t) PROVE ReviewInv'
<1> DEFINE rest == op[t].todo \ {NextFile(t)}
           stage == IF rest = {} THEN AfterScan(op[t].kind) ELSE "scan"
           o == [op[t] EXCEPT !.todo = rest, !.stage = stage]
<1>1. op[t] \in Request /\ RequestOK(op[t], disk[op[t].w], vault) /\ op[t].stage = "scan"
  BY OfThread DEF ScanFile
<1>2. /\ o.kind = op[t].kind /\ o.stage = stage /\ o.w = op[t].w /\ o.arg = op[t].arg /\ o.run = op[t].run
      /\ o.plan = op[t].plan /\ o.todo = rest /\ DOMAIN o = DOMAIN op[t] /\ o = [f \in DOMAIN op[t] |-> o[f]]
  BY <1>1 DEF Request
<1>3. op' = [op EXCEPT ![t] = o] /\ UNCHANGED <<disk, writer, hot, vault, creator>>
  BY OfThread DEF ScanFile
<1>4. stage \in {"file", "store", "lock", "scan"} /\ stage \in Stages
      /\ (stage = "file" => o.kind = "create") /\ (stage = "store" => o.kind = "upload")
      /\ (stage = "lock" => o.kind \notin {"create", "upload"})
  BY <1>2 DEF AfterScan, Stages
<1> HIDE DEF o, stage
<1>5. o \in Request
  BY <1>1, <1>2, <1>4, RequestParts, RequestAgain
<1>6. RequestOK(o, disk[o.w], vault')
  BY <1>1, <1>2, <1>3, <1>4 DEF RequestOK, Kinds, PreviewStages
<1> QED
  BY <1>2, <1>3, <1>4, <1>5, <1>6, OfThread, TurnsTo DEF PreviewStages

LEMMA StoreSourceKeeps == ASSUME ReviewInv, NEW t \in Threads, StoreSource(t) PROVE ReviewInv'
<1> DEFINE o == [op[t] EXCEPT !.stage = "lock"]
<1>1. op[t] \in Request /\ RequestOK(op[t], disk[op[t].w], vault) /\ op[t].stage = "store"
  BY OfThread DEF StoreSource
<1>2. /\ o \in Request /\ o.stage = "lock" /\ o.kind = op[t].kind /\ o.w = op[t].w /\ o.arg = op[t].arg
  BY <1>1, Staged DEF Stages
<1>3. op' = [op EXCEPT ![t] = o] /\ UNCHANGED <<disk, writer, hot, creator>> /\ vault' = vault \cup {op[t].arg}
  BY OfThread DEF StoreSource, Goto
<1> HIDE DEF o
<1>4. vault' \subseteq Sources /\ RequestOK(o, disk[o.w], vault')
  BY <1>1, <1>2, <1>3, OfThread DEF RequestOK, Kinds, PreviewStages
<1> QED
  BY <1>2, <1>3, <1>4, OfThread, TurnsTo DEF PreviewStages

LEMMA TakeLockKeeps == ASSUME ReviewInv, NEW t \in Threads, TakeLock(t) PROVE ReviewInv'
<1> DEFINE o == [op[t] EXCEPT !.stage = "write"]
<1>1. op[t] \in Request /\ RequestOK(op[t], disk[op[t].w], vault) /\ op[t].stage = "lock"
      /\ Recheck(disk[op[t].w], op[t]) /\ writer[op[t].w] = NoThread
  BY OfThread DEF TakeLock
<1>2. /\ o \in Request /\ o.stage = "write" /\ o.kind = op[t].kind /\ o.w = op[t].w /\ o.arg = op[t].arg
      /\ o.run = op[t].run /\ o.plan = op[t].plan
  BY <1>1, Staged DEF Stages
<1>3. op' = [op EXCEPT ![t] = o] /\ writer' = [writer EXCEPT ![op[t].w] = t] /\ UNCHANGED <<disk, hot, vault, creator>>
  BY OfThread DEF TakeLock, Goto, Locks
<1> HIDE DEF o
<1>4. op[t].w \in Workspaces /\ writer'[o.w] = t /\ writer' \in [Workspaces -> Threads \cup {NoThread}]
      /\ \A u \in Threads \ {t}, w \in Workspaces : writer[w] = u => writer'[w] = u
  BY <1>1, <1>2, <1>3, OfThread, ConstantsAssumption DEF RequestOK
<1>5. RequestOK(o, disk[o.w], vault')
  BY <1>1, <1>2, <1>3, SameRequest DEF RequestOK, Kinds, PreviewStages
<1> QED
  BY <1>2, <1>3, <1>4, <1>5, OfThread, TurnsTo DEF PreviewStages

LEMMA ReadPlanKeeps == ASSUME ReviewInv, NEW t \in Threads, ReadPlan(t) PROVE ReviewInv'
<1> DEFINE plan == ActiveResolutions(disk[op[t].w])
           o == [op[t] EXCEPT !.stage = "build", !.plan = plan]
<1>1. op[t] \in Request /\ RequestOK(op[t], disk[op[t].w], vault) /\ op[t].stage = "read"
  BY OfThread DEF ReadPlan
<1>2. op[t].w \in Workspaces /\ BeingBuilt(disk[op[t].w], op[t])
  BY <1>1 DEF RequestOK, PreviewStages
<1>3. plan \in SUBSET (1 .. MaxResolutions)
  BY <1>2, Plans DEF ReviewInv, SessionOK
<1>4. /\ o.kind = op[t].kind /\ o.stage = "build" /\ o.w = op[t].w /\ o.arg = op[t].arg /\ o.run = op[t].run
      /\ o.plan = plan /\ o.todo = op[t].todo /\ DOMAIN o = DOMAIN op[t] /\ o = [f \in DOMAIN op[t] |-> o[f]]
  BY <1>1 DEF Request
<1>5. op' = [op EXCEPT ![t] = o] /\ UNCHANGED <<disk, writer, hot, vault, creator>>
  BY OfThread DEF ReadPlan
<1> HIDE DEF o, plan
<1>6. o \in Request
  BY <1>1, <1>3, <1>4, RequestParts, RequestAgain DEF Stages
<1>7. BeingBuilt(disk[o.w], o)
  BY <1>2, <1>4 DEF BeingBuilt, plan
<1>8. RequestOK(o, disk[o.w], vault')
  BY <1>1, <1>4, <1>5, <1>7 DEF RequestOK, Kinds, PreviewStages
<1> QED
  BY <1>1, <1>4, <1>5, <1>6, <1>8, OfThread, TurnsTo DEF PreviewStages

\* A request that takes the write lock of its file for the next stage.
LEMMA LocksFor ==
  ASSUME ReviewInv, NEW t \in Threads, NEW stage \in {"rows", "undo"},
         op[t].stage = IF stage = "rows" THEN "build" ELSE "fail",
         Locks(t, op[t].w), writer[op[t].w] = NoThread, Goto(t, stage), UNCHANGED <<disk, hot, vault, creator>>
  PROVE  ReviewInv'
<1> DEFINE o == [op[t] EXCEPT !.stage = stage]
<1>1. op[t] \in Request /\ RequestOK(op[t], disk[op[t].w], vault) /\ stage \in Stages
  BY OfThread DEF Stages
<1>2. /\ o \in Request /\ o.stage = stage /\ o.kind = op[t].kind /\ o.w = op[t].w /\ o.arg = op[t].arg
      /\ o.run = op[t].run /\ o.plan = op[t].plan
  BY <1>1, Staged
<1>3. op' = [op EXCEPT ![t] = o] /\ writer' = [writer EXCEPT ![op[t].w] = t]
  BY OfThread DEF Goto, Locks
<1> HIDE DEF o
<1>4. op[t].w \in Workspaces /\ writer'[o.w] = t /\ writer' \in [Workspaces -> Threads \cup {NoThread}]
      /\ \A u \in Threads \ {t}, w \in Workspaces : writer[w] = u => writer'[w] = u
  BY <1>1, <1>2, <1>3, OfThread, ConstantsAssumption DEF RequestOK
<1>5. stage = "rows" => BeingBuilt(disk[o.w], o)
  BY <1>1, <1>2 DEF RequestOK, PreviewStages, BeingBuilt
<1>6. RequestOK(o, disk[o.w], vault')
  BY <1>1, <1>2, <1>5 DEF RequestOK, Kinds, PreviewStages
<1> QED
  BY <1>2, <1>3, <1>4, <1>6, OfThread, TurnsTo DEF PreviewStages

\* A preview that goes to its except branch.
LEMMA GoesToFail ==
  ASSUME ReviewInv, NEW t \in Threads, op[t].stage \in {"read", "build", "rows", "answer"}, Goto(t, "fail"),
         UNCHANGED <<disk, hot, vault>>, creator' \in Threads \cup {NoThread},
         writer' \in [Workspaces -> Threads \cup {NoThread}],
         \A u \in Threads \ {t}, w \in Workspaces : writer[w] = u => writer'[w] = u
  PROVE  ReviewInv'
<1> DEFINE o == [op[t] EXCEPT !.stage = "fail"]
<1>1. op[t] \in Request /\ RequestOK(op[t], disk[op[t].w], vault)
  BY OfThread
<1>2. /\ o \in Request /\ o.stage = "fail" /\ o.kind = op[t].kind /\ o.w = op[t].w /\ o.arg = op[t].arg
  BY <1>1, Staged DEF Stages
<1>3. op' = [op EXCEPT ![t] = o]
  BY OfThread DEF Goto
<1> HIDE DEF o
<1>4. RequestOK(o, disk[o.w], vault')
  BY <1>1, <1>2 DEF RequestOK, Kinds, PreviewStages
<1> QED
  BY <1>2, <1>3, <1>4, OfThread, TurnsTo DEF PreviewStages

LEMMA BuildFailsKeeps == ASSUME ReviewInv, NEW t \in Threads, BuildFails(t) PROVE ReviewInv'
<1>1. op[t].w \in Workspaces
  BY OfThread DEF BuildFails, RequestOK
<1>2. /\ writer' \in [Workspaces -> Threads \cup {NoThread}]
      /\ \A u \in Threads \ {t}, w \in Workspaces : writer[w] = u => writer'[w] = u
  BY <1>1, OfThread DEF BuildFails
<1> QED
  BY <1>2, OfThread, GoesToFail DEF BuildFails

LEMMA AnswerKeeps == ASSUME ReviewInv, NEW t \in Threads, Answer(t) PROVE ReviewInv'
<1> DEFINE rest == op[t].todo \ {NextFile(t)}
           o == [op[t] EXCEPT !.todo = rest]
<1>1. op[t] \in Request /\ RequestOK(op[t], disk[op[t].w], vault) /\ op[t].stage = "answer"
  BY OfThread DEF Answer
<1>2. CASE rest = {}
  BY <1>2, OfThread, EndsKeeps DEF Answer
<1>3. CASE rest # {}
  <2>1. /\ o.kind = op[t].kind /\ o.stage = "answer" /\ o.w = op[t].w /\ o.arg = op[t].arg /\ o.run = op[t].run
        /\ o.plan = op[t].plan /\ o.todo = rest /\ DOMAIN o = DOMAIN op[t] /\ o = [f \in DOMAIN op[t] |-> o[f]]
    BY <1>1 DEF Request
  <2>2. op' = [op EXCEPT ![t] = o] /\ UNCHANGED <<disk, writer, hot, vault, creator>>
    BY <1>3, OfThread DEF Answer
  <2> HIDE DEF o
  <2>3. o \in Request
    BY <1>1, <2>1, RequestParts, RequestAgain
  <2>4. RequestOK(o, disk[o.w], vault')
    BY <1>1, <2>1, <2>2 DEF RequestOK, Kinds, PreviewStages
  <2> QED
    BY <2>1, <2>2, <2>3, <2>4, OfThread, TurnsTo DEF PreviewStages
<1> QED
  BY <1>2, <1>3

LEMMA BusyTimeoutKeeps == ASSUME ReviewInv, NEW t \in Threads, BusyTimeout(t) PROVE ReviewInv'
<1>1. creator' \in Threads \cup {NoThread} /\ UNCHANGED <<disk, writer, hot, vault>>
  BY OfThread DEF BusyTimeout, FreesCreator
<1>2. CASE op[t].stage = "build"
  BY <1>1, <1>2, OfThread, GoesToFail DEF BusyTimeout
<1>3. CASE op[t].stage # "build"
  BY <1>1, <1>3, EndsKeeps DEF BusyTimeout
<1> QED
  BY <1>2, <1>3

LEMMA CreateFileKeeps == ASSUME ReviewInv, NEW t \in Threads, CreateFile(t) PROVE ReviewInv'
<1>1. PICK w \in Workspaces \ Files :
        /\ disk' = [disk EXCEPT ![w].status = "EMPTY"]
        /\ op' = [op EXCEPT ![t].stage = "lock", ![t].w = w]
  BY DEF CreateFile
<1> DEFINE s == [disk[w] EXCEPT !.status = "EMPTY"]
           o == [op[t] EXCEPT !.stage = "lock", !.w = w]
<1>2. op[t] \in Request /\ RequestOK(op[t], disk[op[t].w], vault) /\ op[t].stage = "file" /\ SessionOK(disk[w])
      /\ disk[w].status = "ABSENT" /\ (disk[w].source # NoSource => disk[w].source \in vault)
  BY <1>1, OfThread DEF CreateFile, Files, ReviewInv
<1>3. s.status = "EMPTY" /\ s.source = disk[w].source /\ s.active = disk[w].active /\ s.runs = disk[w].runs
      /\ s.resolutions = disk[w].resolutions /\ s \in Session
  BY <1>2 DEF SessionOK, Session, Statuses
<1>4. disk' = [disk EXCEPT ![w] = s] /\ op' = [op EXCEPT ![t] = o] /\ disk'[w] = s /\ op'[t] = o
  BY <1>1, OfThread
<1>5. /\ o.kind = op[t].kind /\ o.stage = "lock" /\ o.w = w /\ o.arg = op[t].arg /\ o.run = op[t].run
      /\ o.plan = op[t].plan /\ o.todo = op[t].todo /\ DOMAIN o = DOMAIN op[t] /\ o = [f \in DOMAIN op[t] |-> o[f]]
  BY <1>2 DEF Request
<1> HIDE DEF s, o
<1>6. SessionOK(s)
  BY <1>2, <1>3, OtherStatuses DEF ReviewStatuses, Statuses
<1>7. o \in Request
  BY <1>2, <1>5, RequestParts, RequestAgain, ConstantsAssumption DEF Stages, Workspaces
<1>8. RequestOK(o, disk'[o.w], vault)
  BY <1>1, <1>2, <1>3, <1>4, <1>5 DEF RequestOK, Kinds, PreviewStages
\* Nobody else stands at a file that was not there.
<1>9. ASSUME NEW u \in Threads \ {t}, op[u].w = w
      PROVE  op[u].stage # "write" /\ op[u].stage \notin PreviewStages
  BY <1>2, <1>9, OfThread DEF RequestOK, PreviewStages
<1>10. /\ hot' = hot /\ vault' = vault /\ s.status # "ABSENT" /\ (s.source # NoSource => s.source \in vault)
       /\ creator' \in Threads \cup {NoThread} /\ writer' \in [Workspaces -> Threads \cup {NoThread}]
       /\ \A u \in Threads \ {t}, x \in Workspaces : writer[x] = u => writer'[x] = u
       /\ o.stage \notin {"write", "rows", "undo"} /\ o.stage \notin PreviewStages
  BY <1>2, <1>3, <1>5, OfThread DEF CreateFile, PreviewStages
<1> QED
  BY <1>1, <1>4, <1>6, <1>7, <1>8, <1>9, <1>10, Writes

\* While t holds the write lock of its file, every other thread stands at the
\* session before a lock, or builds a preview whose session is over.
LEMMA OthersAt ==
  ASSUME ReviewInv, NEW t \in Threads, op[t].stage \in {"write", "rows", "undo"},
         NEW u \in Threads \ {t}, op[u].w = op[t].w
  PROVE  /\ op[u].stage \notin {"write", "rows", "undo"}
         /\ op[u].stage \in PreviewStages => BeingBuilt(disk[op[t].w], op[u]) /\ op[t].stage # "rows"
<1>1. op[u].stage \notin {"write", "rows", "undo"}
  BY OfThread
<1>2. op[u].stage \in PreviewStages => BeingBuilt(disk[op[t].w], op[u])
  BY OfThread DEF RequestOK
<1>3. op[u].stage \in PreviewStages => op[t].stage # "rows"
  BY DEF ReviewInv, OneBuilder, PreviewStages
<1> QED
  BY <1>1, <1>2, <1>3

LEMMA FailCommitKeeps == ASSUME ReviewInv, NEW t \in Threads, FailCommit(t) PROVE ReviewInv'
<1> DEFINE w == op[t].w
           s == Failed(disk[w], op[t].run)
<1>1. op[t] \in Request /\ op[t].stage = "undo" /\ w \in Workspaces /\ SessionOK(disk[w])
      /\ (disk[w].source # NoSource => disk[w].source \in vault) /\ writer[w] = t
  BY OfThread DEF FailCommit, RequestOK, ReviewInv
<1>2. disk' = [disk EXCEPT ![w] = s] /\ op' = [op EXCEPT ![t] = Idle] /\ hot' = hot /\ vault' = vault
      /\ creator' = creator /\ writer' = [writer EXCEPT ![w] = NoThread] /\ disk'[w] = s /\ op'[t] = Idle
  BY <1>1, OfThread DEF FailCommit, Ends, Unlocks
<1>3. /\ SessionOK(s) /\ s.status = "FAILED" /\ s.source = disk[w].source /\ s.resolutions = disk[w].resolutions
      /\ DOMAIN s.runs = DOMAIN disk[w].runs /\ s.active = disk[w].active
      /\ \A r \in DOMAIN s.runs : /\ s.runs[r].source = disk[w].runs[r].source
                                  /\ disk[w].runs[r].status # "READY" => s.runs[r].status # "READY"
  <2>1. s.active = disk[w].active
    BY <1>1 DEF Failed, SessionOK, Session
  <2> QED
    BY <1>1, <2>1, FailedOK
<1> HIDE DEF s
<1>4. ASSUME NEW u \in Threads \ {t}, op[u].w = w
      PROVE  op[u].stage # "write" /\ (op[u].stage \in PreviewStages => BeingBuilt(s, op[u]))
  <2>1. op[u].stage \notin {"write", "rows", "undo"} /\ (op[u].stage \in PreviewStages => BeingBuilt(disk[w], op[u]))
    BY <1>1, <1>4, OthersAt
  <2>2. BeingBuilt(disk[w], op[u]) => BeingBuilt(s, op[u])
    BY <1>3, SameResolutions DEF BeingBuilt
  <2> QED
    BY <2>1, <2>2
<1>5. /\ writer' \in [Workspaces -> Threads \cup {NoThread}] /\ creator' \in Threads \cup {NoThread}
      /\ \A u \in Threads \ {t}, x \in Workspaces : writer[x] = u => writer'[x] = u
      /\ SessionOK(s) /\ s.status # "ABSENT" /\ (s.source # NoSource => s.source \in vault)
  BY <1>1, <1>2, <1>3, OfThread
<1>6. Idle \in Request /\ RequestOK(Idle, disk'[Idle.w], vault) /\ Idle.stage \notin {"write", "rows", "undo"}
      /\ Idle.stage \notin PreviewStages
  BY IdleRequest DEF Idle, PreviewStages
<1> HIDE DEF w
<1>7. RequestOK(op'[t], disk'[op'[t].w], vault)
  BY <1>2, <1>6
<1>8. \A u \in Threads \ {t} : op[u].w = w =>
           /\ op[u].stage = "write" => Recheck(disk'[w], op[u])
           /\ op[u].stage \in PreviewStages => BeingBuilt(disk'[w], op[u])
  BY <1>2, <1>4
<1>9. /\ op' = [op EXCEPT ![t] = op'[t]] /\ op'[t] \in Request
      /\ disk' = [disk EXCEPT ![w] = disk'[w]] /\ hot' = hot /\ vault' = vault
      /\ SessionOK(disk'[w]) /\ disk'[w].status # "ABSENT"
      /\ (disk'[w].source # NoSource => disk'[w].source \in vault)
      /\ op'[t].stage \notin {"write", "rows", "undo"} /\ op'[t].stage \notin PreviewStages
  BY <1>2, <1>5, <1>6
<1> QED
  BY <1>1, <1>5, <1>7, <1>8, <1>9, Writes

LEMMA BuildCommitKeeps == ASSUME ReviewInv, NEW t \in Threads, BuildCommit(t) PROVE ReviewInv'
<1> DEFINE w == op[t].w
           s == Previewed(disk[w], op[t].run, op[t].plan)
           o == [op[t] EXCEPT !.stage = "answer", !.todo = Files]
<1>1. op[t] \in Request /\ op[t].stage = "rows" /\ w \in Workspaces /\ SessionOK(disk[w])
      /\ (disk[w].source # NoSource => disk[w].source \in vault) /\ writer[w] = t
      /\ BeingBuilt(disk[w], op[t]) /\ op[t].plan = ActiveResolutions(disk[w])
      /\ RequestOK(op[t], disk[w], vault)
  BY OfThread DEF BuildCommit, RequestOK, ReviewInv, BeingBuilt, PreviewStages
<1>2. disk' = [disk EXCEPT ![w] = s] /\ op' = [op EXCEPT ![t] = o] /\ hot' = hot /\ vault' = vault
      /\ creator' = creator /\ writer' = [writer EXCEPT ![w] = NoThread] /\ disk'[w] = s /\ op'[t] = o
  BY <1>1, OfThread DEF BuildCommit, Unlocks
<1>3. /\ o.kind = op[t].kind /\ o.stage = "answer" /\ o.w = w /\ o.arg = op[t].arg /\ o.run = op[t].run
      /\ o.plan = op[t].plan /\ o.todo = Files /\ DOMAIN o = DOMAIN op[t] /\ o = [f \in DOMAIN op[t] |-> o[f]]
  BY <1>1 DEF Request
<1>4. SessionOK(s) /\ s.source = disk[w].source /\ s.status \in ReviewStatuses
  BY <1>1, PreviewedOK
<1> HIDE DEF s, o
<1>5. o \in Request
  BY <1>1, <1>3, RequestParts, RequestAgain DEF Stages, Files
<1>6. ASSUME NEW u \in Threads \ {t}, op[u].w = w
      PROVE  op[u].stage # "write" /\ op[u].stage \notin PreviewStages
  BY <1>1, <1>6, OthersAt
<1>7. /\ writer' \in [Workspaces -> Threads \cup {NoThread}] /\ creator' \in Threads \cup {NoThread}
      /\ \A u \in Threads \ {t}, x \in Workspaces : writer[x] = u => writer'[x] = u
      /\ s.status # "ABSENT" /\ (s.source # NoSource => s.source \in vault)
  BY <1>1, <1>2, <1>4, OfThread DEF ReviewStatuses
<1>8. RequestOK(o, disk'[o.w], vault) /\ o.stage \notin {"write", "rows", "undo"} /\ o.stage \notin PreviewStages
  BY <1>1, <1>2, <1>3, <1>7 DEF RequestOK, Kinds, PreviewStages
<1> HIDE DEF w
<1>9. /\ op' = [op EXCEPT ![t] = op'[t]] /\ op'[t] \in Request
      /\ disk' = [disk EXCEPT ![w] = disk'[w]] /\ hot' = hot /\ vault' = vault
      /\ SessionOK(disk'[w]) /\ disk'[w].status # "ABSENT"
      /\ (disk'[w].source # NoSource => disk'[w].source \in vault)
      /\ \A u \in Threads \ {t} : op[u].w = w =>
           /\ op[u].stage = "write" => Recheck(disk'[w], op[u])
           /\ op[u].stage \in PreviewStages => BeingBuilt(disk'[w], op[u])
      /\ RequestOK(op'[t], disk'[op'[t].w], vault)
      /\ op'[t].stage \notin {"write", "rows", "undo"} /\ op'[t].stage \notin PreviewStages
  BY <1>2, <1>4, <1>5, <1>6, <1>7, <1>8
<1> QED
  BY <1>1, <1>7, <1>9, Writes

\* What a transaction makes of a session that passed its second look.
LEMMA EffectOK ==
  ASSUME NEW s, SessionOK(s), s.source # NoSource => s.source \in vault, vault \subseteq Sources,
         NEW o, o.kind \in Kinds \ {"none"}, Recheck(s, o),
         o.kind = "upload" => o.arg \in vault, o.kind = "resolve" => o.arg \in Resolution
  PROVE  /\ SessionOK(Effect(s, o)) /\ Effect(s, o).status # "ABSENT"
         /\ Effect(s, o).source # NoSource => Effect(s, o).source \in vault
         /\ s.status \in {"PREVIEWING", "FAILED", "REJECTED"} => Effect(s, o) = Rejected(s)
<1>1. CASE o.kind = "create"
  <2>1. Effect(s, o) = Drafted(s) /\ s.status = "EMPTY"
    BY <1>1 DEF Effect, Recheck
  <2> QED
    BY <2>1, DraftedOK
<1>2. CASE o.kind = "upload"
  <2>1. Effect(s, o) = Uploaded(s, o.arg) /\ s.status \in {"DRAFT", "UPLOADED"} /\ o.arg \in Sources /\ o.arg \in vault
    BY <1>2 DEF Effect, Recheck
  <2> QED
    BY <2>1, UploadedOK
<1>3. CASE o.kind = "preview"
  <2>1. Effect(s, o) = Claimed(s) /\ CanPreview(s) /\ s.status \in {"UPLOADED"} \cup ReviewStatuses
    BY <1>3 DEF Effect, Recheck, CanPreview
  <2> QED
    BY <2>1, ClaimedOK DEF ReviewStatuses
<1>4. CASE o.kind = "resolve"
  <2>1. Effect(s, o) = Resolved(s, o.arg) /\ CanResolve(s, o.arg) /\ s.status \in ReviewStatuses /\ o.arg \in Resolution
    BY <1>4 DEF Effect, Recheck, CanResolve
  <2> QED
    BY <2>1, ResolvedOK DEF ReviewStatuses
<1>5. CASE o.kind = "reject"
  <2>1. Effect(s, o) = Rejected(s)
    BY <1>5 DEF Effect
  <2> QED
    BY <2>1, RejectedOK
<1> QED
  BY <1>1, <1>2, <1>3, <1>4, <1>5 DEF Kinds

LEMMA CommitKeeps == ASSUME ReviewInv, NEW t \in Threads, Commit(t) PROVE ReviewInv'
<1> DEFINE w == op[t].w
           s == Effect(disk[w], op[t])
           run == Len(disk[w].runs) + 1
           o == IF op[t].kind = "preview" THEN [op[t] EXCEPT !.stage = "read", !.run = run] ELSE Idle
<1>1. op[t] \in Request /\ op[t].stage = "write" /\ w \in Workspaces /\ SessionOK(disk[w])
      /\ (disk[w].source # NoSource => disk[w].source \in vault) /\ writer[w] = t
      /\ Recheck(disk[w], op[t]) /\ RequestOK(op[t], disk[w], vault)
      /\ op[t].kind \in Kinds \ {"none"} /\ vault \subseteq Sources
      /\ (op[t].kind = "upload" => op[t].arg \in vault) /\ (op[t].kind = "resolve" => op[t].arg \in Resolution)
  BY OfThread DEF Commit, RequestOK, ReviewInv
<1>2. disk' = [disk EXCEPT ![w] = s] /\ op' = [op EXCEPT ![t] = o] /\ hot' = hot /\ vault' = vault
      /\ writer' = [writer EXCEPT ![w] = NoThread] /\ disk'[w] = s /\ op'[t] = o
      /\ creator' \in Threads \cup {NoThread}
  BY <1>1, OfThread DEF Commit, Unlocks, FreesCreator, Ends
<1>3. /\ SessionOK(s) /\ s.status # "ABSENT" /\ (s.source # NoSource => s.source \in vault)
      /\ disk[w].status \in {"PREVIEWING", "FAILED", "REJECTED"} => s = Rejected(disk[w])
  BY <1>1, EffectOK
\* A preview meets no other: its session was in review, or just uploaded.
<1>4. op[t].kind = "preview" => /\ s = Claimed(disk[w]) /\ CanPreview(disk[w])
                                /\ disk[w].status \notin {"PREVIEWING", "FAILED", "REJECTED"}
  BY <1>1 DEF Effect, Recheck, CanPreview, ReviewStatuses
<1>5. ASSUME NEW u \in Threads \ {t}, op[u].w = w
      PROVE  /\ op[u].stage # "write"
             /\ op[u].stage \in PreviewStages => BeingBuilt(s, op[u]) /\ op[t].kind # "preview"
  <2>1. op[u].stage \notin {"write", "rows", "undo"} /\ (op[u].stage \in PreviewStages => BeingBuilt(disk[w], op[u]))
    BY <1>1, <1>5, OthersAt
  <2>2. CASE BeingBuilt(disk[w], op[u])
    <3>1. disk[w].status \in {"PREVIEWING", "FAILED", "REJECTED"}
      BY <2>2 DEF BeingBuilt
    <3>2. s = Rejected(disk[w]) /\ op[t].kind # "preview"
      BY <1>3, <1>4, <3>1
    <3> HIDE DEF s
    <3>3. /\ s.status = "REJECTED" /\ s.source = disk[w].source /\ s.resolutions = disk[w].resolutions
          /\ DOMAIN s.runs = DOMAIN disk[w].runs
          /\ \A r \in DOMAIN disk[w].runs :
               /\ s.runs[r].source = disk[w].runs[r].source
               /\ disk[w].runs[r].status # "READY" => s.runs[r].status # "READY"
      BY <1>1, <3>2, RejectedOK
    <3>4. s.active = disk[w].active
      BY <1>1, <3>2 DEF Rejected, SessionOK, Session
    <3>5. BeingBuilt(s, op[u])
      BY <2>2, <3>3, <3>4, SameResolutions DEF BeingBuilt
    <3> QED
      BY <2>1, <3>2, <3>5
  <2> QED
    BY <2>1, <2>2
<1>6. o \in Request /\ RequestOK(o, disk'[o.w], vault) /\ o.stage \notin {"write", "rows", "undo"}
      /\ (o.stage \in PreviewStages => o.w = w /\ op[t].kind = "preview")
  <2>1. CASE op[t].kind # "preview"
    <3>1. o = Idle
      BY <2>1
    <3> QED
      BY <3>1, IdleRequest DEF Idle, PreviewStages
  <2>2. CASE op[t].kind = "preview"
    <3>1. /\ o.kind = "preview" /\ o.stage = "read" /\ o.w = w /\ o.arg = op[t].arg /\ o.run = run
          /\ o.plan = op[t].plan /\ o.todo = op[t].todo /\ DOMAIN o = DOMAIN op[t] /\ o = [f \in DOMAIN op[t] |-> o[f]]
      BY <1>1, <2>2 DEF Request
    <3>2. /\ s.status = "PREVIEWING" /\ run \in DOMAIN s.runs /\ run \in 0 .. MaxRuns
          /\ s.runs[run].source = s.source /\ s.runs[run].status = "RUNNING" /\ s.active = run
      <4>1. s = Claimed(disk[w]) /\ CanPreview(disk[w])
        BY <1>4, <2>2
      <4>2. Claimed(disk[w]).active = run
        BY <1>1 DEF Claimed, SessionOK, Session
      <4> HIDE DEF s
      <4> QED
        BY <1>1, <4>1, <4>2, ClaimedOK
    <3> HIDE DEF o, s, run
    <3>3. o \in Request
      <4>1. op[t] \in Request
        BY <1>1
      <4>2. o.kind \in Kinds /\ o.stage \in Stages /\ o.w \in 0 .. MaxWorkspaces
            /\ o.arg \in Sources \cup Resolution \cup {NoArg} /\ o.run \in 0 .. MaxRuns
            /\ o.plan \in SUBSET (1 .. MaxResolutions) /\ o.todo \in SUBSET Workspaces
        BY <3>1, <3>2, <4>1, RequestParts DEF Stages, Kinds
      <4> QED
        BY <3>1, <4>1, <4>2, RequestAgain
    <3>4. BeingBuilt(s, o)
      BY <3>1, <3>2 DEF BeingBuilt
    <3>5. RequestOK(o, disk'[o.w], vault)
      BY <1>1, <1>2, <1>3, <3>1, <3>4 DEF RequestOK, Kinds, PreviewStages
    <3> QED
      BY <2>2, <3>1, <3>3, <3>5
  <2> QED
    BY <2>1, <2>2
<1> HIDE DEF s, o
<1>7. /\ writer' \in [Workspaces -> Threads \cup {NoThread}]
      /\ \A u \in Threads \ {t}, x \in Workspaces : writer[x] = u => writer'[x] = u
  BY <1>1, <1>2, OfThread
<1> HIDE DEF w
<1>8. /\ op' = [op EXCEPT ![t] = op'[t]] /\ op'[t] \in Request
      /\ disk' = [disk EXCEPT ![w] = disk'[w]] /\ hot' = hot /\ vault' = vault
      /\ SessionOK(disk'[w]) /\ disk'[w].status # "ABSENT"
      /\ (disk'[w].source # NoSource => disk'[w].source \in vault)
      /\ \A u \in Threads \ {t} : op[u].w = w =>
           /\ op[u].stage = "write" => Recheck(disk'[w], op[u])
           /\ op[u].stage \in PreviewStages => BeingBuilt(disk'[w], op[u])
      /\ RequestOK(op'[t], disk'[op'[t].w], vault) /\ op'[t].stage \notin {"write", "rows", "undo"}
  BY <1>2, <1>3, <1>5, <1>6
<1>9. op'[t].stage \in PreviewStages =>
        \A u \in Threads \ {t} : op[u].stage \in PreviewStages => op[u].w # op'[t].w
  BY <1>2, <1>5, <1>6
<1> QED
  BY <1>1, <1>2, <1>7, <1>8, <1>9, Writes

\* What a session offers for approval is what its own source and resolutions say:
\* for any number of threads, workspaces, sources, runs and resolutions, with late
\* failures, rejections of a preview that goes on, and crashes (build_preview,
\* service.py:1475, 1593; record_resolution).
THEOREM ReviewStaysCurrent == Spec => []ReviewIsCurrent
<1>1. Init => ReviewInv
  <2> SUFFICES ASSUME Init PROVE ReviewInv
    OBVIOUS
  <2>1. NoSession \in Session
    BY ConstantsAssumption DEF NoSession, Session, Statuses
  <2>2. SessionOK(NoSession)
    BY <2>1, ConstantsAssumption DEF SessionOK, NoSession, Truthful, Shown, Current, ReviewStatuses
  <2>3. TypeOK
    BY <2>1, IdleRequest, ConstantsAssumption DEF Init, TypeOK
  <2>4. \A w \in Workspaces : SessionOK(disk[w]) /\ (disk[w].source # NoSource => disk[w].source \in vault)
    BY <2>2 DEF Init, NoSession
  <2> QED
    BY <2>3, <2>4, IdleRequest DEF Init, ReviewInv, HoldsLock, OneBuilder, PreviewStages, Idle
<1>2. ReviewInv /\ [Next]_vars => ReviewInv'
  <2> SUFFICES ASSUME ReviewInv, [Next]_vars PROVE ReviewInv'
    OBVIOUS
  <2>1. ASSUME NEW t \in Threads, Arrive(t) PROVE ReviewInv'
    BY <2>1, BeginCreateKeeps, BeginKeeps DEF Arrive
  <2>2. ASSUME NEW t \in Threads, CalmStep(t) PROVE ReviewInv'
    <3>1. CASE ScanRefuses(t) \/ LockRefuses(t)
      <4>1. creator' \in Threads \cup {NoThread}
        BY <3>1, OfThread DEF ScanRefuses, LockRefuses, FreesCreator
      <4> QED
        BY <3>1, <4>1, EndsKeeps DEF ScanRefuses, LockRefuses
    <3>2. CASE BuildRows(t) \/ FailLock(t)
      BY <3>2, LocksFor DEF BuildRows, FailLock
    <3> QED
      BY <2>2, <3>1, <3>2, ScanFileKeeps, CreateFileKeeps, StoreSourceKeeps, TakeLockKeeps, CommitKeeps,
         ReadPlanKeeps, BuildCommitKeeps, BuildFailsKeeps, AnswerKeeps, FailCommitKeeps, BusyTimeoutKeeps
         DEF CalmStep
  <2>3. ASSUME NEW t \in Threads, LateFailure(t) PROVE ReviewInv'
    BY <2>3, OfThread, GoesToFail DEF LateFailure
  <2>4. CASE Crash
    BY <2>4, IdleRequest DEF Crash, ReviewInv, TypeOK, HoldsLock, OneBuilder, PreviewStages, Idle
  <2>5. CASE UNCHANGED vars
    BY <2>5 DEF vars, ReviewInv, TypeOK, HoldsLock, OneBuilder
  <2> QED
    BY <2>1, <2>2, <2>3, <2>4, <2>5 DEF Next, Serve, Step
<1>3. ReviewInv => ReviewIsCurrent
  <2> SUFFICES ASSUME ReviewInv, NEW w \in Workspaces
               PROVE  /\ disk[w].source # NoSource => disk[w].source \in vault
                      /\ Shown(disk[w]) /\ Current(disk[w])
    BY DEF ReviewIsCurrent, EvidenceOfSource, ReadyReflectsResolutions, Shown, Current
  <2> QED
    BY DEF ReviewInv, SessionOK
<1> QED
  BY <1>1, <1>2, <1>3, PTL DEF Spec

-----------------------------------------------------------------------------
(* The rehearsal: the candidate database of a session. *)

Ids == Approved \cup {v.id : v \in Dictionary}

\* What the decisions make of the workbook, whatever is decided later.
Built == {PreviewOf(plan, refs) : plan \in SUBSET DOMAIN decisions, refs \in SUBSET Ids}
BuildStates == [at : {"idle", "answer"}]
                 \cup [at : {"load", "look", "create", "fill"}, run : Nat, ready : BOOLEAN]

SessionStatuses == {"REVIEW_REQUIRED", "READY_FOR_APPROVAL", "FAILED"}

RehearsalShape ==
  /\ sheet \in Sheets /\ decisions \in Seq(Decisions) /\ approved \subseteq Ids
  /\ previews \in Seq(Built) /\ Len(previews) <= MaxPreviews
  /\ session \in [status : SessionStatuses, active : DOMAIN previews]
  /\ DOMAIN candidate = 1 .. MaxPreviews
  /\ builder \in [Builders -> BuildStates]

ReadyStands ==
  \A p \in DOMAIN previews :
    previews[p].ready => NoTwoAreOne(p) /\ \A r \in CountedRows(p) : RowStands(p, r)

WholeStands == \A p \in DOMAIN previews : candidate[p].state = "whole" => HoldsTheCount(p)

\* A builder works on a ready preview and fills a file that is its own.
BuilderStands(b) ==
  /\ builder[b].at \in {"load", "look", "create", "fill"} => builder[b].run \in DOMAIN previews
  /\ builder[b].at = "load" /\ builder[b].ready => previews[builder[b].run].ready
  /\ builder[b].at \in {"look", "create", "fill"} => previews[builder[b].run].ready
  /\ builder[b].at = "fill" => candidate[builder[b].run] = Begun
OneFills ==
  \A b, c \in Builders :
    b # c /\ builder[b].at = "fill" /\ builder[c].at = "fill" => builder[b].run # builder[c].run

RehearsalInv ==
  /\ RehearsalShape /\ WholeStands
  /\ \A p \in (1 .. MaxPreviews) \ DOMAIN previews : candidate[p] = Absent
  /\ session.status = "READY_FOR_APPROVAL" => previews[session.active].ready
  /\ \A b \in Builders : BuilderStands(b)
  /\ OneFills

-----------------------------------------------------------------------------
(* Among some decisions there is a first and a last one. *)

LEMMA FirstIn == ASSUME NEW S \in SUBSET Nat, S # {} PROVE Min(S) \in S
<1>1. \E x \in S : \A y \in S : ~ (<<y, x>> \in OpToRel(<, Nat))
  BY NatLessThanWellFounded, WFMin
<1>2. PICK x \in S : \A y \in S : ~ (y < x)
  BY <1>1 DEF OpToRel
<1>3. \A y \in S : x =< y
  BY <1>2
<1> QED
  BY <1>2, <1>3 DEF Min

LEMMA LastIn == ASSUME NEW n \in Nat, NEW S \in SUBSET (1 .. n), S # {} PROVE Max(S) \in S
<1> DEFINE T == {n - x : x \in S}
<1>1. T \in SUBSET Nat /\ T # {}
  <2>1. \A x \in S : n - x \in Nat
    OBVIOUS
  <2> QED
    BY <2>1
<1>2. \E x \in T : \A y \in T : ~ (<<y, x>> \in OpToRel(<, Nat))
  BY <1>1, NatLessThanWellFounded, WFMin
<1>3. PICK t \in T : \A y \in T : ~ (y < t)
  BY <1>1, <1>2 DEF OpToRel
<1>4. PICK x \in S : t = n - x
  BY <1>3
<1>5. \A y \in S : x >= y
  <2> TAKE y \in S
  <2>1. n - y \in T
    OBVIOUS
  <2> HIDE DEF T
  <2> QED
    BY <2>1, <1>3, <1>4
<1> QED
  BY <1>4, <1>5 DEF Max

-----------------------------------------------------------------------------
(* What a preview says of its rows. *)

\* A finding of a row that no decision took out of the count is settled by a decision
\* that names it.
SettledBy(d, f) ==
  \/ d.action = "CORRECT_VALUE" /\ d.field = f.field /\ f.code \in {"FORMULA_CELL", "IDENTIFIER_NOT_TEXT"}
  \/ d.action = "CONFIRM_LITERAL_IDENTIFIER" /\ d.field = f.field /\ f.code = "IDENTIFIER_NOT_TEXT"
  \/ d.action = "CHOOSE_TARGET_LOCATION" /\ f.code \in LocationFindings
  \/ f.code \in {"UNRESOLVED_NEW_EQUIPMENT", "AMBIGUOUS_CATALOG_ITEM"}

LEMMA Settling ==
  ASSUME decisions \in Seq(Decisions), NEW plan \in SUBSET DOMAIN decisions, NEW r, NEW f,
         \A i \in OnRow(r, plan) : decisions[i].action \notin Dispositions,
         FindingResolved(f, r, plan)
  PROVE  \E i \in OnRow(r, plan) : SettledBy(decisions[i], f)
<1> DEFINE concerned == {i \in OnRow(r, plan) : Concerns(decisions[i], f)}
<1>1. concerned \in SUBSET Nat
  BY DEF OnRow
<1>2. concerned # {} /\ Settles(decisions[Min(concerned)], f)
  BY DEF FindingResolved
<1>3. Min(concerned) \in concerned
  BY <1>1, <1>2, FirstIn
<1>4. PICK i \in OnRow(r, plan) : Concerns(decisions[i], f) /\ Settles(decisions[i], f)
  BY <1>2, <1>3
<1>5. decisions[i].action \notin Dispositions
  BY <1>4
<1>6. SettledBy(decisions[i], f)
  BY <1>4, <1>5 DEF Concerns, Settles, SettledBy, Dispositions, EquipmentActions
<1> QED
  BY <1>4, <1>6

LEMMA CellFacts ==
  ASSUME sheet \in Sheets, decisions \in Seq(Decisions), NEW plan \in SUBSET DOMAIN decisions,
         NEW r \in DOMAIN sheet
  PROVE  Effective(r, plan) \in [Columns -> Texts]
<1> SUFFICES ASSUME NEW c \in Columns
             PROVE  LET made == {i \in OnRow(r, plan) : Replaces(decisions[i], c)}
                    IN  (IF made = {} THEN sheet[r].cells[c] ELSE decisions[Max(made)].value) \in Texts
  BY DEF Effective
<1> DEFINE made == {i \in OnRow(r, plan) : Replaces(decisions[i], c)}
<1>1. sheet[r] \in Lines
  BY RehearsalAssumption
<1>2. sheet[r].cells[c] \in Texts
  BY <1>1 DEF Lines
<1>3. made \in SUBSET (1 .. Len(decisions)) /\ Len(decisions) \in Nat
  BY DEF OnRow
<1>4. made # {} => decisions[Max(made)] \in Decisions
  <2>1. made # {} => Max(made) \in 1 .. Len(decisions)
    BY <1>3, LastIn
  <2> QED
    BY <2>1
<1> QED
  BY <1>2, <1>4 DEF Decisions

LEMMA DispositionFacts ==
  ASSUME decisions \in Seq(Decisions), NEW plan \in SUBSET DOMAIN decisions, NEW r
  PROVE  Disposition(r, plan) \notin Dispositions =>
           \A i \in OnRow(r, plan) : decisions[i].action \notin Dispositions
<1> DEFINE out == {i \in OnRow(r, plan) : decisions[i].action \in Dispositions}
<1>1. out \in SUBSET (1 .. Len(decisions)) /\ Len(decisions) \in Nat
  BY DEF OnRow
<1>2. Disposition(r, plan) = IF out = {} THEN Blank ELSE decisions[Max(out)].action
  BY DEF Disposition
<1>3. out # {} => decisions[Max(out)].action \in Dispositions
  <2>1. out # {} => Max(out) \in out
    BY <1>1, LastIn
  <2> QED
    BY <2>1
<1>4. out = {} => \A i \in OnRow(r, plan) : decisions[i].action \notin Dispositions
  OBVIOUS
<1> HIDE DEF out
<1> QED
  BY <1>2, <1>3, <1>4

\* The rows as a plan decides them.
RowsOf(plan) == [r \in DOMAIN sheet |-> Effective(r, plan)]

LEMMA PreviewFacts ==
  ASSUME sheet \in Sheets, decisions \in Seq(Decisions), NEW plan \in SUBSET DOMAIN decisions,
         NEW refs
  PROVE  LET p == PreviewOf(plan, refs)
             cells == RowsOf(plan)
         IN  /\ p.plan = plan /\ p.refs = refs
             /\ DOMAIN p.rows = DOMAIN sheet
             /\ \A r \in DOMAIN sheet :
                  /\ p.rows[r].cells = cells[r] /\ cells[r] \in [Columns -> Texts]
                  /\ p.rows[r].disposition = Disposition(r, plan)
             /\ p.ready =>
                  \A r \in DOMAIN sheet :
                    \A f \in RowFindings(cells, r, refs) : FindingResolved(f, r, plan)
<1> DEFINE cells == RowsOf(plan)
           found == [r \in DOMAIN sheet |-> RowFindings(cells, r, refs)]
           rows == [r \in DOMAIN sheet |-> [cells |-> cells[r], disposition |-> Disposition(r, plan)]]
           blocked == {r \in DOMAIN sheet : \E f \in found[r] : ~FindingResolved(f, r, plan)}
           p == PreviewOf(plan, refs)
<1>1. p = [plan |-> plan, refs |-> refs, found |-> found, ready |-> blocked = {} /\ refs = Approved,
           rows |-> rows]
  BY DEF PreviewOf, RowsOf
<1>2. \A r \in DOMAIN sheet : cells[r] \in [Columns -> Texts]
  BY CellFacts DEF RowsOf
<1>3. /\ DOMAIN rows = DOMAIN sheet
      /\ \A r \in DOMAIN sheet : rows[r].cells = cells[r] /\ rows[r].disposition = Disposition(r, plan)
  OBVIOUS
<1>4. blocked = {} =>
        \A r \in DOMAIN sheet : \A f \in RowFindings(cells, r, refs) : FindingResolved(f, r, plan)
  OBVIOUS
<1> HIDE DEF cells, found, rows, blocked, p
<1>5. p.plan = plan /\ p.refs = refs /\ p.rows = rows /\ (p.ready => blocked = {})
  BY <1>1
<1> QED
  BY <1>2, <1>3, <1>4, <1>5 DEF p, cells

\* Decisions that come later change nothing.
LEMMA SamePreview ==
  ASSUME decisions \in Seq(Decisions), NEW plan \in SUBSET DOMAIN decisions, NEW refs,
         sheet' = sheet, \A i \in DOMAIN decisions : decisions'[i] = decisions[i]
  PROVE  PreviewOf(plan, refs)' = PreviewOf(plan, refs)
<1> DEFINE on(r) == {i \in plan : decisions[i].row = r}
           onNow(r) == {i \in plan : decisions'[i].row = r}
<1>1. \A r : onNow(r) = on(r)
  OBVIOUS
<1>2. \A r : on(r) \in SUBSET (1 .. Len(decisions)) /\ on(r) \in SUBSET Nat /\ Len(decisions) \in Nat
  OBVIOUS
<1>3. \A r : Effective(r, plan)' = Effective(r, plan)
  <2> TAKE r
  <2> DEFINE made(c) == {i \in on(r) : Replaces(decisions[i], c)}
             madeNow(c) == {i \in onNow(r) : Replaces(decisions'[i], c)}
  <2>1. \A c : madeNow(c) = made(c)
    BY <1>1
  <2>2. \A c : made(c) # {} => decisions'[Max(made(c))] = decisions[Max(made(c))]
    <3> TAKE c
    <3>1. made(c) \in SUBSET (1 .. Len(decisions)) /\ Len(decisions) \in Nat
      BY <1>2
    <3>2. made(c) # {} => Max(made(c)) \in made(c)
      BY <3>1, LastIn
    <3> QED
      BY <3>2
  <2>3. Effective(r, plan)' =
          [c \in Columns |-> IF madeNow(c) = {} THEN sheet'[r].cells[c] ELSE decisions'[Max(madeNow(c))].value]
    BY DEF Effective, OnRow
  <2>4. Effective(r, plan) =
          [c \in Columns |-> IF made(c) = {} THEN sheet[r].cells[c] ELSE decisions[Max(made(c))].value]
    BY DEF Effective, OnRow
  <2> HIDE DEF made, madeNow
  <2> QED
    BY <2>1, <2>2, <2>3, <2>4
<1>4. \A r : Disposition(r, plan)' = Disposition(r, plan)
  <2> TAKE r
  <2> DEFINE out == {i \in on(r) : decisions[i].action \in Dispositions}
             outNow == {i \in onNow(r) : decisions'[i].action \in Dispositions}
  <2>1. outNow = out
    BY <1>1
  <2>2. out # {} => decisions'[Max(out)] = decisions[Max(out)]
    <3>1. out \in SUBSET (1 .. Len(decisions)) /\ Len(decisions) \in Nat
      BY <1>2
    <3>2. out # {} => Max(out) \in out
      BY <3>1, LastIn
    <3> QED
      BY <3>2
  <2>3. /\ Disposition(r, plan)' = IF outNow = {} THEN Blank ELSE decisions'[Max(outNow)].action
        /\ Disposition(r, plan) = IF out = {} THEN Blank ELSE decisions[Max(out)].action
    BY DEF Disposition, OnRow
  <2> HIDE DEF out, outNow
  <2> QED
    BY <2>1, <2>2, <2>3
<1>5. \A f, r : FindingResolved(f, r, plan)' <=> FindingResolved(f, r, plan)
  <2> TAKE f, r
  <2> DEFINE about == {i \in on(r) : Concerns(decisions[i], f)}
             aboutNow == {i \in onNow(r) : Concerns(decisions'[i], f)}
  <2>1. aboutNow = about
    BY <1>1
  <2>2. about # {} => decisions'[Min(about)] = decisions[Min(about)]
    <3>1. about \in SUBSET Nat
      BY <1>2
    <3>2. about # {} => Min(about) \in about
      BY <3>1, FirstIn
    <3> QED
      BY <3>2
  <2>3. /\ FindingResolved(f, r, plan)' <=> aboutNow # {} /\ Settles(decisions'[Min(aboutNow)], f)
        /\ FindingResolved(f, r, plan) <=> about # {} /\ Settles(decisions[Min(about)], f)
    BY DEF FindingResolved, OnRow
  <2> HIDE DEF about, aboutNow
  <2> QED
    BY <2>1, <2>2, <2>3
<1>6. \A rows, r : RowFindings(rows, r, refs)' = RowFindings(rows, r, refs)
  BY DEF RowFindings
<1> QED
  BY <1>3, <1>4, <1>5, <1>6 DEF PreviewOf
-----------------------------------------------------------------------------
(* A preview that is ready counts only what stands. *)

\* Its rows, as decided, and what settles their findings.
LEMMA ReadyFacts ==
  ASSUME RehearsalShape, NEW p \in DOMAIN previews, previews[p].ready
  PROVE  LET plan == previews[p].plan
             rows == RowsOf(plan)
         IN  /\ plan \subseteq DOMAIN decisions
             /\ CountedRows(p) \subseteq DOMAIN sheet
             /\ \A r \in CountedRows(p) :
                  /\ rows[r] = Cells(p, r) /\ rows[r] \in [Columns -> Texts]
                  /\ \A f \in RowFindings(rows, r, previews[p].refs) :
                       \E i \in OnRow(r, plan) : SettledBy(decisions[i], f)
             /\ \A r \in DOMAIN sheet : rows[r] = Cells(p, r)
<1>1. previews[p] \in Built
  BY DEF RehearsalShape
<1>2. PICK plan \in SUBSET DOMAIN decisions, refs \in SUBSET Ids : previews[p] = PreviewOf(plan, refs)
  BY <1>1 DEF Built
<1> DEFINE rows == RowsOf(plan)
<1>3. /\ previews[p].plan = plan /\ previews[p].refs = refs
      /\ DOMAIN previews[p].rows = DOMAIN sheet
      /\ \A r \in DOMAIN sheet :
           /\ previews[p].rows[r].cells = rows[r] /\ rows[r] \in [Columns -> Texts]
           /\ previews[p].rows[r].disposition = Disposition(r, plan)
           /\ \A f \in RowFindings(rows, r, refs) : FindingResolved(f, r, plan)
  <2>1. sheet \in Sheets /\ decisions \in Seq(Decisions)
    BY DEF RehearsalShape
  <2> DEFINE q == PreviewOf(plan, refs)
  <2>2. /\ q.plan = plan /\ q.refs = refs /\ DOMAIN q.rows = DOMAIN sheet
        /\ \A r \in DOMAIN sheet :
             /\ q.rows[r].cells = rows[r] /\ rows[r] \in [Columns -> Texts]
             /\ q.rows[r].disposition = Disposition(r, plan)
        /\ q.ready =>
             \A r \in DOMAIN sheet : \A f \in RowFindings(rows, r, refs) : FindingResolved(f, r, plan)
    BY <2>1, PreviewFacts
  <2> HIDE DEF q, rows
  <2>3. previews[p] = q
    BY <1>2 DEF q
  <2> QED
    BY <2>2, <2>3
<1>4. \A r \in CountedRows(p) :
        r \in DOMAIN sheet /\ \A i \in OnRow(r, plan) : decisions[i].action \notin Dispositions
  <2> TAKE r \in CountedRows(p)
  <2>1. r \in DOMAIN sheet /\ Disposition(r, plan) \notin Dispositions
    BY <1>3 DEF CountedRows
  <2> QED
    BY <2>1, DispositionFacts DEF RehearsalShape
<1>5. \A r \in CountedRows(p) : \A f \in RowFindings(rows, r, refs) :
        \E i \in OnRow(r, plan) : SettledBy(decisions[i], f)
  BY <1>3, <1>4, Settling DEF RehearsalShape
<1> HIDE DEF rows
<1>6. \A r \in DOMAIN sheet : rows[r] = Cells(p, r)
  BY <1>3 DEF Cells
<1> QED
  BY <1>3, <1>4, <1>5, <1>6 DEF rows

\* What no decision settles is not in it.
LEMMA NotSettled ==
  ASSUME NEW d, NEW f, SettledBy(d, f)
  PROVE  f.code \in {"FORMULA_CELL", "IDENTIFIER_NOT_TEXT", "UNRESOLVED_NEW_EQUIPMENT",
                     "AMBIGUOUS_CATALOG_ITEM"} \cup LocationFindings
BY DEF SettledBy

\* The findings of a row, one at a time.
LEMMA FindingFacts ==
  ASSUME NEW rows, NEW r, NEW refs
  PROVE  LET c == rows[r]
             F == RowFindings(rows, r, refs)
         IN  /\ \A g \in RequiredColumns : c[g] = Blank => Finding("REQUIRED_VALUE_MISSING", g) \in F
             /\ \A g \in sheet[r].formula : Finding("FORMULA_CELL", g) \in F
             /\ \A g \in sheet[r].loose : Finding("IDENTIFIER_NOT_TEXT", g) \in F
             /\ sheet[r].flawed => Finding("HIDDEN_DATA_ROW", Blank) \in F
             /\ c["RowId"] # Blank /\ (\E q \in 1 .. r - 1 : rows[q]["RowId"] = c["RowId"]) =>
                  Finding("DUPLICATE_ROW_ID", "RowId") \in F
             /\ c["WarehouseCode"] # Manifest => Finding("WAREHOUSE_SCOPE_MISMATCH", "WarehouseCode") \in F
             /\ IsSerialized(c) /\ c["SerialNumber"] = Blank => Finding("SERIAL_REQUIRED", "SerialNumber") \in F
             /\ SerialRepeats(rows, r) => Finding("DUPLICATE_SERIAL", "SerialNumber") \in F
             /\ Repeats(rows, r, "InventoryNumber") =>
                  Finding("DUPLICATE_INVENTORY_NUMBER", "InventoryNumber") \in F
             /\ Number[c["Quantity"]] = 0 => Finding("INVALID_QUANTITY", "Quantity") \in F
             /\ IsSerialized(c) /\ Number[c["Quantity"]] \notin {0, 1000} =>
                  Finding("SERIALIZED_QUANTITY", "Quantity") \in F
             /\ ApprovedMatches("shelf", c["LocationCode"], refs) = {} =>
                  \/ Finding("UNKNOWN_LOCATION", "LocationCode") \in F
                  \/ Finding("INACTIVE_OR_CANDIDATE_LOCATION", "LocationCode") \in F
<1> DEFINE c == rows[r]
           F == RowFindings(rows, r, refs)
<1>1. \A found, code, field : found => Finding(code, field) \in When(found, code, field)
  BY DEF When
<1>2. ApprovedMatches("shelf", c["LocationCode"], refs) = {} =>
                  \/ Finding("UNKNOWN_LOCATION", "LocationCode") \in F
                  \/ Finding("INACTIVE_OR_CANDIDATE_LOCATION", "LocationCode") \in F
  <2>1. Cardinality({}) = 0
    BY FS_EmptySet
  <2>2. ApprovedMatches("shelf", c["LocationCode"], refs) = {} =>
          \/ Finding("UNKNOWN_LOCATION", "LocationCode")
               \in MappingFindings(c["WarehouseCode"], c["LocationCode"], refs)
          \/ Finding("INACTIVE_OR_CANDIDATE_LOCATION", "LocationCode")
               \in MappingFindings(c["WarehouseCode"], c["LocationCode"], refs)
    BY <1>1, <2>1 DEF MappingFindings
  <2>3. MappingFindings(c["WarehouseCode"], c["LocationCode"], refs) \subseteq F
    BY DEF RowFindings
  <2> QED
    BY <2>2, <2>3
<1>3. /\ {Finding("REQUIRED_VALUE_MISSING", f) : f \in {g \in RequiredColumns : c[g] = Blank}} \subseteq F
      /\ {Finding("FORMULA_CELL", f) : f \in sheet[r].formula} \subseteq F
      /\ {Finding("IDENTIFIER_NOT_TEXT", f) : f \in sheet[r].loose} \subseteq F
  BY DEF RowFindings
<1>4. /\ When(sheet[r].flawed, "HIDDEN_DATA_ROW", Blank) \subseteq F
      /\ When(c["RowId"] # Blank /\ \E q \in 1 .. r - 1 : rows[q]["RowId"] = c["RowId"],
              "DUPLICATE_ROW_ID", "RowId") \subseteq F
      /\ When(c["WarehouseCode"] # Manifest, "WAREHOUSE_SCOPE_MISMATCH", "WarehouseCode") \subseteq F
  BY DEF RowFindings
<1>5. /\ When(IsSerialized(c) /\ c["SerialNumber"] = Blank, "SERIAL_REQUIRED", "SerialNumber") \subseteq F
      /\ When(SerialRepeats(rows, r), "DUPLICATE_SERIAL", "SerialNumber") \subseteq F
      /\ When(Repeats(rows, r, "InventoryNumber"), "DUPLICATE_INVENTORY_NUMBER", "InventoryNumber")
           \subseteq F
  BY DEF RowFindings
<1>6. /\ When(Number[c["Quantity"]] = 0, "INVALID_QUANTITY", "Quantity") \subseteq F
      /\ When(IsSerialized(c) /\ Number[c["Quantity"]] \notin {0, 1000},
              "SERIALIZED_QUANTITY", "Quantity") \subseteq F
  BY DEF RowFindings
<1> HIDE DEF F, c
<1>7. /\ \A g \in RequiredColumns : c[g] = Blank => Finding("REQUIRED_VALUE_MISSING", g) \in F
      /\ \A g \in sheet[r].formula : Finding("FORMULA_CELL", g) \in F
      /\ \A g \in sheet[r].loose : Finding("IDENTIFIER_NOT_TEXT", g) \in F
  BY <1>3
<1>8. /\ sheet[r].flawed => Finding("HIDDEN_DATA_ROW", Blank) \in F
      /\ c["RowId"] # Blank /\ (\E q \in 1 .. r - 1 : rows[q]["RowId"] = c["RowId"]) =>
           Finding("DUPLICATE_ROW_ID", "RowId") \in F
      /\ c["WarehouseCode"] # Manifest => Finding("WAREHOUSE_SCOPE_MISMATCH", "WarehouseCode") \in F
  BY <1>4 DEF When
<1>9. /\ IsSerialized(c) /\ c["SerialNumber"] = Blank => Finding("SERIAL_REQUIRED", "SerialNumber") \in F
      /\ SerialRepeats(rows, r) => Finding("DUPLICATE_SERIAL", "SerialNumber") \in F
      /\ Repeats(rows, r, "InventoryNumber") =>
           Finding("DUPLICATE_INVENTORY_NUMBER", "InventoryNumber") \in F
  BY <1>5 DEF When
<1>10. /\ Number[c["Quantity"]] = 0 => Finding("INVALID_QUANTITY", "Quantity") \in F
       /\ IsSerialized(c) /\ Number[c["Quantity"]] \notin {0, 1000} =>
            Finding("SERIALIZED_QUANTITY", "Quantity") \in F
  BY <1>6 DEF When
<1> QED
  BY <1>2, <1>7, <1>8, <1>9, <1>10 DEF F, c
LEMMA FindingParts == \A code, field : Finding(code, field).code = code /\ Finding(code, field).field = field
BY DEF Finding

LEMMA NumberFacts == \A t \in Texts : Number[t] \in Nat
BY RehearsalAssumption

LEMMA ReadyStand == RehearsalShape => ReadyStands
<1> SUFFICES ASSUME RehearsalShape, NEW p \in DOMAIN previews, previews[p].ready
             PROVE  NoTwoAreOne(p) /\ \A r \in CountedRows(p) : RowStands(p, r)
  BY DEF ReadyStands
<1> DEFINE plan == previews[p].plan
           refs == previews[p].refs
           rows == RowsOf(plan)
<1>1. /\ plan \subseteq DOMAIN decisions /\ CountedRows(p) \subseteq DOMAIN sheet
      /\ \A r \in CountedRows(p) :
           /\ rows[r] = Cells(p, r) /\ rows[r] \in [Columns -> Texts]
           /\ \A f \in RowFindings(rows, r, refs) : \E i \in OnRow(r, plan) : SettledBy(decisions[i], f)
      /\ \A r \in DOMAIN sheet : rows[r] = Cells(p, r)
  BY ReadyFacts
<1>2. DOMAIN sheet \subseteq Nat
  BY RehearsalAssumption DEF RehearsalShape
<1> HIDE DEF plan, refs, rows
<1>3. \A r \in CountedRows(p) : \A code, field :
        code \notin {"FORMULA_CELL", "IDENTIFIER_NOT_TEXT", "UNRESOLVED_NEW_EQUIPMENT",
                     "AMBIGUOUS_CATALOG_ITEM"} \cup LocationFindings =>
          Finding(code, field) \notin RowFindings(rows, r, refs)
  BY <1>1, NotSettled, FindingParts
<1>4. \A r \in CountedRows(p) :
        LET c == Cells(p, r)
        IN  /\ c["RowId"] # Blank
            /\ \A q \in 1 .. r - 1 : rows[q]["RowId"] # c["RowId"]
            /\ c["WarehouseCode"] = Manifest /\ ~sheet[r].flawed
            /\ IsSerialized(c) => c["SerialNumber"] # Blank /\ Number[c["Quantity"]] = 1000
            /\ ~SerialRepeats(rows, r) /\ ~Repeats(rows, r, "InventoryNumber")
            /\ Number[c["Quantity"]] > 0
  <2> TAKE r \in CountedRows(p)
  <2> DEFINE c == rows[r]
  <2>1. c = Cells(p, r) /\ c \in [Columns -> Texts]
    BY <1>1
  <2> DEFINE out(code) == \A field : Finding(code, field) \notin RowFindings(rows, r, refs)
  <2>2. /\ out("REQUIRED_VALUE_MISSING") /\ out("HIDDEN_DATA_ROW") /\ out("DUPLICATE_ROW_ID")
        /\ out("WAREHOUSE_SCOPE_MISMATCH") /\ out("SERIAL_REQUIRED") /\ out("DUPLICATE_SERIAL")
        /\ out("DUPLICATE_INVENTORY_NUMBER") /\ out("INVALID_QUANTITY") /\ out("SERIALIZED_QUANTITY")
    <3>1. \A code : code \notin {"FORMULA_CELL", "IDENTIFIER_NOT_TEXT", "UNRESOLVED_NEW_EQUIPMENT",
                                "AMBIGUOUS_CATALOG_ITEM"} \cup LocationFindings => out(code)
      BY <1>3
    <3> HIDE DEF out
    <3> QED
      BY <3>1 DEF LocationFindings
  <2>3. "RowId" \in RequiredColumns /\ "Quantity" \in Columns
    BY DEF RequiredColumns, Columns
  <2>4. Number[c["Quantity"]] \in Nat
    BY <2>1, <2>3, NumberFacts
  <2>5. /\ c["RowId"] # Blank /\ \A q \in 1 .. r - 1 : rows[q]["RowId"] # c["RowId"]
        /\ c["WarehouseCode"] = Manifest /\ ~sheet[r].flawed
        /\ IsSerialized(c) => c["SerialNumber"] # Blank /\ Number[c["Quantity"]] \in {0, 1000}
        /\ ~SerialRepeats(rows, r) /\ ~Repeats(rows, r, "InventoryNumber")
        /\ Number[c["Quantity"]] # 0
    BY <2>2, <2>3, FindingFacts
  <2> HIDE DEF c, out
  <2>6. Number[c["Quantity"]] > 0 /\ (Number[c["Quantity"]] \in {0, 1000} => Number[c["Quantity"]] = 1000)
    BY <2>4, <2>5
  <2> QED
    BY <2>1, <2>5, <2>6
<1>5. \A r \in CountedRows(p) : RowStands(p, r)
  <2> TAKE r \in CountedRows(p)
  <2> DEFINE c == rows[r]
             F == RowFindings(rows, r, refs)
  <2>1. c = Cells(p, r)
    BY <1>1
  <2>2. \A i \in OnRow(r, plan) : decisions[i].field \in STRING
    <3>1. \A i \in DOMAIN decisions : decisions[i] \in Decisions
      BY DEF RehearsalShape
    <3> QED
      BY <1>1, <3>1 DEF OnRow, Decisions
  <2>3. ApprovedMatches("shelf", c["LocationCode"], refs) = {} =>
          Decided(p, r, {"CHOOSE_TARGET_LOCATION"}, STRING)
    <3>1. ApprovedMatches("shelf", c["LocationCode"], refs) = {} =>
            \E f \in F : f.code \in {"UNKNOWN_LOCATION", "INACTIVE_OR_CANDIDATE_LOCATION"}
      BY FindingFacts, FindingParts
    <3>2. \A f \in F : f.code \in {"UNKNOWN_LOCATION", "INACTIVE_OR_CANDIDATE_LOCATION"} =>
            \E i \in OnRow(r, plan) : decisions[i].action = "CHOOSE_TARGET_LOCATION"
      BY <1>1 DEF SettledBy
    <3> QED
      BY <2>2, <3>1, <3>2 DEF Decided, plan
  <2>4. \A f \in sheet[r].formula : Decided(p, r, {"CORRECT_VALUE"}, {f})
    <3> TAKE f \in sheet[r].formula
    <3>1. Finding("FORMULA_CELL", f) \in F
      BY FindingFacts
    <3>2. PICK i \in OnRow(r, plan) : SettledBy(decisions[i], Finding("FORMULA_CELL", f))
      BY <1>1, <3>1
    <3> QED
      BY <3>2 DEF SettledBy, Finding, LocationFindings, Decided, plan
  <2>5. \A f \in sheet[r].loose : Decided(p, r, {"CORRECT_VALUE", "CONFIRM_LITERAL_IDENTIFIER"}, {f})
    <3> TAKE f \in sheet[r].loose
    <3>1. Finding("IDENTIFIER_NOT_TEXT", f) \in F
      BY FindingFacts
    <3>2. PICK i \in OnRow(r, plan) : SettledBy(decisions[i], Finding("IDENTIFIER_NOT_TEXT", f))
      BY <1>1, <3>1
    <3> QED
      BY <3>2 DEF SettledBy, Finding, LocationFindings, Decided, plan
  <2> HIDE DEF c, F
  <2>6. \/ \E v \in ApprovedMatches("shelf", c["LocationCode"], refs) : TRUE
        \/ Decided(p, r, {"CHOOSE_TARGET_LOCATION"}, STRING)
    BY <2>3
  <2>7. /\ Cells(p, r)["WarehouseCode"] = Manifest /\ Number[Cells(p, r)["Quantity"]] > 0
        /\ IsSerialized(Cells(p, r)) =>
             Cells(p, r)["SerialNumber"] # Blank /\ Number[Cells(p, r)["Quantity"]] = 1000
        /\ ~sheet[r].flawed
    BY <1>4
  <2> QED
    BY <2>1, <2>4, <2>5, <2>6, <2>7 DEF RowStands, refs
<1>6. NoTwoAreOne(p)
  <2>1. \A q, r \in CountedRows(p) : q < r =>
          LET c == Cells(p, q)
              d == Cells(p, r)
          IN  /\ c["RowId"] # d["RowId"]
              /\ c["InventoryNumber"] # Blank /\ d["InventoryNumber"] # Blank =>
                   TextKey[c["InventoryNumber"]] # TextKey[d["InventoryNumber"]]
              /\ IsSerialized(c) /\ IsSerialized(d) =>
                   TextKey[c["SerialNumber"]] # TextKey[d["SerialNumber"]]
    <3> TAKE q, r \in CountedRows(p)
    <3> HAVE q < r
    <3>1. q \in 1 .. r - 1 /\ rows[q] = Cells(p, q) /\ rows[r] = Cells(p, r)
      BY <1>1, <1>2, RehearsalAssumption DEF RehearsalShape
    <3>2. rows[q]["RowId"] # Cells(p, r)["RowId"] /\ ~SerialRepeats(rows, r)
          /\ ~Repeats(rows, r, "InventoryNumber")
      BY <1>4, <3>1
    <3>3. IsSerialized(rows[q]) => rows[q]["SerialNumber"] # Blank
      BY <1>4, <3>1
    <3>4. IsSerialized(rows[r]) => rows[r]["SerialNumber"] # Blank
      BY <1>4, <3>1
    <3>5. IsSerialized(rows[q]) /\ IsSerialized(rows[r]) =>
            TextKey[rows[q]["SerialNumber"]] # TextKey[rows[r]["SerialNumber"]]
      BY <3>1, <3>2, <3>3, <3>4 DEF SerialRepeats
    <3>6. rows[q]["InventoryNumber"] # Blank /\ rows[r]["InventoryNumber"] # Blank =>
            TextKey[rows[q]["InventoryNumber"]] # TextKey[rows[r]["InventoryNumber"]]
      BY <3>1, <3>2 DEF Repeats
    <3> QED
      BY <3>1, <3>2, <3>5, <3>6
  <2>2. \A q, r \in CountedRows(p) : q # r => q < r \/ r < q
    BY <1>1, <1>2
  <2> QED
    BY <2>1, <2>2 DEF NoTwoAreOne
<1> QED
  BY <1>5, <1>6
-----------------------------------------------------------------------------
(* A file that was filled holds the count of its preview. *)

LEMMA FilledCount ==
  ASSUME RehearsalShape, NEW p \in DOMAIN previews, previews[p].ready, ~Refused(p)
  PROVE  LET items == ItemsOf(p)
         IN  /\ {i.row : i \in items} = CountedRows(p)
             /\ Cardinality(items) = Cardinality(CountedRows(p))
             /\ \A i \in items :
                  /\ i.equipment = IsSerialized(Cells(p, i.row))
                  /\ i.minor * Grain(Cells(p, i.row)["UOM"]) = Number[Cells(p, i.row)["Quantity"]]
             /\ \A i, j \in items : i # j /\ ~i.equipment /\ ~j.equipment => i.stock # j.stock
<1> DEFINE rows == CountedRows(p)
           item(r) == [row |-> r, equipment |-> IsSerialized(Cells(p, r)), stock |-> StockKey(Cells(p, r)),
                       minor |-> Number[Cells(p, r)["Quantity"]] \div Grain(Cells(p, r)["UOM"])]
           items == ItemsOf(p)
<1>1. /\ rows \subseteq DOMAIN sheet
      /\ \A r \in rows : Cells(p, r) \in [Columns -> Texts]
  BY ReadyFacts
<1>2. IsFiniteSet(rows)
  <2>1. Len(sheet) \in Nat /\ DOMAIN sheet = 1 .. Len(sheet)
    BY RehearsalAssumption DEF RehearsalShape
  <2>2. IsFiniteSet(1 .. Len(sheet))
    BY <2>1, FS_Interval
  <2> QED
    BY <1>1, <2>1, <2>2, FS_Subset
<1>3. items = {item(r) : r \in rows} /\ \A r \in rows : item(r).row = r
  BY DEF ItemsOf
<1>4. \A r \in rows :
        /\ item(r).equipment = IsSerialized(Cells(p, r)) /\ item(r).stock = StockKey(Cells(p, r))
        /\ item(r).minor = Number[Cells(p, r)["Quantity"]] \div Grain(Cells(p, r)["UOM"])
  OBVIOUS
<1> HIDE DEF item, items, rows
<1>5. {i.row : i \in items} = rows
  BY <1>3
<1>6. Cardinality(items) = Cardinality(rows)
  <2> DEFINE f == [r \in rows |-> item(r)]
  <2>1. f \in Bijection(rows, items)
    <3>1. f \in [rows -> items] /\ \A i \in items : \E r \in rows : f[r] = i
      BY <1>3
    <3>2. \A q, r \in rows : f[q] = f[r] => q = r
      BY <1>3
    <3> QED
      BY <3>1, <3>2 DEF Bijection, Injection, Surjection, IsInjective
  <2> QED
    BY <1>2, <2>1, FS_Bijection DEF ExistsBijection
<1>7. \A r \in rows : item(r).minor * Grain(Cells(p, r)["UOM"]) = Number[Cells(p, r)["Quantity"]]
  <2> TAKE r \in rows
  <2> DEFINE n == Number[Cells(p, r)["Quantity"]]
             g == Grain(Cells(p, r)["UOM"])
  <2>1. n \in Nat
    BY <1>1, NumberFacts DEF Columns
  <2>2. g \in {1, 1000} /\ n % g = 0
    BY DEF Refused, Grain, rows
  <2> HIDE DEF n, g
  <2>3. (n \div g) * g = n
    <3>1. CASE g = 1
      BY <2>1, <3>1
    <3>2. CASE g = 1000
      BY <2>1, <2>2, <3>2
    <3> QED
      BY <2>2, <3>1, <3>2
  <2> QED
    BY <1>4, <2>3 DEF n, g
<1>8. \A q, r \in rows :
        q # r /\ ~item(q).equipment /\ ~item(r).equipment => item(q).stock # item(r).stock
  BY <1>4 DEF Refused, rows
<1>9. \A i \in items : i.row \in rows /\ i = item(i.row)
  BY <1>3
<1> QED
  BY <1>4, <1>5, <1>6, <1>7, <1>8, <1>9 DEF rows, items

\* A preview and its file that stay as they are.
LEMMA SameCount ==
  ASSUME NEW p, previews'[p] = previews[p], candidate'[p] = candidate[p]
  PROVE  HoldsTheCount(p)' <=> HoldsTheCount(p)
BY DEF HoldsTheCount, CountedRows, Cells
-----------------------------------------------------------------------------
(* The steps. *)

LEMMA EntriesBuilt ==
  ASSUME RehearsalShape
  PROVE  /\ Len(previews) \in Nat /\ DOMAIN previews = 1 .. Len(previews)
         /\ DOMAIN previews \subseteq 1 .. MaxPreviews
         /\ \A p \in DOMAIN previews : previews[p] \in Built
BY RehearsalAssumption DEF RehearsalShape

\* Decisions that are added keep every preview one that the workbook gives.
LEMMA BuiltGrows ==
  ASSUME decisions \in Seq(Decisions), sheet' = sheet, DOMAIN decisions \subseteq DOMAIN decisions',
         \A i \in DOMAIN decisions : decisions'[i] = decisions[i]
  PROVE  Built \subseteq Built'
<1> SUFFICES ASSUME NEW p \in Built PROVE p \in Built'
  OBVIOUS
<1>1. PICK plan \in SUBSET DOMAIN decisions, refs \in SUBSET Ids : p = PreviewOf(plan, refs)
  BY DEF Built
<1>2. PreviewOf(plan, refs)' = PreviewOf(plan, refs)
  BY SamePreview
<1>3. PreviewOf(plan, refs)' \in Built'
  BY DEF Built
<1> QED
  BY <1>1, <1>2, <1>3

LEMMA SameBuilt ==
  ASSUME decisions \in Seq(Decisions), UNCHANGED <<sheet, decisions>>
  PROVE  Built' = Built
<1>1. \A plan \in SUBSET DOMAIN decisions : \A refs : PreviewOf(plan, refs)' = PreviewOf(plan, refs)
  BY SamePreview
<1> QED
  BY <1>1 DEF Built

\* Nothing but the requests and the session moves.
LEMMA OthersStay ==
  ASSUME RehearsalInv, builder' \in [Builders -> BuildStates],
         session' \in [status : SessionStatuses, active : DOMAIN previews],
         session'.status = "READY_FOR_APPROVAL" => previews[session'.active].ready,
         UNCHANGED <<sheet, decisions, previews, approved, candidate>>
  PROVE  /\ RehearsalShape' /\ WholeStands'
         /\ (\A p \in (1 .. MaxPreviews) \ DOMAIN previews : candidate[p] = Absent)'
         /\ (session.status = "READY_FOR_APPROVAL" => previews[session.active].ready)'
<1>1. RehearsalShape'
  BY SameBuilt DEF RehearsalInv, RehearsalShape
<1>2. WholeStands'
  BY SameCount DEF RehearsalInv, WholeStands
<1> QED
  BY <1>1, <1>2 DEF RehearsalInv

\* A thread that returns, or goes to its next step, with the rest as it was.
LEMMA Returning ==
  ASSUME builder \in [Builders -> BuildStates], NEW b \in Builders, Returns(b)
  PROVE  /\ builder' \in [Builders -> BuildStates] /\ builder'[b].at = "idle"
         /\ \A c \in Builders : c # b => builder'[c] = builder[c]
BY DEF Returns, BuildStates, IdleBuilder

LEMMA GoingOn ==
  ASSUME builder \in [Builders -> BuildStates], NEW b \in Builders,
         builder[b].at \in {"load", "look", "create", "fill"},
         NEW at \in {"look", "create", "fill"}, GoesOn(b, at)
  PROVE  /\ builder' \in [Builders -> BuildStates]
         /\ builder'[b].at = at /\ builder'[b].run = builder[b].run
         /\ \A c \in Builders : c # b => builder'[c] = builder[c]
<1>1. builder[b] \in [at : {"load", "look", "create", "fill"}, run : Nat, ready : BOOLEAN]
  BY DEF BuildStates
<1>2. builder'[b] = [builder[b] EXCEPT !.at = at]
  BY DEF GoesOn
<1>3. /\ builder'[b] \in [at : {"load", "look", "create", "fill"}, run : Nat, ready : BOOLEAN]
      /\ builder'[b].at = at /\ builder'[b].run = builder[b].run
  BY <1>1, <1>2
<1>4. /\ \A c \in Builders : c # b => builder'[c] = builder[c]
      /\ builder' = [c \in Builders |-> builder'[c]]
  BY DEF GoesOn
<1>5. \A c \in Builders : builder'[c] \in BuildStates
  BY <1>3, <1>4 DEF BuildStates
<1> QED
  BY <1>3, <1>4, <1>5

LEMMA DecideStep ==
  ASSUME RehearsalInv, NEW choice \in Offered[sheet], Decide(choice) PROVE RehearsalInv'
<1>1. choice \in Decisions
  BY RehearsalAssumption DEF RehearsalInv, RehearsalShape
<1>2. PICK n \in Nat : decisions' = Append(decisions, [choice EXCEPT !.supersedes = n])
  <2> DEFINE same == {i \in ActiveDecisions : ScopeOf(decisions[i]) = ScopeOf(choice)}
             n == IF same = {} THEN 0 ELSE Max(same)
  <2>1. same \in SUBSET (1 .. Len(decisions)) /\ Len(decisions) \in Nat
    BY DEF ActiveDecisions, RehearsalInv, RehearsalShape
  <2>2. same # {} => Max(same) \in same
    BY <2>1, LastIn
  <2>3. n \in Nat
    BY <2>1, <2>2
  <2>4. decisions' = Append(decisions, [choice EXCEPT !.supersedes = n])
    BY DEF Decide
  <2> QED
    BY <2>3, <2>4
<1>3. [choice EXCEPT !.supersedes = n] \in Decisions
  BY <1>1 DEF Decisions
<1>4. /\ decisions' \in Seq(Decisions) /\ DOMAIN decisions \subseteq DOMAIN decisions'
      /\ \A i \in DOMAIN decisions : decisions'[i] = decisions[i]
  BY <1>2, <1>3 DEF RehearsalInv, RehearsalShape
<1>5. Built \subseteq Built'
  BY <1>4, BuiltGrows DEF Decide, RehearsalInv, RehearsalShape
<1>6. previews' \in Seq(Built')
  BY <1>5, EntriesBuilt DEF Decide, RehearsalInv, RehearsalShape
<1>7. session' \in [status : SessionStatuses, active : DOMAIN previews] /\ session'.status = "REVIEW_REQUIRED"
  BY DEF Decide, RehearsalInv, RehearsalShape, SessionStatuses
<1>8. RehearsalShape'
  BY <1>4, <1>6, <1>7 DEF Decide, RehearsalInv, RehearsalShape
<1>9. WholeStands'
  BY SameCount DEF Decide, RehearsalInv, WholeStands
<1> QED
  BY <1>7, <1>8, <1>9 DEF Decide, RehearsalInv, BuilderStands, OneFills

LEMMA ReviewStep == ASSUME RehearsalInv, NEW b \in Builders, Review(b) PROVE RehearsalInv'
<1> DEFINE plan == ActiveDecisions
           new == PreviewOf(plan, approved)
           same == SameDigest(plan, approved)
<1>0. /\ UNCHANGED <<sheet, decisions, approved, candidate>> /\ builder[b] = IdleBuilder
      /\ builder' = [builder EXCEPT ![b] = [at |-> "answer"]]
  BY DEF Review
<1>1. plan \in SUBSET DOMAIN decisions /\ approved \in SUBSET Ids
  BY DEF ActiveDecisions, RehearsalInv, RehearsalShape
<1>2. new \in Built
  BY <1>1 DEF Built
<1>3. /\ builder' \in [Builders -> BuildStates] /\ builder'[b].at = "answer"
      /\ \A c \in Builders : c # b => builder'[c] = builder[c]
  BY <1>0 DEF RehearsalInv, RehearsalShape, BuildStates
<1>4. \A p : Outcome(p) \in SessionStatuses /\ (Outcome(p) = "READY_FOR_APPROVAL" => p.ready)
  BY DEF Outcome, SessionStatuses
<1>5. CASE same # {}
  <2>1. same \in SUBSET Nat /\ same \subseteq DOMAIN previews
    BY EntriesBuilt DEF SameDigest, RehearsalInv
  <2>2. Min(same) \in DOMAIN previews
    BY <1>5, <2>1, FirstIn
  <2>3. session' = [status |-> Outcome(previews[Min(same)]), active |-> Min(same)] /\ previews' = previews
    BY <1>5 DEF Review
  <2> HIDE DEF same
  <2>4. /\ session' \in [status : SessionStatuses, active : DOMAIN previews]
        /\ session'.status = "READY_FOR_APPROVAL" => previews[session'.active].ready
    BY <1>4, <2>2, <2>3
  <2>5. /\ RehearsalShape' /\ WholeStands'
        /\ (\A p \in (1 .. MaxPreviews) \ DOMAIN previews : candidate[p] = Absent)'
        /\ (session.status = "READY_FOR_APPROVAL" => previews[session.active].ready)'
    BY <1>0, <1>3, <2>3, <2>4, OthersStay
  <2>6. (\A c \in Builders : BuilderStands(c))' /\ OneFills'
    BY <1>0, <1>3, <2>3 DEF RehearsalInv, BuilderStands, OneFills
  <2> QED
    BY <2>5, <2>6 DEF RehearsalInv
<1>6. CASE same = {}
  <2> DEFINE n == Len(previews) + 1
  <2>1. /\ previews' = Append(previews, new) /\ Len(previews) < MaxPreviews
        /\ session' = [status |-> Outcome(new), active |-> n]
    BY <1>6 DEF Review
  <2> HIDE DEF new, same
  <2>2. /\ previews' \in Seq(Built) /\ Len(previews') = n /\ DOMAIN previews' = 1 .. n /\ n \in 1 .. MaxPreviews
        /\ previews'[n] = new /\ n \notin DOMAIN previews /\ DOMAIN previews' = DOMAIN previews \cup {n}
        /\ \A p \in DOMAIN previews : previews'[p] = previews[p]
    BY <1>2, <2>1, EntriesBuilt, RehearsalAssumption DEF RehearsalInv, RehearsalShape
  <2>3. Built' = Built
    BY <1>0, SameBuilt DEF RehearsalInv, RehearsalShape
  <2>4. /\ session' \in [status : SessionStatuses, active : DOMAIN previews']
        /\ session'.status = "READY_FOR_APPROVAL" => previews'[session'.active].ready
    BY <1>4, <2>1, <2>2
  <2>5. RehearsalShape'
    BY <1>0, <1>3, <2>2, <2>3, <2>4, RehearsalAssumption DEF RehearsalInv, RehearsalShape
  <2>6. candidate[n] = Absent
    BY <2>2 DEF RehearsalInv
  <2>7. WholeStands'
    <3> SUFFICES ASSUME NEW p \in DOMAIN previews', candidate'[p].state = "whole"
                 PROVE  HoldsTheCount(p)'
      BY DEF WholeStands
    <3>1. p # n
      BY <1>0, <2>6 DEF Absent
    <3>2. p \in DOMAIN previews /\ candidate[p].state = "whole"
      BY <1>0, <2>2, <3>1
    <3> QED
      BY <1>0, <2>2, <3>2, SameCount DEF RehearsalInv, WholeStands
  <2>8. (\A c \in Builders : BuilderStands(c))' /\ OneFills'
    BY <1>0, <1>3, <2>2 DEF RehearsalInv, BuilderStands, OneFills
  <2> QED
    BY <1>0, <2>2, <2>4, <2>5, <2>7, <2>8 DEF RehearsalInv
<1> QED
  BY <1>5, <1>6
LEMMA AnswerStep == ASSUME RehearsalInv, NEW b \in Builders, AnswerReview(b) PROVE RehearsalInv'
<1>1. /\ UNCHANGED <<sheet, decisions, previews, approved, candidate>> /\ Returns(b)
      /\ builder[b].at = "answer"
  BY DEF AnswerReview, Returns
<1>2. /\ builder' \in [Builders -> BuildStates] /\ builder'[b].at = "idle"
      /\ \A c \in Builders : c # b => builder'[c] = builder[c]
  BY <1>1, Returning DEF RehearsalInv, RehearsalShape
<1>3. /\ session' \in [status : SessionStatuses, active : DOMAIN previews]
      /\ session'.status = "READY_FOR_APPROVAL" => previews[session'.active].ready
  BY DEF AnswerReview, RehearsalInv, RehearsalShape, SessionStatuses
<1>4. (\A c \in Builders : BuilderStands(c))' /\ OneFills'
  BY <1>1, <1>2 DEF RehearsalInv, BuilderStands, OneFills
<1> QED
  BY <1>1, <1>2, <1>3, <1>4, OthersStay DEF RehearsalInv

LEMMA ApproveStep == ASSUME RehearsalInv, NEW v \in Dictionary, Approve(v) PROVE RehearsalInv'
<1>1. UNCHANGED <<sheet, decisions, previews, session, candidate, builder>> /\ approved' \subseteq Ids
  BY DEF Approve, RehearsalInv, RehearsalShape, Ids
<1>2. RehearsalShape'
  BY <1>1, SameBuilt DEF RehearsalInv, RehearsalShape
<1>3. WholeStands'
  BY <1>1, SameCount DEF RehearsalInv, WholeStands
<1> QED
  BY <1>1, <1>2, <1>3 DEF RehearsalInv, BuilderStands, OneFills

\* A builder that looks but writes nothing.
LEMMA LookingStep ==
  ASSUME RehearsalInv, NEW b \in Builders, OpenBuild(b) \/ LoadPlan(b) \/ LookForFile(b)
  PROVE  RehearsalInv'
<1>1. UNCHANGED <<sheet, decisions, previews, session, approved, candidate>>
  BY DEF OpenBuild, LoadPlan, LookForFile
<1>2. /\ builder' \in [Builders -> BuildStates] /\ BuilderStands(b)' /\ builder'[b].at # "fill"
      /\ \A c \in Builders : c # b => builder'[c] = builder[c]
  <2>1. builder \in [Builders -> BuildStates] /\ BuilderStands(b)
    BY DEF RehearsalInv, RehearsalShape
  <2>2. CASE Returns(b)
    <3>1. /\ builder' \in [Builders -> BuildStates] /\ builder'[b].at = "idle"
          /\ \A c \in Builders : c # b => builder'[c] = builder[c]
      BY <2>1, <2>2, Returning
    <3> QED
      BY <3>1 DEF BuilderStands
  <2>3. CASE LoadPlan(b) /\ ~Returns(b)
    <3>1. builder[b].at = "load" /\ builder[b].ready /\ GoesOn(b, "look")
      BY <2>3 DEF LoadPlan
    <3>2. /\ builder' \in [Builders -> BuildStates]
          /\ builder'[b].at = "look" /\ builder'[b].run = builder[b].run
          /\ \A c \in Builders : c # b => builder'[c] = builder[c]
      BY <2>1, <3>1, GoingOn
    <3> QED
      BY <1>1, <2>1, <3>1, <3>2 DEF BuilderStands
  <2>4. CASE LookForFile(b) /\ ~Returns(b)
    <3>1. builder[b].at = "look" /\ GoesOn(b, "create")
      BY <2>4 DEF LookForFile
    <3>2. /\ builder' \in [Builders -> BuildStates]
          /\ builder'[b].at = "create" /\ builder'[b].run = builder[b].run
          /\ \A c \in Builders : c # b => builder'[c] = builder[c]
      BY <2>1, <3>1, GoingOn
    <3> QED
      BY <1>1, <2>1, <3>1, <3>2 DEF BuilderStands
  <2>5. CASE OpenBuild(b)
    <3> DEFINE opened == [at |-> "load", run |-> session.active, ready |-> session.status = "READY_FOR_APPROVAL"]
    <3>1. builder' = [builder EXCEPT ![b] = opened]
      BY <2>5 DEF OpenBuild
    <3>2. session.active \in DOMAIN previews /\ session.active \in Nat
      BY EntriesBuilt DEF RehearsalInv, RehearsalShape
    <3>3. opened \in BuildStates
      BY <3>2 DEF BuildStates
    <3>4. /\ opened.at = "load" /\ opened.run = session.active
          /\ opened.ready <=> session.status = "READY_FOR_APPROVAL"
      OBVIOUS
    <3> HIDE DEF opened
    <3>5. /\ builder' \in [Builders -> BuildStates] /\ builder'[b] = opened
          /\ \A c \in Builders : c # b => builder'[c] = builder[c]
      BY <2>1, <3>1, <3>3
    <3> QED
      BY <1>1, <3>2, <3>4, <3>5 DEF BuilderStands, RehearsalInv
  <2> QED
    BY <2>2, <2>3, <2>4, <2>5
<1>3. (\A c \in Builders : BuilderStands(c))' /\ OneFills'
  BY <1>1, <1>2 DEF RehearsalInv, BuilderStands, OneFills
<1>4. /\ RehearsalShape' /\ WholeStands'
      /\ (\A p \in (1 .. MaxPreviews) \ DOMAIN previews : candidate[p] = Absent)'
      /\ (session.status = "READY_FOR_APPROVAL" => previews[session.active].ready)'
  <2>1. /\ session' \in [status : SessionStatuses, active : DOMAIN previews]
        /\ session'.status = "READY_FOR_APPROVAL" => previews[session'.active].ready
    BY <1>1 DEF RehearsalInv, RehearsalShape
  <2> QED
    BY <1>1, <1>2, <2>1, OthersStay
<1> QED
  BY <1>3, <1>4 DEF RehearsalInv

\* A file that appears, is filled or goes, with the previews as they were.
LEMMA FileStep ==
  ASSUME RehearsalInv, NEW b \in Builders, builder[b].at \in {"create", "fill"}, NEW file,
         NEW p, p = builder[b].run, candidate' = [candidate EXCEPT ![p] = file],
         file.state = "whole" => HoldsTheCount(p)',
         builder' \in [Builders -> BuildStates], builder'[b].at \in {"idle", "fill"},
         builder'[b].at = "fill" => candidate[p] = Absent /\ file = Begun /\ builder'[b].run = p,
         builder'[b].at = "idle" => builder[b].at = "fill" \/ file = candidate[p],
         \A c \in Builders : c # b => builder'[c] = builder[c],
         UNCHANGED <<sheet, decisions, previews, session, approved>>
  PROVE  RehearsalInv'
<1>1. p \in DOMAIN previews /\ p \in 1 .. MaxPreviews /\ previews[p].ready /\ BuilderStands(b)
  BY EntriesBuilt DEF RehearsalInv, BuilderStands
<1>2. /\ DOMAIN candidate' = 1 .. MaxPreviews /\ candidate'[p] = file
      /\ \A q \in 1 .. MaxPreviews : q # p => candidate'[q] = candidate[q]
  BY <1>1 DEF RehearsalInv, RehearsalShape
<1>3. RehearsalShape'
  BY <1>2, SameBuilt DEF RehearsalInv, RehearsalShape
<1>4. WholeStands'
  <2> SUFFICES ASSUME NEW q \in DOMAIN previews', candidate'[q].state = "whole"
               PROVE  HoldsTheCount(q)'
    BY DEF WholeStands
  <2>1. q \in DOMAIN previews /\ q \in 1 .. MaxPreviews
    BY EntriesBuilt DEF RehearsalInv
  <2>2. CASE q = p
    BY <1>2, <2>2
  <2>3. CASE q # p
    BY <1>2, <2>1, <2>3, SameCount DEF RehearsalInv, WholeStands
  <2> QED
    BY <2>2, <2>3
<1>5. \A q \in (1 .. MaxPreviews) \ DOMAIN previews : candidate'[q] = Absent
  BY <1>1, <1>2 DEF RehearsalInv
<1>6. \A c \in Builders : c # b /\ builder[c].at = "fill" =>
        builder[c].run # p \/ (builder'[b].at = "idle" /\ builder[b].at = "create")
  BY DEF RehearsalInv, OneFills, BuilderStands, Absent, Begun
<1>7. \A c \in Builders : BuilderStands(c)'
  <2> TAKE c \in Builders
  <2>1. CASE c = b
    BY <1>1, <1>2, <2>1 DEF BuilderStands
  <2>2. CASE c # b
    <3>1. BuilderStands(c) /\ builder'[c] = builder[c]
      BY <2>2 DEF RehearsalInv
    <3>2. builder[c].at = "fill" => candidate'[builder[c].run] = Begun
      BY <1>1, <1>2, <1>6, <2>2, <3>1, EntriesBuilt DEF BuilderStands, RehearsalInv
    <3> QED
      BY <3>1, <3>2 DEF BuilderStands
  <2> QED
    BY <2>1, <2>2
<1>8. OneFills'
  BY <1>1, <1>6 DEF RehearsalInv, OneFills
<1> QED
  BY <1>3, <1>4, <1>5, <1>7, <1>8 DEF RehearsalInv

LEMMA CreateStep == ASSUME RehearsalInv, NEW b \in Builders, CreateCandidate(b) PROVE RehearsalInv'
<1> DEFINE p == builder[b].run
<1>1. /\ UNCHANGED <<sheet, decisions, previews, session, approved>> /\ builder[b].at = "create"
      /\ builder \in [Builders -> BuildStates] /\ BuilderStands(b) /\ p \in DOMAIN candidate
  BY EntriesBuilt DEF CreateCandidate, RehearsalInv, RehearsalShape, BuilderStands
<1>2. CASE candidate[p] = Absent
  <2>1. candidate' = [candidate EXCEPT ![p] = Begun] /\ GoesOn(b, "fill")
    BY <1>2 DEF CreateCandidate
  <2>2. /\ builder' \in [Builders -> BuildStates]
        /\ builder'[b].at = "fill" /\ builder'[b].run = p
        /\ \A c \in Builders : c # b => builder'[c] = builder[c]
    BY <1>1, <2>1, GoingOn
  <2>3. Begun.state # "whole"
    BY DEF Begun
  <2> QED
    BY <1>1, <1>2, <2>1, <2>2, <2>3, FileStep
<1>3. CASE candidate[p] # Absent
  <2>1. candidate' = candidate /\ Returns(b)
    BY <1>3 DEF CreateCandidate
  <2>2. /\ builder' \in [Builders -> BuildStates] /\ builder'[b].at = "idle"
        /\ \A c \in Builders : c # b => builder'[c] = builder[c]
    BY <1>1, <2>1, Returning
  <2>3. (\A c \in Builders : BuilderStands(c))' /\ OneFills'
    BY <1>1, <2>1, <2>2 DEF RehearsalInv, BuilderStands, OneFills
  <2>4. /\ session' \in [status : SessionStatuses, active : DOMAIN previews]
        /\ session'.status = "READY_FOR_APPROVAL" => previews[session'.active].ready
    BY <1>1 DEF RehearsalInv, RehearsalShape
  <2> QED
    BY <1>1, <2>1, <2>2, <2>3, <2>4, OthersStay DEF RehearsalInv
<1> QED
  BY <1>2, <1>3

LEMMA FillStep == ASSUME RehearsalInv, NEW b \in Builders, Fill(b) PROVE RehearsalInv'
<1> SUFFICES ASSUME NEW p, p = builder[b].run PROVE RehearsalInv'
  OBVIOUS
<1> DEFINE file == IF Refused(p) THEN Absent ELSE [state |-> "whole", items |-> ItemsOf(p)]
<1>1. /\ UNCHANGED <<sheet, decisions, previews, session, approved>> /\ builder[b].at = "fill"
      /\ builder \in [Builders -> BuildStates] /\ BuilderStands(b) /\ p \in DOMAIN candidate
      /\ p \in DOMAIN previews /\ previews[p].ready /\ RehearsalShape
      /\ candidate' = [candidate EXCEPT ![p] = file] /\ Returns(b)
  BY EntriesBuilt DEF Fill, RehearsalInv, RehearsalShape, BuilderStands
<1>2. /\ builder' \in [Builders -> BuildStates] /\ builder'[b].at = "idle"
      /\ \A c \in Builders : c # b => builder'[c] = builder[c]
  BY <1>1, Returning
<1>3. file.state = "whole" => HoldsTheCount(p)'
  <2>1. CASE Refused(p)
    BY <2>1 DEF Absent
  <2>2. CASE ~Refused(p)
    <3> DEFINE items == ItemsOf(p)
    <3>1. file.items = items
      BY <2>2
    <3>2. /\ {i.row : i \in items} = CountedRows(p) /\ Cardinality(items) = Cardinality(CountedRows(p))
          /\ \A i \in items :
               /\ i.equipment = IsSerialized(Cells(p, i.row))
               /\ i.minor * Grain(Cells(p, i.row)["UOM"]) = Number[Cells(p, i.row)["Quantity"]]
          /\ \A i, j \in items : i # j /\ ~i.equipment /\ ~j.equipment => i.stock # j.stock
      BY <1>1, <2>2, FilledCount
    <3> HIDE DEF file, items
    <3>3. candidate'[p].items = items
      BY <1>1, <3>1
    <3> QED
      BY <1>1, <3>2, <3>3 DEF HoldsTheCount, CountedRows, Cells
  <2> QED
    BY <2>1, <2>2
<1> HIDE DEF file
<1> QED
  BY <1>1, <1>2, <1>3, FileStep

LEMMA StopStep == ASSUME RehearsalInv, ServerStops PROVE RehearsalInv'
<1>1. /\ UNCHANGED <<sheet, decisions, previews, session, approved, candidate>>
      /\ builder' \in [Builders -> BuildStates] /\ \A c \in Builders : builder'[c].at = "idle"
  BY DEF ServerStops, IdleBuilder, BuildStates
<1>2. (\A c \in Builders : BuilderStands(c))' /\ OneFills'
  BY <1>1 DEF BuilderStands, OneFills
<1>3. /\ session' \in [status : SessionStatuses, active : DOMAIN previews]
      /\ session'.status = "READY_FOR_APPROVAL" => previews[session'.active].ready
  BY <1>1 DEF RehearsalInv, RehearsalShape
<1> QED
  BY <1>1, <1>2, <1>3, OthersStay DEF RehearsalInv

LEMMA LooksFirst == InitRehearsal => RehearsalInv
<1> SUFFICES ASSUME InitRehearsal PROVE RehearsalInv
  OBVIOUS
<1> DEFINE first == PreviewOf({}, approved)
<1>1. /\ sheet \in Sheets /\ decisions \in Seq(Decisions) /\ approved \subseteq Ids
      /\ previews = <<first>>
      /\ session = [status |-> IF decisions = <<>> THEN Outcome(previews[1]) ELSE "REVIEW_REQUIRED",
                    active |-> 1]
      /\ candidate = [p \in 1 .. MaxPreviews |-> Absent] /\ builder = [b \in Builders |-> IdleBuilder]
  BY RehearsalAssumption DEF InitRehearsal, Ids
<1>2. first \in Built
  BY <1>1 DEF Built
<1> HIDE DEF first
<1>3. previews \in Seq(Built) /\ Len(previews) = 1 /\ DOMAIN previews = {1} /\ previews[1] = first
  BY <1>1, <1>2
<1>4. Outcome(previews[1]) \in SessionStatuses /\ "REVIEW_REQUIRED" \in SessionStatuses
      /\ (Outcome(previews[1]) = "READY_FOR_APPROVAL" => previews[1].ready)
  BY DEF Outcome, SessionStatuses
<1>5. /\ session \in [status : SessionStatuses, active : DOMAIN previews]
      /\ session.status = "READY_FOR_APPROVAL" => previews[session.active].ready
  BY <1>1, <1>3, <1>4
<1>6. RehearsalShape
  BY <1>1, <1>3, <1>5, RehearsalAssumption DEF RehearsalShape, BuildStates, IdleBuilder
<1>7. \A p \in 1 .. MaxPreviews : candidate[p] = Absent /\ candidate[p].state # "whole"
  BY <1>1 DEF Absent
<1>8. \A b \in Builders : builder[b].at = "idle"
  BY <1>1 DEF IdleBuilder
<1> QED
  BY <1>3, <1>5, <1>6, <1>7, <1>8, RehearsalAssumption DEF RehearsalInv, WholeStands, BuilderStands, OneFills

LEMMA RehearsalStep == ASSUME RehearsalInv, NextRehearsal PROVE RehearsalInv'
BY DecideStep, ApproveStep, ReviewStep, AnswerStep, LookingStep, CreateStep, FillStep, StopStep
DEF NextRehearsal

-----------------------------------------------------------------------------

\* For any workbooks, decisions, dictionary and request threads: whatever is decided,
\* changed and undone while previews and candidates are built side by side, a ready
\* preview counts only rows that stand and are distinct things, a candidate is the
\* whole count of the preview it is named after, and once whole it is neither changed
\* nor removed (_validate_row, _finding_resolved, build_candidate).
THEOREM CandidateCounts == RehearsalSpec => CandidateIsTheCount
<1> DEFINE stands == \A p \in DOMAIN previews :
          /\ (previews[p].ready => NoTwoAreOne(p) /\ \A r \in CountedRows(p) : RowStands(p, r))
          /\ (candidate[p].state = "whole" => HoldsTheCount(p))
           stays == \A p \in DOMAIN previews : candidate[p].state = "whole" => candidate'[p] = candidate[p]
<1>1. RehearsalInv => stands
  BY ReadyStand DEF RehearsalInv, ReadyStands, WholeStands
<1>2. RehearsalInv /\ NextRehearsal => stays
  <2>1. SUFFICES ASSUME RehearsalInv, NEW b \in Builders, CreateCandidate(b) \/ Fill(b),
                        NEW p \in DOMAIN previews, candidate[p].state = "whole"
                 PROVE  candidate'[p] = candidate[p]
    BY DEF NextRehearsal, Decide, Approve, Review, AnswerReview, OpenBuild, LoadPlan, LookForFile, ServerStops
  <2>2. p # builder[b].run \/ candidate' = candidate
    BY <2>1 DEF CreateCandidate, Fill, RehearsalInv, BuilderStands, Absent, Begun
  <2>3. p \in DOMAIN candidate
    BY <2>1, EntriesBuilt DEF RehearsalInv, RehearsalShape
  <2> QED
    BY <2>1, <2>2, <2>3 DEF CreateCandidate, Fill
<1>3. RehearsalInv /\ [NextRehearsal]_rehearsalVars => RehearsalInv'
  <2>1. RehearsalInv /\ UNCHANGED rehearsalVars => RehearsalInv'
    <3> SUFFICES ASSUME RehearsalInv, UNCHANGED rehearsalVars PROVE RehearsalInv'
      OBVIOUS
    <3>1. UNCHANGED <<sheet, decisions, previews, session, approved, candidate, builder>>
      BY DEF rehearsalVars
    <3>2. /\ session' \in [status : SessionStatuses, active : DOMAIN previews]
          /\ session'.status = "READY_FOR_APPROVAL" => previews[session'.active].ready
          /\ builder' \in [Builders -> BuildStates]
      BY <3>1 DEF RehearsalInv, RehearsalShape
    <3>3. (\A c \in Builders : BuilderStands(c))' /\ OneFills'
      BY <3>1 DEF RehearsalInv, BuilderStands, OneFills
    <3> QED
      BY <3>1, <3>2, <3>3, OthersStay DEF RehearsalInv
  <2> QED
    BY <2>1, RehearsalStep
<1>4. stands /\ stands' /\ stays =>
        /\ \A p \in DOMAIN previews' :
             /\ (previews[p].ready => NoTwoAreOne(p) /\ \A r \in CountedRows(p) : RowStands(p, r))'
             /\ (candidate[p].state = "whole" => HoldsTheCount(p))'
        /\ \A p \in DOMAIN previews : candidate[p].state = "whole" => candidate'[p] = candidate[p]
  OBVIOUS
<1> HIDE DEF stands, stays
<1>5. [](RehearsalInv => stands)
  BY <1>1, PTL
<1> QED
  BY <1>1, <1>2, <1>3, <1>4, LooksFirst, PTL DEF RehearsalSpec, CandidateIsTheCount
===============================================================================
