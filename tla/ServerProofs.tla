--------------------------- MODULE ServerProofs ------------------------------
(***************************************************************************)
(* For any threads, sessions and warehouses: two requests are never both   *)
(* between choosing the file to write and having written it, whichever     *)
(* files they choose. Whoever has passed the first lock holds the primary  *)
(* one until the request ends, also when it took the lock of another       *)
(* warehouse with it. A session that has ended stays ended, so a read that *)
(* found none says something about every later moment of the request: an   *)
(* operation without its engineer's name is one whose session ended.       *)
(*                                                                         *)
(* For any limits, files and confirmations: the rows of a preview are      *)
(* written at most once, and the store of previews stays within its limits *)
(* without forgetting a preview that it had room for.                      *)
(***************************************************************************)
EXTENDS WebRequests, PreviewStore, FiniteSetTheorems, WellFoundedInduction, TLAPS

\* What the locks depend on; what a request has read does not matter.
Typed ==
  /\ DOMAIN thread = Threads /\ DOMAIN owner = Sites
  /\ \A t \in Threads : Idle(t) \/ DOMAIN thread[t] = {"at", "job"}

\* The thread is past the first lock; the choice of a warehouse takes none.
Guarded(t) ==
  \/ thread[t].at \in {"lockSite", "target"}
  \/ thread[t].at = "act" /\ thread[t].job.kind # "select"

Held == \A t \in Threads : Guarded(t) => owner[Primary] = t

IInv == Typed /\ Held

-----------------------------------------------------------------------------

LEMMA InitialThreads == Init => IInv
<1>1. SUFFICES ASSUME Init PROVE IInv
  OBVIOUS
<1>2. \A t \in Threads : thread[t] = NoJob /\ thread[t].at = "idle"
  BY <1>1 DEF Init, NoJob
<1> QED
  BY <1>1, <1>2 DEF Init, IInv, Typed, Held, Idle, Guarded

\* Only thread t moves, no lock changes, and t passes no lock.
LEMMA MoveKeeps ==
  ASSUME IInv, NEW t \in Threads, NEW to, thread' = [thread EXCEPT ![t] = to],
         to = NoJob \/ DOMAIN to = {"at", "job"}, UNCHANGED owner,
         \/ to.at \notin {"lockSite", "target", "act"}
         \/ to.at = "act" /\ to.job.kind = "select"
         \/ Guarded(t)
  PROVE  IInv'
<1>1. /\ DOMAIN thread' = Threads /\ thread'[t] = to
      /\ \A u \in Threads \ {t} : thread'[u] = thread[u]
  BY DEF IInv, Typed
<1>2. Typed'
  BY <1>1 DEF IInv, Typed, Idle
<1>3. Held'
  BY <1>1 DEF IInv, Held, Guarded
<1> QED
  BY <1>2, <1>3 DEF IInv

LEMMA BeginStep ==
  ASSUME IInv, NEW t \in Threads, NEW k \in issued, NEW kind \in Kinds, Begin(t, k, kind)
  PROVE  IInv'
<1> DEFINE work == [at |-> IF kind = "select" THEN "act" ELSE "gate",
                    job |-> [kind |-> kind, token |-> k, gate |-> Primary, name |-> Nameless,
                             lent |-> Nameless, target |-> Primary]]
<1>1. /\ DOMAIN work = {"at", "job"} /\ work.job.kind = kind
      /\ work.at = IF kind = "select" THEN "act" ELSE "gate"
  OBVIOUS
<1>2. /\ NoJob.at = "idle"
      /\ thread' = [thread EXCEPT ![t] = IF Found(k) THEN work ELSE NoJob]
      /\ UNCHANGED owner
  BY DEF Begin, NoJob
<1> HIDE DEF work
<1>3. CASE Found(k)
  BY <1>1, <1>2, <1>3, MoveKeeps
<1>4. CASE ~Found(k)
  BY <1>2, <1>4, MoveKeeps
<1> QED
  BY <1>3, <1>4

\* A read moves on to the lock, or from behind it to the handler.
LEMMA ReadKeeps ==
  ASSUME IInv, NEW t \in Threads, NEW step, NEW field, NEW value, NEW next,
         Read(t, step, field, value, next),
         next \in {"name", "lend", "lock"} \/ step = "target"
  PROVE  IInv'
<1> DEFINE moved == [at |-> next, job |-> [thread[t].job EXCEPT ![field] = value]]
<1>1. DOMAIN moved = {"at", "job"} /\ moved.at = next
  OBVIOUS
<1>2. /\ thread' = [thread EXCEPT ![t] = moved] /\ UNCHANGED owner
      /\ step = "target" => Guarded(t)
  BY DEF Read, Guarded
<1> HIDE DEF moved
<1> QED
  BY <1>1, <1>2, MoveKeeps

LEMMA ReadSteps ==
  ASSUME IInv, NEW t \in Threads, ReadGate(t) \/ ReadName(t) \/ ReadLent(t) \/ ReadTarget(t)
  PROVE  IInv'
BY ReadKeeps DEF ReadGate, ReadName, ReadLent, ReadTarget

\* Thread t moves on without leaving the kind of its request.
LEMMA GoesOn ==
  ASSUME IInv, NEW t \in Threads, ~Idle(t), NEW step, Goes(t, step)
  PROVE  /\ DOMAIN thread' = Threads /\ DOMAIN thread'[t] = {"at", "job"}
         /\ thread'[t].at = step
         /\ \A u \in Threads \ {t} : thread'[u] = thread[u]
<1>1. thread' = [thread EXCEPT ![t] = [thread[t] EXCEPT !.at = step]]
  BY DEF Goes
<1>2. DOMAIN thread = Threads /\ DOMAIN thread[t] = {"at", "job"}
  BY DEF IInv, Typed
<1> QED
  BY <1>1, <1>2

LEMMA LockStep == ASSUME IInv, NEW t \in Threads, Lock(t) PROVE IInv'
<1>1. ~Idle(t) /\ \A u \in Threads : ~Guarded(u)
  BY WebBounds DEF Lock, Idle, NoJob, IInv, Held
<1>2. /\ DOMAIN thread' = Threads /\ DOMAIN thread'[t] = {"at", "job"}
      /\ \A u \in Threads \ {t} : thread'[u] = thread[u]
  BY <1>1, GoesOn DEF Lock
<1>3. owner' = [owner EXCEPT ![Primary] = t] /\ DOMAIN owner' = Sites /\ owner'[Primary] = t
  BY WebBounds DEF Lock, IInv, Typed
<1>4. Typed'
  BY <1>2, <1>3 DEF IInv, Typed, Idle
<1>5. Held'
  BY <1>1, <1>2, <1>3 DEF Held, Guarded
<1> QED
  BY <1>4, <1>5 DEF IInv

LEMMA LockSiteStep == ASSUME IInv, NEW t \in Threads, LockSite(t) PROVE IInv'
<1>1. ~Idle(t) /\ Guarded(t) /\ owner[Primary] = t
  BY DEF LockSite, Idle, NoJob, Guarded, IInv, Held
<1>2. PICK step : Goes(t, step)
  BY DEF LockSite
<1>3. /\ DOMAIN thread' = Threads /\ DOMAIN thread'[t] = {"at", "job"}
      /\ \A u \in Threads \ {t} : thread'[u] = thread[u]
  BY <1>1, <1>2, GoesOn
<1>4. DOMAIN owner' = Sites /\ owner'[Primary] = t
  BY <1>1, WebBounds DEF LockSite, IInv, Typed
<1>5. Typed'
  BY <1>3, <1>4 DEF IInv, Typed, Idle
<1>6. Held'
  BY <1>1, <1>3, <1>4 DEF IInv, Held, Guarded
<1> QED
  BY <1>5, <1>6 DEF IInv

\* Whoever ends gives back only what is his own.
LEMMA FinishKeeps == ASSUME IInv, NEW t \in Threads, Finish(t) PROVE IInv'
<1>1. /\ DOMAIN thread' = Threads /\ thread'[t] = NoJob
      /\ \A u \in Threads \ {t} : thread'[u] = thread[u]
  BY DEF Finish, IInv, Typed
<1>2. /\ DOMAIN owner' = Sites
      /\ owner[Primary] # t => owner'[Primary] = owner[Primary]
  BY WebBounds DEF Finish, Released
<1>3. Typed'
  BY <1>1, <1>2 DEF IInv, Typed, Idle
<1>4. Held'
  <2>1. SUFFICES ASSUME NEW u \in Threads, Guarded(u)' PROVE owner'[Primary] = u
    BY DEF Held
  <2>2. u # t
    BY <1>1, <2>1 DEF Guarded, NoJob
  <2> QED
    BY <1>1, <1>2, <2>1, <2>2 DEF IInv, Held, Guarded
<1> QED
  BY <1>3, <1>4 DEF IInv

LEMMA HandlerSteps ==
  ASSUME IInv, NEW t \in Threads, Act(t) \/ Logout(t) \/ \E site \in Sites : Select(t, site)
  PROVE  IInv'
BY FinishKeeps DEF Act, Logout, Select

LEMMA RestartStep == ASSUME IInv, Restart PROVE IInv'
<1>1. \A t \in Threads : thread'[t] = NoJob /\ thread'[t].at = "idle"
  BY DEF Restart, NoJob
<1> QED
  BY <1>1 DEF Restart, IInv, Typed, Held, Idle, Guarded

-----------------------------------------------------------------------------
(* The invariant, and what it is for. *)

\* IInv holds in every reachable state of the server.
THEOREM Invariance == Spec => []IInv
<1>1. IInv /\ [Next]_vars => IInv'
  <2>1. SUFFICES ASSUME IInv, [Next]_vars PROVE IInv'
    OBVIOUS
  <2>2. CASE UNCHANGED <<thread, owner>>
    BY <2>1, <2>2 DEF IInv, Typed, Held, Idle, Guarded
  <2>3. CASE Next
    BY <2>1, <2>2, <2>3, BeginStep, ReadSteps, LockStep, LockSiteStep, HandlerSteps, RestartStep
       DEF Next, Step, Login, Tick
  <2> QED
    BY <2>1, <2>2, <2>3 DEF vars
<1> QED
  BY <1>1, InitialThreads, PTL DEF Spec

\* Two requests never both choose or write a file, whatever warehouse each of them
\* chose and however its choice changed under way (webapp.py:261-294).
THEOREM OneWriter == Spec => []OneWriterAtATime
<1>1. IInv => OneWriterAtATime
  BY DEF IInv, Held, Guarded, OneWriterAtATime
<1> QED
  BY <1>1, Invariance, PTL

-----------------------------------------------------------------------------
(* Sessions that have ended. *)

TypeInv == TypeOK /\ IsFiniteSet(issued)

LEMMA InitialTypes == Init => TypeInv
<1>1. SUFFICES ASSUME Init PROVE TypeInv
  OBVIOUS
<1>2. IsFiniteSet({})
  BY FS_EmptySet
<1> QED
  BY <1>1, <1>2, WebBounds DEF Init, TypeInv, TypeOK, Idle

\* What a read leaves of the table.
LEMMA TouchedFacts ==
  ASSUME TypeInv, NEW k
  PROVE  /\ DOMAIN Touched(k) = Fresh /\ Fresh \subseteq DOMAIN sessions
         /\ Touched(k) \in [Fresh -> Session]
<1>1. Fresh \subseteq DOMAIN sessions /\ Purged \in [Fresh -> Session] /\ now \in 0 .. MaxTime
  BY DEF TypeInv, TypeOK, Fresh, Purged
<1>2. CASE Found(k)
  <2>1. [Purged[k] EXCEPT !.seen = now] \in Session
    BY <1>1, <1>2 DEF Session, Found
  <2> QED
    BY <1>1, <1>2, <2>1 DEF Touched, Found
<1> QED
  BY <1>1, <1>2 DEF Touched

\* What the choice of a warehouse leaves of it.
LEMMA ChosenFacts ==
  ASSUME TypeInv, NEW k \in Fresh, NEW site \in Sites
  PROVE  LET s == [Purged EXCEPT ![k].site = site, ![k].seen = now]
         IN  DOMAIN s = Fresh /\ s \in [Fresh -> Session]
<1>1. Fresh \subseteq DOMAIN sessions /\ Purged \in [Fresh -> Session] /\ now \in 0 .. MaxTime
  BY DEF TypeInv, TypeOK, Fresh, Purged
<1>2. [[Purged[k] EXCEPT !.site = site] EXCEPT !.seen = now] \in Session
  BY <1>1 DEF Session
<1> QED
  BY <1>1, <1>2

LEMMA BeginTypes ==
  ASSUME TypeInv, NEW t \in Threads, NEW k \in issued, NEW kind \in Kinds, Begin(t, k, kind)
  PROVE  TypeInv'
<1>1. sessions' \in [Fresh -> Session] /\ DOMAIN sessions' = Fresh /\ Fresh \subseteq issued
  BY TouchedFacts DEF Begin, TypeInv, TypeOK
<1>2. \A u \in Threads : Idle(u)' \/ thread'[u] \in [at : Steps, job : Job]
  BY WebBounds DEF Begin, TypeInv, TypeOK, Idle, Kinds, Job, Steps
<1> QED
  BY <1>1, <1>2 DEF Begin, TypeInv, TypeOK

LEMMA ReadTypes ==
  ASSUME TypeInv, NEW t \in Threads, ReadGate(t) \/ ReadName(t) \/ ReadLent(t) \/ ReadTarget(t)
  PROVE  TypeInv'
<1> DEFINE job == thread[t].job
           token == job.token
<1>1. ~Idle(t) /\ thread[t] \in [at : Steps, job : Job] /\ job \in Job /\ token \in Tokens
  BY DEF TypeInv, TypeOK, ReadGate, ReadName, ReadLent, ReadTarget, Job
<1>2. SiteOf(token) \in Sites /\ NameOf(token) \in Tokens \cup {Nameless}
  BY <1>1, WebBounds DEF SiteOf, NameOf, Found, Fresh, TypeInv, TypeOK, Session
<1>3. PICK next \in Steps, moved \in Job :
        /\ sessions' = Touched(token) /\ UNCHANGED <<issued, owner, now>>
        /\ thread' = [thread EXCEPT ![t] = [at |-> next, job |-> moved]]
  <2>1. CASE ReadGate(t)
    BY <1>1, <1>2, <2>1 DEF ReadGate, Read, Steps, Job
  <2>2. CASE ReadName(t)
    BY <1>1, <1>2, <2>2 DEF ReadName, Read, Steps, Job
  <2>3. CASE ReadLent(t)
    BY <1>1, <1>2, <2>3 DEF ReadLent, Read, Steps, Job
  <2>4. CASE ReadTarget(t)
    BY <1>1, <1>2, <2>4 DEF ReadTarget, Read, Steps, Job
  <2> QED
    BY <2>1, <2>2, <2>3, <2>4
<1>4. sessions' \in [Fresh -> Session] /\ DOMAIN sessions' = Fresh /\ Fresh \subseteq issued
  BY <1>3, TouchedFacts DEF TypeInv, TypeOK
<1>5. \A u \in Threads : Idle(u)' \/ thread'[u] \in [at : Steps, job : Job]
  BY <1>3 DEF TypeInv, TypeOK, Idle
<1> QED
  BY <1>3, <1>4, <1>5 DEF TypeInv, TypeOK

LEMMA LockTypes ==
  ASSUME TypeInv, IInv, NEW t \in Threads, Lock(t) \/ LockSite(t)
  PROVE  TypeInv'
<1>1. ~Idle(t)
  BY DEF Lock, LockSite, Idle, NoJob
<1>2. PICK step \in Steps : Goes(t, step)
  BY DEF Lock, LockSite, Steps
<1>3. thread'[t] \in [at : Steps, job : Job] /\ \A u \in Threads \ {t} : thread'[u] = thread[u]
  BY <1>1, <1>2 DEF Goes, TypeInv, TypeOK, IInv, Typed
<1>4. owner' \in [Sites -> Threads \cup {Free}]
  BY WebBounds DEF Lock, LockSite, TypeInv, TypeOK
<1> QED
  BY <1>3, <1>4 DEF Lock, LockSite, TypeInv, TypeOK, Idle

LEMMA HandlerTypes ==
  ASSUME TypeInv, IInv, NEW t \in Threads, Act(t) \/ Logout(t) \/ \E site \in Sites : Select(t, site)
  PROVE  TypeInv'
<1>1. Finish(t) /\ UNCHANGED <<issued, now>>
  BY DEF Act, Logout, Select
<1>2. /\ \A u \in Threads : Idle(u)' \/ thread'[u] \in [at : Steps, job : Job]
      /\ owner' \in [Sites -> Threads \cup {Free}]
  BY <1>1 DEF Finish, Released, TypeInv, TypeOK, Idle
<1>3. sessions' \in [DOMAIN sessions' -> Session] /\ DOMAIN sessions' \subseteq issued
  <2>1. CASE Act(t)
    BY <2>1 DEF Act, TypeInv, TypeOK
  <2>2. CASE Logout(t)
    BY <2>2 DEF Logout, TypeInv, TypeOK
  <2>3. ASSUME NEW site \in Sites, Select(t, site) PROVE <1>3
    <3>1. CASE Found(thread[t].job.token)
      BY <2>3, <3>1, ChosenFacts, TouchedFacts DEF Select, Found, TypeInv, TypeOK
    <3>2. CASE ~Found(thread[t].job.token)
      BY <2>3, <3>2 DEF Select, Purged, Fresh, TypeInv, TypeOK
    <3> QED
      BY <3>1, <3>2
  <2> QED
    BY <2>1, <2>2, <2>3
<1> QED
  BY <1>1, <1>2, <1>3 DEF TypeInv, TypeOK

LEMMA LoginTypes == ASSUME TypeInv, NEW k \in Tokens, Login(k) PROVE TypeInv'
<1>1. Cardinality(issued) \in Nat /\ IsFiniteSet(issued')
  BY FS_CardinalityType, FS_AddElement DEF TypeInv, Login
<1>2. Opened \in Session
  BY <1>1, WebBounds DEF Opened, Session, TypeInv, TypeOK
<1>3. DOMAIN sessions' = Kept \cup {k} /\ Kept \subseteq DOMAIN sessions
  BY DEF Login, Kept, Fresh
<1>4. sessions' \in [Kept \cup {k} -> Session]
  BY <1>2, <1>3 DEF Login, TypeInv, TypeOK
<1> QED
  BY <1>1, <1>3, <1>4 DEF Login, TypeInv, TypeOK, Idle

\* The session table, the locks and what each thread keeps are always well-formed.
THEOREM TypeCorrect == Spec => [](TypeInv /\ IInv)
<1>1. TypeInv /\ IInv /\ [Next]_vars => TypeInv'
  <2>1. SUFFICES ASSUME TypeInv, IInv, [Next]_vars PROVE TypeInv'
    OBVIOUS
  <2>2. CASE UNCHANGED vars
    BY <2>1, <2>2 DEF vars, TypeInv, TypeOK, Idle
  <2>3. CASE Tick
    BY <2>1, <2>3, WebBounds DEF Tick, TypeInv, TypeOK, Idle
  <2>4. CASE Restart
    BY <2>1, <2>4 DEF Restart, TypeInv, TypeOK, Idle
  <2> QED
    BY <2>1, <2>2, <2>3, <2>4, BeginTypes, ReadTypes, LockTypes, HandlerTypes, LoginTypes DEF Next, Step
<1> QED
  BY <1>1, InitialTypes, Invariance, PTL DEF Spec

\* A session is ended by its age or by leaving the table, and no step undoes either.
LEMMA EndedStays ==
  ASSUME TypeInv, [Next]_vars, NEW k \in issued, k \notin Fresh
  PROVE  k \notin Fresh'
<1>1. k \in DOMAIN sessions => /\ sessions[k].seen \in Int /\ now \in Int /\ Ttl \in Int
                               /\ ~(sessions[k].seen >= now - Ttl)
  BY WebBounds DEF TypeInv, TypeOK, Session, Fresh
<1>2. now' = now \/ now' = now + 1
  BY DEF Next, Step, Login, Begin, ReadGate, ReadName, ReadLent, ReadTarget, Read, Lock, LockSite,
         Act, Logout, Select, Tick, Restart, vars
<1>3. k \in DOMAIN sessions' => k \in DOMAIN sessions /\ sessions'[k] = sessions[k]
  <2>1. CASE \E j : sessions' = Touched(j)
    BY <2>1, TouchedFacts
  <2>2. CASE \E t \in Threads, site \in Sites : Select(t, site)
    BY <2>2, ChosenFacts DEF Select, Found, Purged
  <2>3. CASE \E j \in Tokens : Login(j)
    BY <2>3 DEF Login, Kept, Fresh
  <2>4. CASE \E t \in Threads : Logout(t)
    BY <2>4 DEF Logout
  <2>5. CASE UNCHANGED sessions \/ DOMAIN sessions' = {}
    BY <2>5
  <2> QED
    BY <2>1, <2>2, <2>3, <2>4, <2>5
       DEF Next, Step, Begin, ReadGate, ReadName, ReadLent, ReadTarget, Read, Lock, LockSite,
           Act, Tick, Restart, vars
<1> QED
  BY <1>1, <1>2, <1>3 DEF Fresh

\* Sessions that have ended stay ended, whatever requests still run for them
\* (webapp.py:568-590 and select_session).
THEOREM EndedStayEnded == Spec => NoSessionReturns
<1>1. TypeInv /\ [Next]_vars => [\A k \in issued \ Fresh : k \notin Fresh']_vars
  BY EndedStays
<1> QED
  BY <1>1, TypeCorrect, PTL DEF Spec, NoSessionReturns

-----------------------------------------------------------------------------
(* The author of an operation. *)

\* A request that has read no name has found no session, and that is still so.
Asked(j, name) == name = Nameless => ~Found(j.token)
Knows(t) ==
  /\ thread[t].job.token \in issued
  /\ thread[t].job.kind # "select" /\ thread[t].at \notin {"gate", "name"} =>
       Asked(thread[t].job, thread[t].job.name)
  /\ thread[t].job.kind # "select" /\ thread[t].at \notin {"gate", "name", "lend"} =>
       Asked(thread[t].job, thread[t].job.lent)

AuthorKnown == \A t \in Threads : Idle(t) \/ Knows(t)

LEMMA TokensStayIssued == ASSUME [Next]_vars PROVE issued \subseteq issued'
BY DEF Next, Step, Login, Begin, ReadGate, ReadName, ReadLent, ReadTarget, Read, Lock, LockSite,
       Act, Logout, Select, Tick, Restart, vars

\* What a thread knows stays true while it does not move, or moves without reading.
LEMMA KnowsStill ==
  ASSUME TypeInv, [Next]_vars, NEW t \in Threads, Knows(t), thread'[t].job = thread[t].job,
         \/ thread'[t].at = thread[t].at
         \/ thread[t].at \notin {"gate", "name", "lend"}
  PROVE  Knows(t)'
<1>1. PICK k : k = thread[t].job.token /\ k = thread'[t].job.token /\ k \in issued /\ k \in issued'
  BY TokensStayIssued DEF Knows
<1>2. k \notin Fresh => k \notin Fresh'
  BY <1>1, EndedStays
<1> QED
  BY <1>1, <1>2 DEF Knows, Asked, Found

LEMMA BeginKnows ==
  ASSUME IInv, NEW t \in Threads, NEW k \in issued, NEW kind \in Kinds, Begin(t, k, kind)
  PROVE  Idle(t)' \/ Knows(t)'
<1> DEFINE work == [at |-> IF kind = "select" THEN "act" ELSE "gate",
                    job |-> [kind |-> kind, token |-> k, gate |-> Primary, name |-> Nameless,
                             lent |-> Nameless, target |-> Primary]]
<1>1. /\ work.job.kind = kind /\ work.job.token = k
      /\ work.at = IF kind = "select" THEN "act" ELSE "gate"
  OBVIOUS
<1>2. thread'[t] = (IF Found(k) THEN work ELSE NoJob) /\ issued' = issued
  BY DEF Begin, IInv, Typed
<1> HIDE DEF work
<1> QED
  BY <1>1, <1>2 DEF Idle, Knows, Asked

\* A read that finds no name has found no session; from then on there is none.
LEMMA ReadKnows ==
  ASSUME TypeInv, IInv, [Next]_vars, NEW t \in Threads, Knows(t),
         ReadGate(t) \/ ReadName(t) \/ ReadLent(t) \/ ReadTarget(t)
  PROVE  Knows(t)'
<1>1. ~Idle(t) /\ thread[t] \in [at : Steps, job : Job] /\ DOMAIN thread = Threads
  BY DEF TypeInv, TypeOK, IInv, Typed, ReadGate, ReadName, ReadLent, ReadTarget
<1>2. PICK k : k = thread[t].job.token /\ k \in issued /\ k \in issued' /\ k # Nameless
  BY <1>1, TokensStayIssued, WebBounds DEF Knows, TypeInv, TypeOK, Job
<1>3. k \notin Fresh => k \notin Fresh'
  BY <1>2, EndedStays
<1>4. CASE ReadGate(t)
  BY <1>1, <1>2, <1>4 DEF ReadGate, Read, Knows, Job
<1>5. CASE ReadName(t)
  BY <1>1, <1>2, <1>3, <1>5 DEF ReadName, Read, NameOf, Knows, Asked, Found, Job
<1>6. CASE ReadLent(t)
  BY <1>1, <1>2, <1>3, <1>6 DEF ReadLent, Read, NameOf, Knows, Asked, Found, Job
<1>7. CASE ReadTarget(t)
  BY <1>1, <1>2, <1>3, <1>7 DEF ReadTarget, Read, Knows, Asked, Found, Job
<1> QED
  BY <1>4, <1>5, <1>6, <1>7

LEMMA KnowsStep ==
  ASSUME TypeInv, IInv, AuthorKnown, [Next]_vars, NEW t \in Threads
  PROVE  Idle(t)' \/ Knows(t)'
<1>1. CASE thread'[t] = thread[t]
  BY <1>1, KnowsStill DEF AuthorKnown, Idle
<1>2. CASE thread'[t] = NoJob
  BY <1>2 DEF Idle
<1>3. CASE Lock(t) \/ LockSite(t)
  <2>1. thread[t].at \in {"lock", "lockSite"} /\ \E step : Goes(t, step)
    BY <1>3 DEF Lock, LockSite
  <2>2. ~Idle(t) /\ DOMAIN thread[t] = {"at", "job"} /\ DOMAIN thread = Threads
    BY <2>1 DEF Idle, NoJob, IInv, Typed
  <2> QED
    BY <2>1, <2>2, KnowsStill DEF Goes, AuthorKnown
<1>4. CASE ReadGate(t) \/ ReadName(t) \/ ReadLent(t) \/ ReadTarget(t)
  BY <1>4, ReadKnows DEF AuthorKnown, ReadGate, ReadName, ReadLent, ReadTarget
<1>5. CASE \E k \in issued, kind \in Kinds : Begin(t, k, kind)
  BY <1>5, BeginKnows
<1>6. QED
  <2>1. CASE \E u \in Threads : Act(u) \/ Logout(u) \/ \E site \in Sites : Select(u, site)
    BY <1>1, <1>2, <2>1 DEF Act, Logout, Select, Finish, IInv, Typed
  <2>2. CASE \E u \in Threads \ {t} : Step(u) \/ \E k \in issued, kind \in Kinds : Begin(u, k, kind)
    BY <1>1, <2>1, <2>2 DEF Step, Begin, ReadGate, ReadName, ReadLent, ReadTarget, Read, Lock, LockSite,
       Goes, IInv, Typed
  <2>3. CASE Restart
    BY <1>2, <2>3 DEF Restart
  <2>4. CASE UNCHANGED thread
    BY <1>1, <2>4
  <2> QED
    BY <1>3, <1>4, <1>5, <2>1, <2>2, <2>3, <2>4 DEF Next, Step, Login, Tick, vars

\* An operation recorded without its engineer's name belongs to a session that has
\* ended or moved to another warehouse under way (webapp.py:233-294).
THEOREM AuthorIsKnown == Spec => NamelessOnlyAfterAChange
<1>1. Init => AuthorKnown
  BY DEF Init, AuthorKnown, Idle
<1>2. TypeInv /\ IInv /\ AuthorKnown /\ [Next]_vars => AuthorKnown'
  BY KnowsStep DEF AuthorKnown
<1>3. AuthorKnown =>
        \A t \in Threads : Act(t) /\ Author(thread[t].job) = Nameless =>
          ~Found(thread[t].job.token) \/ thread[t].job.gate # thread[t].job.target
  BY DEF AuthorKnown, Idle, NoJob, Knows, Asked, Act, Author
<1>4. AuthorKnown =>
        [\A t \in Threads : Act(t) /\ Author(thread[t].job) = Nameless =>
           \/ ~Found(thread[t].job.token)
           \/ thread[t].job.gate # thread[t].job.target]_vars
  BY <1>3
<1> QED
  BY <1>1, <1>2, <1>4, TypeCorrect, PTL DEF Spec, NamelessOnlyAfterAChange

-----------------------------------------------------------------------------
(* Previews. *)

\* Ids are given out once, and what was written is no longer pending.
PreviewInv ==
  /\ posted \in Seq(Nat) /\ used \in Nat
  /\ \A i \in DOMAIN posted : posted[i] <= used
  /\ \A r \in items : r.id \in Nat /\ r.id <= used
  /\ \A i, j \in DOMAIN posted : posted[i] = posted[j] => i = j
  /\ \A r \in items, i \in DOMAIN posted : posted[i] # r.id

\* However much is forgotten to make room, nothing comes in but the new preview.
LEMMA StoreKeepsOnly ==
  ASSUME NEW I, NEW new
  PROVE  StoreFrom(I, new).items \subseteq I \cup {new}
BY DEF StoreFrom, Newest

LEMMA AliveKeepsOnly == Alive(items) \subseteq items
BY DEF Alive

LEMMA PreviewStep ==
  ASSUME PreviewInv, NEW a, NEW k, NEW n, Preview(a, k, n)
  PROVE  PreviewInv'
<1>1. \A r \in items' : r \in items \/ r.id = used + 1
  <2>1. PICK new : new.id = used + 1 /\ items' = StoreFrom(Alive(items), new).items
    BY DEF Preview, Rows
  <2> QED
    BY <2>1, StoreKeepsOnly, AliveKeepsOnly
<1>2. posted' = posted /\ used' = used + 1
  BY DEF Preview
<1>3. used \in Nat /\ \A i \in DOMAIN posted : posted[i] \in Nat /\ posted[i] <= used
  BY DEF PreviewInv
<1>4. \A r \in items' : r.id \in Nat /\ r.id <= used + 1 /\ \A i \in DOMAIN posted : posted[i] # r.id
  BY <1>1, <1>3 DEF PreviewInv
<1>5. \A i \in DOMAIN posted : posted[i] <= used + 1
  BY <1>3
<1> QED
  BY <1>2, <1>3, <1>4, <1>5 DEF PreviewInv

LEMMA ConfirmStep ==
  ASSUME PreviewInv, NEW id \in 1 .. used, NEW a, NEW k, NEW valid, Confirm(id, a, k, valid)
  PROVE  PreviewInv'
<1>1. used' = used + 1 /\ \A r \in items' : r \in items /\ r.id # id
  <2>1. PICK check :
          /\ check.id = used + 1
          /\ items' = Without(StoreFrom(Without(Alive(items), id), check).items, check.id)
    BY DEF Confirm, Rows
  <2>2. \A r \in items' : r \in Without(Alive(items), id) \/ (r = check /\ r.id # check.id)
    BY <2>1, StoreKeepsOnly DEF Without
  <2> QED
    BY <2>2, AliveKeepsOnly DEF Without, Confirm
<1>2. PICK r \in items : r.id = id
  BY AliveKeepsOnly DEF Pending, Confirm
<1>3. used \in Nat /\ id \in Nat /\ \A i \in DOMAIN posted : posted[i] \in Nat /\ posted[i] <= used /\ posted[i] # id
  BY <1>2 DEF PreviewInv
<1>4. id <= used /\ \A i \in DOMAIN posted : posted[i] <= used + 1
  BY <1>3
<1>5. \A s \in items' : s.id \in Nat /\ s.id <= used + 1 /\ s.id # id /\ \A i \in DOMAIN posted : posted[i] # s.id
  BY <1>1, <1>3 DEF PreviewInv
<1>6. CASE posted' = posted
  BY <1>1, <1>3, <1>4, <1>5, <1>6 DEF PreviewInv
<1>7. CASE posted' = Append(posted, id)
  <2>1. /\ posted' \in Seq(Nat) /\ DOMAIN posted' = 1 .. Len(posted) + 1 /\ DOMAIN posted = 1 .. Len(posted)
        /\ posted'[Len(posted) + 1] = id /\ Len(posted) \in Nat
        /\ \A i \in DOMAIN posted : posted'[i] = posted[i]
    BY <1>3, <1>7 DEF PreviewInv
  <2>2. \A i \in DOMAIN posted' : i \in DOMAIN posted \/ i = Len(posted) + 1
    BY <2>1
  <2>3. \A i, j \in DOMAIN posted' : posted'[i] = posted'[j] => i = j
    BY <1>3, <2>1, <2>2 DEF PreviewInv
  <2>4. \A s \in items', i \in DOMAIN posted' : posted'[i] # s.id
    BY <1>5, <2>1, <2>2
  <2>5. \A i \in DOMAIN posted' : posted'[i] <= used + 1
    BY <1>3, <1>4, <2>1, <2>2
  <2>6. used + 1 \in Nat /\ \A s \in items' : s.id \in Nat /\ s.id <= used + 1
    BY <1>3, <1>5
  <2> QED
    BY <1>1, <2>1, <2>3, <2>4, <2>5, <2>6 DEF PreviewInv
<1> QED
  BY <1>6, <1>7 DEF Confirm

\* A preview is written once, also when it is confirmed twice, and never after it
\* was forgotten (previews.py:86, 111).
THEOREM WrittenOnce == PreviewSpec => []PostedOnce
<1>1. InitPreviews => PreviewInv
  BY DEF InitPreviews, PreviewInv
<1>2. PreviewInv /\ [NextPreviews]_previewVars => PreviewInv'
  <2>1. SUFFICES ASSUME PreviewInv, [NextPreviews]_previewVars PROVE PreviewInv'
    OBVIOUS
  <2>2. CASE \E a \in Authors, k \in FileKinds, n \in Sizes : Preview(a, k, n)
    BY <2>1, <2>2, PreviewStep
  <2>3. CASE \E id \in 1 .. used, a \in Authors, k \in FileKinds, valid \in BOOLEAN : Confirm(id, a, k, valid)
    BY <2>1, <2>3, ConfirmStep
  <2>4. CASE items' \subseteq items /\ UNCHANGED <<posted, used>>
    BY <2>1, <2>4 DEF PreviewInv
  <2> QED
    BY <2>1, <2>2, <2>3, <2>4, AliveKeepsOnly DEF NextPreviews, Look, ClockTicks, Forget, previewVars
<1>3. PreviewInv => PostedOnce
  BY DEF PreviewInv, PostedOnce, IsInjective, ToSet
<1> QED
  BY <1>1, <1>2, <1>3, PTL DEF PreviewSpec

\* What the store holds are previews whole: of a known author and kind, stored
\* under an id already given out and no later than now (previews.py:40).
THEOREM PreviewTypes == PreviewSpec => []PreviewTypeOK
<1>1. InitPreviews => PreviewTypeOK
  BY PreviewBounds DEF InitPreviews, PreviewTypeOK
<1>2. ASSUME PreviewTypeOK, NEW a \in Authors, NEW k \in FileKinds, NEW n \in Sizes, used < MaxIds
      PROVE  Rows(a, k, n) \in Item /\ used + 1 \in 0 .. MaxIds
  BY <1>2, PreviewBounds DEF PreviewTypeOK, Rows, Item
<1>3. ASSUME NEW I, NEW new
      PROVE  StoreFrom(I, new).cache \subseteq cache \cup {new}
  BY DEF StoreFrom, Newest, Alive
<1>4. PreviewTypeOK /\ [NextPreviews]_previewVars => PreviewTypeOK'
  <2>1. SUFFICES ASSUME PreviewTypeOK, [NextPreviews]_previewVars PROVE PreviewTypeOK'
    OBVIOUS
  <2>2. ASSUME NEW a \in Authors, NEW k \in FileKinds, NEW n \in Sizes, Preview(a, k, n)
        PROVE  PreviewTypeOK'
    <3>1. PICK new \in Item :
            /\ items' = StoreFrom(Alive(items), new).items
            /\ cache' = StoreFrom(Alive(items), new).cache
      BY <1>2, <2>1, <2>2 DEF Preview
    <3>2. items' \subseteq items \cup {new} /\ cache' \subseteq cache \cup {new}
      BY <1>3, <3>1, StoreKeepsOnly, AliveKeepsOnly
    <3>3. used' \in 0 .. MaxIds /\ UNCHANGED <<posted, clock>>
      BY <1>2, <2>1, <2>2 DEF Preview
    <3> QED
      BY <2>1, <3>1, <3>2, <3>3 DEF PreviewTypeOK
  <2>3. ASSUME NEW id \in 1 .. used, NEW a \in Authors, NEW k \in FileKinds, NEW valid \in BOOLEAN,
               Confirm(id, a, k, valid)
        PROVE  PreviewTypeOK'
    <3>1. (CHOOSE s \in items : s.id = id).size \in Sizes
      <4>1. PICK s \in items : s.id = id
        BY <2>3, AliveKeepsOnly DEF Confirm, Pending
      <4>2. (CHOOSE t \in items : t.id = id) \in items
        BY <4>1
      <4> QED
        BY <2>1, <4>2 DEF PreviewTypeOK, Item
    <3>2. PICK check \in Item :
            /\ items' = Without(StoreFrom(Without(Alive(items), id), check).items, check.id)
            /\ cache' = StoreFrom(Without(Alive(items), id), check).cache
      BY <1>2, <2>1, <2>3, <3>1 DEF Confirm
    <3>3. items' \subseteq items \cup {check} /\ cache' \subseteq cache \cup {check}
      <4>1. StoreFrom(Without(Alive(items), id), check).items \subseteq Without(Alive(items), id) \cup {check}
        BY StoreKeepsOnly
      <4> QED
        BY <1>3, <3>2, <4>1, AliveKeepsOnly DEF Without
    <3>4. used' \in 0 .. MaxIds /\ clock' = clock
      BY <1>2, <2>1, <2>3, <3>1 DEF Confirm
    <3>5. posted' \in Seq(1 .. MaxIds)
      <4>1. id \in 1 .. MaxIds
        BY <2>1, <2>3, PreviewBounds DEF PreviewTypeOK
      <4>2. posted' = posted \/ posted' = Append(posted, id)
        BY <2>3 DEF Confirm
      <4>3. ASSUME NEW S, posted \in Seq(S), id \in S
            PROVE  Append(posted, id) \in Seq(S)
        BY <4>3
      <4> QED
        BY <2>1, <4>1, <4>2, <4>3 DEF PreviewTypeOK
    <3> QED
      BY <2>1, <3>2, <3>3, <3>4, <3>5 DEF PreviewTypeOK
  <2>4. CASE Look
    BY <2>1, <2>4 DEF Look, PreviewTypeOK, Alive
  <2>5. CASE ClockTicks
    BY <2>1, <2>5, PreviewBounds DEF ClockTicks, PreviewTypeOK
  <2>6. CASE Forget \/ UNCHANGED previewVars
    BY <2>1, <2>6 DEF Forget, PreviewTypeOK, previewVars
  <2> QED
    BY <2>1, <2>2, <2>3, <2>4, <2>5, <2>6 DEF NextPreviews
<1> QED
  BY <1>1, <1>4, PTL DEF PreviewSpec

-----------------------------------------------------------------------------
(* The total of the rows is a fold over a finite set. It is a number, and more rows *)
(* make it no smaller: by the least size of a set for which that would not hold.    *)

\* Some whole numbers have a least one.
LEMMA Least ==
  ASSUME NEW N \in SUBSET Nat, N # {}
  PROVE  \E m \in N : \A k \in N : m <= k
<1>1. \E m \in N : \A k \in N : ~ (<<k, m>> \in OpToRel(<, Nat))
  BY NatLessThanWellFounded, WFMin
<1>2. PICK m \in N : \A k \in N : ~ (k < m)
  BY <1>1 DEF OpToRel
<1>3. \A k \in N : m <= k
  BY <1>2
<1> QED
  BY <1>3

\* The row a fold takes out of s first, and the totals of the subsets of S as it
\* fills them in.
Chosen(s) == CHOOSE x \in s : TRUE
Totals(S, A) ==
  A = [s \in SUBSET S |-> IF s = {} THEN 0 ELSE Chosen(s).size + A[s \ {Chosen(s)}]]

LEMMA Smaller ==
  ASSUME NEW s, IsFiniteSet(s), s # {}
  PROVE  /\ Chosen(s) \in s /\ IsFiniteSet(s \ {Chosen(s)})
         /\ Cardinality(s) \in Nat /\ Cardinality(s) # 0
         /\ Cardinality(s \ {Chosen(s)}) = Cardinality(s) - 1
<1>1. Chosen(s) \in s
  BY DEF Chosen
<1>2. Cardinality(s) \in Nat
  BY FS_CardinalityType
<1>3. Cardinality(s) # 0
  BY FS_EmptySet
<1>4. Cardinality(s \ {Chosen(s)}) = Cardinality(s) - 1 /\ IsFiniteSet(s \ {Chosen(s)})
  BY <1>1, FS_RemoveElement
<1> QED
  BY <1>1, <1>2, <1>3, <1>4

\* They can be filled in: a smallest size of subsets up to which they cannot would be
\* one more than a size up to which they can.
LEMMA TotalsExist ==
  ASSUME NEW S, IsFiniteSet(S)
  PROVE  \E A : Totals(S, A)
<1> DEFINE Upto(n) == {s \in SUBSET S : Cardinality(s) <= n}
           Row(A, s) == IF s = {} THEN 0 ELSE Chosen(s).size + A[s \ {Chosen(s)}]
           Filled(n, A) == A = [s \in Upto(n) |-> Row(A, s)]
           Gaps == {n \in Nat : ~ \E A : Filled(n, A)}
<1>1. ASSUME NEW s \in SUBSET S
      PROVE  IsFiniteSet(s) /\ Cardinality(s) \in Nat /\ (Cardinality(s) = 0 <=> s = {})
  BY FS_Subset, FS_CardinalityType, FS_EmptySet
<1>2. Cardinality(S) \in Nat /\ \A s \in SUBSET S : Cardinality(s) <= Cardinality(S)
  BY FS_CardinalityType, FS_Subset
<1>3. Gaps = {}
  <2>1. SUFFICES ASSUME Gaps # {} PROVE FALSE
    OBVIOUS
  <2>2. PICK m \in Gaps : \A k \in Gaps : m <= k
    BY <2>1, Least
  <2>3. m \in Nat /\ ~ \E A : Filled(m, A)
    OBVIOUS
  <2>4. m # 0
    <3>1. SUFFICES ASSUME m = 0 PROVE FALSE
      OBVIOUS
    <3>2. Upto(0) = {{}}
      BY <1>1
    <3>3. Filled(0, [s \in {{}} |-> 0])
      BY <3>2
    <3> QED
      BY <2>3, <3>1, <3>3
  <2>5. PICK A : Filled(m - 1, A)
    <3>1. m - 1 \in Nat /\ ~ (m <= m - 1)
      BY <2>3, <2>4
    <3>2. m - 1 \notin Gaps
      <4> HIDE DEF Gaps
      <4> QED
        BY <2>2, <3>1
    <3> QED
      BY <3>1, <3>2
  <2> DEFINE B == [s \in Upto(m) |-> Row(A, s)]
  <2>6. ASSUME NEW s \in Upto(m) PROVE Row(B, s) = Row(A, s)
    <3>1. CASE s = {}
      BY <3>1
    <3>2. CASE s # {}
      <4> DEFINE r == s \ {Chosen(s)}
      <4>1. r \in SUBSET S /\ Cardinality(r) = Cardinality(s) - 1 /\ Cardinality(s) \in Nat
        BY <1>1, <3>2, Smaller
      <4>2. r \in Upto(m - 1) /\ r \in Upto(m)
        BY <2>3, <4>1
      <4>3. A[r] = Row(A, r)
        BY <2>5, <4>2
      <4>4. B[r] = Row(A, r)
        BY <4>2
      <4> QED
        BY <3>2, <4>3, <4>4
    <3> QED
      BY <3>1, <3>2
  <2>7. Filled(m, B)
    BY <2>6
  <2> QED
    BY <2>3, <2>7
<1>4. PICK A : Filled(Cardinality(S), A)
  BY <1>2, <1>3
<1>5. Upto(Cardinality(S)) = SUBSET S
  BY <1>2
<1>6. Totals(S, A)
  BY <1>4, <1>5 DEF Totals
<1> QED
  BY <1>6

\* Two tables agree where both have an entry.
LEMMA TotalsAgree ==
  ASSUME NEW S, NEW R \in SUBSET S, IsFiniteSet(R), NEW A, Totals(S, A), NEW B, Totals(R, B)
  PROVE  A[R] = B[R]
<1>1. ASSUME NEW s \in SUBSET R, s # {}
      PROVE  /\ A[s] = Chosen(s).size + A[s \ {Chosen(s)}]
             /\ B[s] = Chosen(s).size + B[s \ {Chosen(s)}]
  BY <1>1 DEF Totals
<1>2. A[{}] = 0 /\ B[{}] = 0
  BY DEF Totals
<1> DEFINE Sizes2 == {n \in Nat : \E s \in SUBSET R : Cardinality(s) = n /\ A[s] # B[s]}
<1>3. Sizes2 = {}
  <2>1. SUFFICES ASSUME Sizes2 # {} PROVE FALSE
    OBVIOUS
  <2>2. PICK m \in Sizes2 : \A k \in Sizes2 : m <= k
    BY <2>1, Least
  <2>3. PICK s \in SUBSET R : Cardinality(s) = m /\ A[s] # B[s]
    OBVIOUS
  <2>4. s # {} /\ IsFiniteSet(s)
    BY <1>2, <2>3, FS_Subset
  <2> DEFINE r == s \ {Chosen(s)}
  <2>5. r \in SUBSET R /\ Cardinality(s) \in Nat /\ Cardinality(s) # 0 /\ Cardinality(r) = Cardinality(s) - 1
    BY <2>4, Smaller
  <2>6. A[r] # B[r]
    BY <1>1, <2>3, <2>4
  <2> HIDE DEF r
  <2>7. Cardinality(r) \in Nat /\ ~ (m <= Cardinality(r))
    BY <2>3, <2>5
  <2>8. Cardinality(r) \in Sizes2
    BY <2>5, <2>6, <2>7
  <2> HIDE DEF Sizes2
  <2> QED
    BY <2>2, <2>7, <2>8
<1>4. Cardinality(R) \in Nat
  BY FS_CardinalityType
<1> QED
  BY <1>3, <1>4

\* The total of a set, from that of a smaller one.
LEMMA TotalStep ==
  ASSUME NEW S, IsFiniteSet(S)
  PROVE  IF S = {} THEN Total(S) = 0
         ELSE Total(S) = Chosen(S).size + Total(S \ {Chosen(S)})
<1>1. ASSUME NEW R, IsFiniteSet(R)
      PROVE  \E A : Totals(R, A) /\ Total(R) = A[R]
  <2>1. Total(R) = (CHOOSE A : Totals(R, A))[R]
    BY DEF Total, MapThenSumSet, MapThenFoldSet, Totals, Chosen
  <2> QED
    BY <1>1, <2>1, TotalsExist
<1>2. PICK A : Totals(S, A) /\ Total(S) = A[S]
  BY <1>1
<1>3. CASE S = {}
  BY <1>2, <1>3 DEF Totals
<1>4. CASE S # {}
  <2> DEFINE R == S \ {Chosen(S)}
  <2>1. IsFiniteSet(R) /\ R \in SUBSET S
    BY <1>4, Smaller
  <2>2. PICK B : Totals(R, B) /\ Total(R) = B[R]
    BY <1>1, <2>1
  <2>3. A[R] = B[R]
    <3> HIDE DEF R
    <3> QED
      BY <1>2, <2>1, <2>2, TotalsAgree
  <2>4. A[S] = Chosen(S).size + A[R]
    BY <1>2, <1>4 DEF Totals
  <2> QED
    BY <1>2, <1>4, <2>2, <2>3, <2>4
<1> QED
  BY <1>3, <1>4

\* Rows that can be counted.
Counted(S) == IsFiniteSet(S) /\ \A r \in S : r.size \in Nat

LEMMA TotalAdds ==
  ASSUME NEW S, Counted(S), NEW x, x.size \in Nat, x \notin S
  PROVE  /\ Total(S) \in Nat
         /\ Total(S \cup {x}) = Total(S) + x.size
<1> DEFINE W == S \cup {x}
           Fine(s) == /\ Total(s) \in Nat
                      /\ \A y \in W \ s : Total(s \cup {y}) = Total(s) + y.size
           Wrong == {n \in Nat : \E s \in SUBSET W : Cardinality(s) = n /\ ~Fine(s)}
<1>1. IsFiniteSet(W) /\ \A y \in W : y.size \in Nat
  BY FS_AddElement DEF Counted
<1>2. \A s \in SUBSET W : IsFiniteSet(s) /\ Cardinality(s) \in Nat
  BY <1>1, FS_Subset, FS_CardinalityType
<1> HIDE DEF W
<1>3. Wrong = {}
  <2>1. SUFFICES ASSUME Wrong # {} PROVE FALSE
    OBVIOUS
  <2>2. PICK m \in Wrong : \A k \in Wrong : m <= k
    BY <2>1, Least
  <2>3. PICK s \in SUBSET W : Cardinality(s) = m /\ ~Fine(s)
    OBVIOUS
  <2>4. ASSUME NEW r \in SUBSET W, Cardinality(r) < m PROVE Fine(r)
    <3>1. Cardinality(r) \notin Wrong
      <4> HIDE DEF Wrong
      <4> QED
        BY <1>2, <2>2, <2>3, <2>4
    <3> QED
      BY <1>2, <3>1
  <2>5. Total(s) \in Nat
    <3> HIDE DEF Wrong, Fine
    <3>0. IsFiniteSet(s)
      BY <1>2
    <3>1. CASE s = {}
      BY <3>0, <3>1, TotalStep
    <3>2. CASE s # {}
      <4>1. /\ Chosen(s) \in s /\ s \ {Chosen(s)} \in SUBSET W
            /\ Cardinality(s \ {Chosen(s)}) < m
        BY <1>2, <2>3, <3>2, Smaller
      <4>2. Total(s \ {Chosen(s)}) \in Nat
        BY <2>4, <4>1 DEF Fine
      <4>3. Chosen(s).size \in Nat
        BY <1>1, <4>1
      <4> QED
        BY <1>2, <3>2, <4>2, <4>3, TotalStep
    <3> QED
      BY <3>1, <3>2
  <2>6. ASSUME NEW y \in W \ s PROVE Total(s \cup {y}) = Total(s) + y.size
    <3> DEFINE t == s \cup {y}
               c == Chosen(t)
    <3>1. t # {} /\ t \in SUBSET W /\ c \in t
      BY DEF Chosen
    <3>2. Total(t) = c.size + Total(t \ {c})
      BY <1>2, <3>1, TotalStep
    <3> HIDE DEF c
    <3>3. CASE c = y
      <4>1. t \ {c} = s
        BY <3>3
      <4> QED
        BY <1>1, <2>5, <3>2, <3>3, <4>1
    <3>4. CASE c # y
      <4> DEFINE r == s \ {c}
      <4>1. c \in s /\ t \ {c} = r \cup {y} /\ r \cup {c} = s /\ r \in SUBSET W /\ y \in W \ r /\ c \in W \ r
        BY <3>1, <3>4
      <4>2. Cardinality(r) = Cardinality(s) - 1
        BY <1>2, <4>1, FS_RemoveElement
      <4> HIDE DEF r
      <4>3. Fine(r)
        BY <1>2, <2>3, <2>4, <4>1, <4>2
      <4>4. Total(t \ {c}) = Total(r) + y.size /\ Total(s) = Total(r) + c.size /\ Total(r) \in Nat
        BY <4>1, <4>3
      <4>5. y.size \in Nat /\ c.size \in Nat
        BY <1>1, <4>1
      <4> QED
        BY <3>2, <4>4, <4>5
    <3> QED
      BY <3>3, <3>4
  <2> QED
    BY <2>3, <2>5, <2>6
<1>4. Fine(S)
  <2>1. S \in SUBSET W
    BY DEF W
  <2> QED
    BY <1>2, <1>3, <2>1
<1> QED
  BY <1>4 DEF W

LEMMA TotalIsNumber == ASSUME NEW S, Counted(S) PROVE Total(S) \in Nat
<1>1. PICK x : x = [size |-> 0, of |-> S]
  OBVIOUS
<1>2. x.size \in Nat
  <2>1. x.size = 0
    BY <1>1
  <2> QED
    BY <2>1
<1>3. CASE x \notin S
  BY <1>2, <1>3, TotalAdds
<1>4. CASE x \in S
  <2>1. PICK T : T = S \ {x}
    OBVIOUS
  <2>2. Counted(T) /\ x \notin T /\ T \cup {x} = S
    BY <1>4, <2>1, FS_RemoveElement DEF Counted
  <2>3. Total(T) \in Nat /\ Total(T \cup {x}) = Total(T) + x.size
    BY <1>2, <2>2, TotalAdds
  <2> QED
    BY <1>2, <2>2, <2>3
<1> QED
  BY <1>3, <1>4

LEMMA TotalGrows ==
  ASSUME NEW S, Counted(S), NEW R \in SUBSET S
  PROVE  Total(R) \in Nat /\ Total(S) \in Nat /\ Total(R) <= Total(S)
<1> DEFINE Wrong == {n \in Nat : \E s \in SUBSET S : /\ Cardinality(s) = n /\ R \subseteq s
                                                     /\ ~ (Total(R) <= Total(s))}
<1>1. \A s \in SUBSET S : Counted(s) /\ Cardinality(s) \in Nat /\ Total(s) \in Nat
  <2>1. ASSUME NEW s \in SUBSET S PROVE Counted(s)
    BY FS_Subset DEF Counted
  <2>2. ASSUME NEW s \in SUBSET S PROVE Total(s) \in Nat
    BY <2>1, TotalIsNumber
  <2> QED
    BY <2>1, <2>2, FS_CardinalityType DEF Counted
<1>2. ASSUME NEW s \in SUBSET S, NEW y \in s
      PROVE  /\ Total(s) = Total(s \ {y}) + y.size /\ y.size \in Nat
             /\ Cardinality(s \ {y}) = Cardinality(s) - 1
  <2> DEFINE t == s \ {y}
  <2>1. /\ Counted(t) /\ y.size \in Nat /\ y \notin t /\ t \cup {y} = s
        /\ Cardinality(t) = Cardinality(s) - 1
    BY <1>1, FS_RemoveElement DEF Counted
  <2> HIDE DEF t
  <2>2. Total(t \cup {y}) = Total(t) + y.size
    BY <2>1, TotalAdds
  <2>3. Total(s) = Total(t) + y.size /\ Cardinality(t) = Cardinality(s) - 1
    BY <2>1, <2>2
  <2> QED
    BY <2>1, <2>3 DEF t
<1>3. Wrong = {}
  <2>1. SUFFICES ASSUME Wrong # {} PROVE FALSE
    OBVIOUS
  <2>2. PICK m \in Wrong : \A k \in Wrong : m <= k
    BY <2>1, Least
  <2>3. PICK s \in SUBSET S : Cardinality(s) = m /\ R \subseteq s /\ ~ (Total(R) <= Total(s))
    OBVIOUS
  <2>4. PICK y \in s : y \notin R
    <3>1. s # R
      BY <1>1, <2>3
    <3> QED
      BY <2>3, <3>1
  <2>5. PICK t : t = s \ {y}
    OBVIOUS
  <2>6. t \in SUBSET S /\ R \subseteq t
    BY <2>3, <2>4, <2>5
  <2>7. Total(s) = Total(t) + y.size /\ y.size \in Nat /\ Cardinality(t) = Cardinality(s) - 1
    BY <1>2, <2>4, <2>5
  <2>8. Cardinality(t) \in Nat /\ ~ (m <= Cardinality(t)) /\ ~ (Total(R) <= Total(t))
    <3>1. /\ Total(t) \in Nat /\ Cardinality(t) \in Nat /\ Cardinality(s) \in Nat
          /\ Total(R) \in Nat /\ Total(s) \in Nat
      BY <1>1, <2>6
    <3> HIDE DEF Wrong
    <3> QED
      BY <2>3, <2>7, <3>1
  <2>9. Cardinality(t) \in Wrong
    BY <2>6, <2>8
  <2> HIDE DEF Wrong
  <2> QED
    BY <2>2, <2>8, <2>9
<1>4. Total(R) \in Nat /\ Total(S) \in Nat /\ Cardinality(S) \in Nat
  BY <1>1
<1> QED
  BY <1>3, <1>4

-----------------------------------------------------------------------------

\* Rows the store can hold: numbered, and no two of them alike.
Books(S) ==
  /\ IsFiniteSet(S)
  /\ \A r \in S : r.id \in Nat /\ r.made \in Nat /\ r.size \in Nat
  /\ \A r, s \in S : r.id = s.id => r = s

LEMMA BooksPart == ASSUME NEW S, Books(S), NEW T \in SUBSET S PROVE Books(T) /\ Counted(T)
BY FS_Subset DEF Books, Counted

LEMMA BooksWith ==
  ASSUME NEW S, Books(S), NEW x, x.id \in Nat, x.made \in Nat, x.size \in Nat,
         \A s \in S : s.id # x.id
  PROVE  Books(S \cup {x})
BY FS_AddElement DEF Books

LEMMA FirstStored ==
  ASSUME NEW S, Books(S), S # {}
  PROVE  \E m \in S : \A r \in S : m.id <= r.id
<1> DEFINE Ids == {r.id : r \in S}
<1>1. Ids \in SUBSET Nat /\ Ids # {}
  BY DEF Books
<1>2. PICK k \in Ids : \A j \in Ids : k <= j
  <2> HIDE DEF Ids
  <2> QED
    BY <1>1, Least
<1> QED
  BY <1>2

\* The newest rows are no more than asked for, and all of them if they are that few.
LEMMA NewestLimits ==
  ASSUME NEW S, Books(S), NEW n \in Nat, n # 0
  PROVE  /\ Newest(S, n) \in SUBSET S
         /\ Cardinality(Newest(S, n)) <= n
         /\ Cardinality(S) <= n => Newest(S, n) = S
<1> DEFINE N == Newest(S, n)
           After(r) == {s \in S : s.id > r.id}
<1>1. N = {r \in S : Cardinality(After(r)) < n} /\ N \in SUBSET S
  BY DEF Newest
<1>2. Cardinality(N) <= n
  <2>1. CASE N = {}
    BY <2>1, FS_EmptySet
  <2>2. CASE N # {}
    <3>1. PICK m \in N : \A r \in N : m.id <= r.id
      <4> HIDE DEF N
      <4> QED
        BY <1>1, <2>2, BooksPart, FirstStored
    <3>2. After(m) \in SUBSET S /\ m \in S /\ IsFiniteSet(After(m)) /\ Cardinality(After(m)) \in Nat
      BY <1>1, FS_Subset, FS_CardinalityType DEF Books
    <3>3. Cardinality(After(m)) < n
      BY <1>1
    <3>4. N \in SUBSET (After(m) \cup {m})
      BY <1>1, <3>1 DEF Books
    <3> HIDE DEF N, After
    <3>5. /\ IsFiniteSet(After(m) \cup {m})
          /\ Cardinality(After(m) \cup {m}) \in Nat
          /\ Cardinality(After(m) \cup {m}) <= Cardinality(After(m)) + 1
      <4>1. PICK T : T = After(m)
        OBVIOUS
      <4>2. IsFiniteSet(T \cup {m}) /\ Cardinality(T) \in Nat
        BY <3>2, <4>1, FS_AddElement
      <4>3. Cardinality(T \cup {m}) = IF m \in T THEN Cardinality(T) ELSE Cardinality(T) + 1
        BY <3>2, <4>1, FS_AddElement
      <4> QED
        BY <4>1, <4>2, <4>3, FS_CardinalityType
    <3>6. Cardinality(N) <= Cardinality(After(m) \cup {m}) /\ Cardinality(N) \in Nat
      BY <3>4, <3>5, FS_Subset, FS_CardinalityType
    <3> QED
      BY <3>2, <3>3, <3>5, <3>6
  <2> QED
    BY <2>1, <2>2
<1>3. ASSUME Cardinality(S) <= n, NEW r \in S PROVE r \in N
  <2>1. After(r) \in SUBSET (S \ {r})
    BY DEF Books
  <2>2. /\ IsFiniteSet(S \ {r}) /\ Cardinality(S \ {r}) = Cardinality(S) - 1
        /\ Cardinality(S) \in Nat
    BY FS_RemoveElement, FS_CardinalityType DEF Books
  <2>3. Cardinality(After(r)) <= Cardinality(S \ {r}) /\ Cardinality(After(r)) \in Nat
    <3> HIDE DEF After
    <3> QED
      BY <2>1, <2>2, FS_Subset, FS_CardinalityType
  <2>4. Cardinality(After(r)) < n
    <3> HIDE DEF After
    <3> QED
      BY <1>3, <2>2, <2>3
  <2> QED
    BY <1>1, <2>4
<1> QED
  BY <1>1, <1>2, <1>3

\* What is left of the author's previews leaves room for one more.
LEMMA AuthorsRoom ==
  ASSUME NEW I, Books(I), NEW new
  PROVE  Cardinality({r \in I : r.author = new.author /\ ~Outlived(r, I, new)}) <= PerAuthor - 1
<1> DEFINE K == {r \in I : r.author = new.author /\ ~Outlived(r, I, new)}
           From(r) == {s \in I : s.author = r.author /\ s.id >= r.id}
<1>1. PerAuthor \in Nat /\ PerAuthor # 0
  BY PreviewBounds
<1>2. CASE K = {}
  BY <1>1, <1>2, FS_EmptySet
<1>3. CASE K # {}
  <2>1. PICK m \in K : \A r \in K : m.id <= r.id
    <3>1. K \in SUBSET I
      OBVIOUS
    <3> HIDE DEF K
    <3> QED
      BY <1>3, <3>1, BooksPart, FirstStored
  <2>2. K \in SUBSET From(m)
    BY <2>1 DEF Books
  <2>3. From(m) \in SUBSET I /\ ~ (Cardinality(From(m)) >= PerAuthor)
    BY DEF Outlived
  <2> HIDE DEF K, From
  <2>4. IsFiniteSet(From(m)) /\ Cardinality(From(m)) \in Nat
    BY <2>3, FS_Subset, FS_CardinalityType DEF Books
  <2>5. Cardinality(K) <= Cardinality(From(m)) /\ Cardinality(K) \in Nat
    BY <2>2, <2>4, FS_Subset, FS_CardinalityType
  <2>6. Cardinality(K) <= PerAuthor - 1
    BY <1>1, <2>3, <2>4, <2>5
  <2> QED
    BY <2>6 DEF K
<1> QED
  BY <1>2, <1>3

\* Of some places one is given up first.
LEMMA FirstPlace ==
  ASSUME NEW P, P # {},
         \A p \in P : p.row.made \in Nat /\ p.cached \in Nat /\ p.row.id \in Nat
  PROVE  \E m \in P : \A q \in P : ~Before(q, m)
<1> DEFINE Mades == {p.row.made : p \in P}
<1>1. PICK a \in Mades : \A k \in Mades : a <= k
  <2>1. Mades \in SUBSET Nat /\ Mades # {}
    OBVIOUS
  <2> HIDE DEF Mades
  <2> QED
    BY <2>1, Least
<1> DEFINE P1 == {p \in P : p.row.made = a}
           Kinds1 == {p.cached : p \in P1}
<1>2. PICK b \in Kinds1 : \A k \in Kinds1 : b <= k
  <2>1. Kinds1 \in SUBSET Nat /\ Kinds1 # {}
    OBVIOUS
  <2> HIDE DEF Kinds1
  <2> QED
    BY <2>1, Least
<1> DEFINE P2 == {p \in P1 : p.cached = b}
           Ids == {p.row.id : p \in P2}
<1>3. PICK c \in Ids : \A k \in Ids : c <= k
  <2>1. Ids \in SUBSET Nat /\ Ids # {}
    OBVIOUS
  <2> HIDE DEF Ids
  <2> QED
    BY <2>1, Least
<1>4. PICK m \in P : m.row.made = a /\ m.cached = b /\ m.row.id = c
  OBVIOUS
<1>5. ASSUME NEW q \in P PROVE ~Before(q, m)
  <2>1. /\ a <= q.row.made /\ q.row.made \in Nat /\ a \in Nat
        /\ q.cached \in Nat /\ b \in Nat /\ q.row.id \in Nat /\ c \in Nat
    BY <1>1, <1>4
  <2>2. q.row.made = a => b <= q.cached
    BY <1>2
  <2>3. q.row.made = a /\ q.cached = b => c <= q.row.id
    BY <1>3
  <2> HIDE DEF Mades, Kinds1, P1, P2, Ids
  <2> QED
    BY <1>4, <2>1, <2>2, <2>3 DEF Before
<1> QED
  BY <1>5

\* The rows of I and C that keep their places beside new.
KeptBeside(I, C, new, I3, C3) ==
  /\ I3 = {r \in I : [row |-> r, cached |-> 0] \notin GivenUp(I, C, new)}
  /\ C3 = {r \in C : [row |-> r, cached |-> 1] \notin GivenUp(I, C, new)}

RowsFit(I, C, I3, C3) ==
  /\ Total(I3 \cup C3) <= MaxTotal
  /\ Total(I \cup C) <= MaxTotal => I3 = I /\ C3 = C

\* What is kept has no more rows than allowed, and nothing is given up for rows when
\* all of them are allowed.
LEMMA RoomForRows ==
  ASSUME NEW I, Books(I), NEW C, Books(C), NEW new, new.size \in Nat, new.size <= MaxTotal,
         NEW I3, NEW C3, KeptBeside(I, C, new, I3, C3)
  PROVE  RowsFit(I, C, I3, C3)
<1> DEFINE places == {[row |-> r, cached |-> 0] : r \in I} \cup {[row |-> r, cached |-> 1] : r \in C}
           open == {p \in places : p.row # new}
           left(p) == places \ {q \in open : Before(q, p)}
           rows(P) == {q.row : q \in P}
           gone == {p \in open : Total(rows(left(p))) > MaxTotal}
           kept == places \ gone
<1>1. GivenUp(I, C, new) = gone
  BY DEF GivenUp
<1>2. MaxTotal \in Nat
  BY PreviewBounds
<1>3. Counted(I \cup C)
  BY FS_Union DEF Books, Counted
<1>4. \A p \in places : /\ p.row \in I \cup C /\ p.row.made \in Nat
                       /\ p.cached \in Nat /\ p.row.id \in Nat
  BY DEF Books
<1>5. ASSUME NEW P \in SUBSET places
      PROVE  Counted(rows(P)) /\ Total(rows(P)) \in Nat /\ Total(rows(P)) <= Total(I \cup C)
             /\ Total(I \cup C) \in Nat
  <2>1. rows(P) \in SUBSET (I \cup C)
    BY <1>4
  <2> HIDE DEF rows
  <2>2. Counted(rows(P))
    BY <1>3, <2>1, FS_Subset DEF Counted
  <2> QED
    BY <1>3, <2>1, <2>2, TotalGrows
<1>6. I3 \cup C3 \in SUBSET rows(kept)
  <2>1. ASSUME NEW r \in I3 \cup C3 PROVE \E p \in kept : p.row = r
    <3> HIDE DEF gone
    <3>1. CASE r \in I3
      <4>1. [row |-> r, cached |-> 0] \in kept
        BY <1>1, <3>1 DEF KeptBeside
      <4> QED
        BY <4>1
    <3>2. CASE r \in C3
      <4>1. [row |-> r, cached |-> 1] \in kept
        BY <1>1, <3>2 DEF KeptBeside
      <4> QED
        BY <4>1
    <3> QED
      BY <3>1, <3>2
  <2> HIDE DEF kept
  <2> QED
    BY <2>1
<1>7. kept \in SUBSET places /\ \A p : left(p) \in SUBSET places
  OBVIOUS
<1>8. Total(I3 \cup C3) <= Total(rows(kept)) /\ Total(I3 \cup C3) \in Nat /\ Total(rows(kept)) \in Nat
  <2> HIDE DEF rows, kept, places
  <2> QED
    BY <1>5, <1>6, <1>7, TotalGrows
<1>9. ASSUME kept \cap open = {} PROVE Total(I3 \cup C3) <= MaxTotal
  <2>1. rows(kept) \in SUBSET {new}
    BY <1>9
  <2>2. Total({new}) = new.size /\ Counted({new})
    <3>1. PICK S : S = {}
      OBVIOUS
    <3>2. Counted(S) /\ IsFiniteSet(S)
      BY <3>1, FS_EmptySet DEF Counted
    <3>3. Total(S) = 0
      BY <3>1, <3>2, TotalStep
    <3>4. Total(S \cup {new}) = Total(S) + new.size
      BY <3>1, <3>2, TotalAdds
    <3>5. S \cup {new} = {new}
      BY <3>1
    <3>6. Counted({new})
      BY FS_Singleton DEF Counted
    <3>7. Total({new}) = Total(S \cup {new})
      BY <3>5, Zenon
    <3> QED
      BY <3>3, <3>4, <3>6, <3>7
  <2>3. Total(rows(kept)) <= new.size
    <3> HIDE DEF rows, kept
    <3> QED
      BY <2>1, <2>2, TotalGrows
  <2> HIDE DEF rows, kept
  <2> QED
    BY <1>2, <1>8, <2>3
<1>10. ASSUME kept \cap open # {} PROVE Total(I3 \cup C3) <= MaxTotal
  <2>1. PICK m \in kept \cap open : \A q \in kept \cap open : ~Before(q, m)
    <3>1. \A p \in kept \cap open : p.row.made \in Nat /\ p.cached \in Nat /\ p.row.id \in Nat
      BY <1>4
    <3> DEFINE P == kept \cap open
    <3> HIDE DEF P
    <3> QED
      BY <1>10, <3>1, FirstPlace DEF P
  <2>2. rows(kept) \in SUBSET rows(left(m))
    BY <2>1
  <2>3. ~ (Total(rows(left(m))) > MaxTotal)
    BY <2>1
  <2> HIDE DEF rows, kept, left, places
  <2>4. Counted(rows(left(m))) /\ Total(rows(left(m))) \in Nat
    BY <1>5, <1>7
  <2>5. Total(rows(kept)) <= Total(rows(left(m)))
    BY <2>2, <2>4, TotalGrows
  <2> QED
    BY <1>2, <1>8, <2>3, <2>4, <2>5
<1>11. ASSUME Total(I \cup C) <= MaxTotal PROVE gone = {}
  <2>1. ASSUME NEW p \in open PROVE ~ (Total(rows(left(p))) > MaxTotal)
    <3> HIDE DEF rows, left, places, open
    <3> QED
      BY <1>2, <1>5, <1>7, <1>11
  <2> QED
    BY <2>1
<1>12. Total(I \cup C) <= MaxTotal => I3 = I /\ C3 = C
  BY <1>1, <1>11 DEF KeptBeside
<1> HIDE DEF rows, kept, places, open
<1> QED
  BY <1>9, <1>10, <1>12 DEF RowsFit

-----------------------------------------------------------------------------

\* A row that can be stored after the given previews.
CanStore(I, new) ==
  /\ Books(I) /\ Books(cache)
  /\ new.id \in Nat /\ new.made \in Nat /\ new.size \in Nat /\ new.size <= MaxTotal
  /\ \A s \in I \cup cache : s.id # new.id
  /\ \A a \in Authors : Cardinality({r \in I : r.author = a}) <= PerAuthor

Own(I, new) == {r \in I : ~Outlived(r, I, new)} \cup {new}
Seen(new) == {r \in Alive(cache) : r.author # new.author \/ r.kind # new.kind} \cup {new}

\* The previews and the cached rows after new is stored.
Stored(I, new, I3, C3) == I3 = StoreFrom(I, new).items /\ C3 = StoreFrom(I, new).cache

Within(I3, C3) ==
  /\ Cardinality(I3) <= MaxItems /\ Cardinality(C3) <= MaxItems
  /\ \A a \in Authors : Cardinality({r \in I3 : r.author = a}) <= PerAuthor
  /\ Total(I3 \cup C3) <= MaxTotal

\* Storing, by way of what the limits on previews leave.
ByWayOf(I, new, I3, C3, I2, C2) ==
  /\ I2 \in SUBSET Own(I, new) /\ C2 \in SUBSET Seen(new)
  /\ Books(I2) /\ Books(C2)
  /\ Cardinality(I2) <= MaxItems /\ Cardinality(C2) <= MaxItems
  /\ Cardinality(Own(I, new)) <= MaxItems => I2 = Own(I, new)
  /\ I3 \in SUBSET I2 /\ C3 \in SUBSET C2
  /\ RowsFit(I2, C2, I3, C3)

LEMMA StoreSteps ==
  ASSUME NEW I, NEW new, CanStore(I, new), NEW I3, NEW C3, Stored(I, new, I3, C3)
  PROVE  \E I2, C2 : ByWayOf(I, new, I3, C3, I2, C2)
<1>1. PICK own : own = Own(I, new)
  OBVIOUS
<1>2. PICK seen : seen = Seen(new)
  OBVIOUS
<1>3. Books(own)
  <2>1. PICK K : K = {r \in I : ~Outlived(r, I, new)}
    OBVIOUS
  <2>2. Books(K) /\ \A s \in K : s.id # new.id
    BY <2>1, BooksPart DEF CanStore
  <2>3. Books(K \cup {new})
    BY <2>2, BooksWith DEF CanStore
  <2>4. own = K \cup {new}
    BY <1>1, <2>1 DEF Own
  <2> QED
    BY <2>3, <2>4
<1>4. Books(seen)
  <2>1. PICK K : K = {r \in Alive(cache) : r.author # new.author \/ r.kind # new.kind}
    OBVIOUS
  <2>2. Books(K) /\ \A s \in K : s.id # new.id
    BY <2>1, BooksPart DEF CanStore, Alive
  <2>3. Books(K \cup {new})
    BY <2>2, BooksWith DEF CanStore
  <2>4. seen = K \cup {new}
    BY <1>2, <2>1 DEF Seen
  <2> QED
    BY <2>3, <2>4
<1>5. PICK I2 : I2 = Newest(own, MaxItems)
  OBVIOUS
<1>6. PICK C2 : C2 = Newest(seen, MaxItems)
  OBVIOUS
<1>7. /\ I2 \in SUBSET own /\ C2 \in SUBSET seen
      /\ Cardinality(I2) <= MaxItems /\ Cardinality(C2) <= MaxItems
      /\ Cardinality(own) <= MaxItems => I2 = own
  BY <1>3, <1>4, <1>5, <1>6, NewestLimits, PreviewBounds
<1>8. Books(I2) /\ Books(C2)
  BY <1>3, <1>4, <1>7, BooksPart
<1>9. KeptBeside(I2, C2, new, I3, C3)
  BY <1>1, <1>2, <1>5, <1>6 DEF Stored, StoreFrom, Own, Seen, KeptBeside
<1>10. RowsFit(I2, C2, I3, C3)
  BY <1>8, <1>9, RoomForRows DEF CanStore
<1>11. I3 \in SUBSET I2 /\ C3 \in SUBSET C2
  BY <1>9 DEF KeptBeside
<1>12. ByWayOf(I, new, I3, C3, I2, C2)
  BY <1>1, <1>2, <1>7, <1>8, <1>10, <1>11 DEF ByWayOf
<1> QED
  BY <1>12

LEMMA StoreLimits ==
  ASSUME NEW I, NEW new, CanStore(I, new), NEW I3, NEW C3, Stored(I, new, I3, C3)
  PROVE  Books(I3) /\ Books(C3) /\ Within(I3, C3)
<1>0. PICK I2, C2 : ByWayOf(I, new, I3, C3, I2, C2)
  BY StoreSteps
<1>1. /\ I2 \in SUBSET Own(I, new)
      /\ Books(I2) /\ Books(C2)
      /\ I3 \in SUBSET I2 /\ C3 \in SUBSET C2
      /\ Cardinality(I2) <= MaxItems /\ Cardinality(C2) <= MaxItems
      /\ Total(I3 \cup C3) <= MaxTotal
  BY <1>0 DEF ByWayOf, RowsFit
<1>2. Books(I3) /\ Books(C3)
  BY <1>1, BooksPart
<1>3. Cardinality(I3) <= MaxItems /\ Cardinality(C3) <= MaxItems
  <2>1. /\ Cardinality(I3) <= Cardinality(I2) /\ Cardinality(C3) <= Cardinality(C2)
        /\ Cardinality(I3) \in Nat /\ Cardinality(I2) \in Nat
        /\ Cardinality(C3) \in Nat /\ Cardinality(C2) \in Nat
    BY <1>1, <1>2, FS_Subset, FS_CardinalityType DEF Books
  <2> QED
    BY <1>1, <2>1, PreviewBounds
<1>4. ASSUME NEW a \in Authors PROVE Cardinality({r \in I3 : r.author = a}) <= PerAuthor
  <2>1. PICK L : L = {r \in I3 : r.author = a}
    OBVIOUS
  <2>2. I3 \in SUBSET ({r \in I : ~Outlived(r, I, new)} \cup {new})
    BY <1>1 DEF Own
  <2>3. IsFiniteSet(I) /\ PerAuthor \in Nat /\ PerAuthor # 0
    BY PreviewBounds DEF CanStore, Books
  <2>4. CASE a # new.author
    <3>1. PICK M : M = {r \in I : r.author = a}
      OBVIOUS
    <3>2. L \in SUBSET M /\ M \in SUBSET I
      BY <2>1, <2>2, <2>4, <3>1
    <3>3. Cardinality(M) <= PerAuthor
      BY <3>1 DEF CanStore
    <3>4. IsFiniteSet(M) /\ Cardinality(M) \in Nat
      BY <2>3, <3>2, FS_Subset, FS_CardinalityType
    <3>5. Cardinality(L) <= Cardinality(M) /\ Cardinality(L) \in Nat
      BY <3>2, <3>4, FS_Subset, FS_CardinalityType
    <3>6. Cardinality(L) <= PerAuthor
      BY <2>3, <3>3, <3>4, <3>5
    <3> QED
      BY <2>1, <3>6
  <2>5. CASE a = new.author
    <3>1. PICK M : M = {r \in I : r.author = new.author /\ ~Outlived(r, I, new)}
      OBVIOUS
    <3>2. L \in SUBSET (M \cup {new}) /\ M \in SUBSET I
      BY <2>1, <2>2, <2>5, <3>1
    <3>3. Cardinality(M) <= PerAuthor - 1
      BY <3>1, AuthorsRoom DEF CanStore
    <3>4. IsFiniteSet(M) /\ Cardinality(M) \in Nat
      BY <2>3, <3>2, FS_Subset, FS_CardinalityType
    <3>5. /\ IsFiniteSet(M \cup {new}) /\ Cardinality(M \cup {new}) \in Nat
          /\ Cardinality(M \cup {new}) <= Cardinality(M) + 1
      <4>1. Cardinality(M \cup {new}) = IF new \in M THEN Cardinality(M) ELSE Cardinality(M) + 1
        BY <3>4, FS_AddElement
      <4>2. IsFiniteSet(M \cup {new})
        BY <3>4, FS_AddElement
      <4> QED
        BY <3>4, <4>1, <4>2, FS_CardinalityType
    <3>6. Cardinality(L) <= Cardinality(M \cup {new}) /\ Cardinality(L) \in Nat
      BY <3>2, <3>5, FS_Subset, FS_CardinalityType
    <3>7. Cardinality(L) <= PerAuthor
      BY <2>3, <3>3, <3>4, <3>5, <3>6
    <3> QED
      BY <2>1, <3>7
  <2> QED
    BY <2>4, <2>5
<1> QED
  BY <1>1, <1>2, <1>3, <1>4 DEF Within

\* Nothing that need not make room for its own author is forgotten when there is room
\* for one more preview and for its rows.
LEMMA StoreKeeps ==
  ASSUME NEW I, NEW new, CanStore(I, new), NEW I3, NEW C3, Stored(I, new, I3, C3),
         Cardinality(I) < MaxItems,
         NEW T, Counted(T), Total(T) <= MaxTotal, I \in SUBSET T, Seen(new) \in SUBSET T
  PROVE  \A r \in I : Outlived(r, I, new) \/ r \in I3
<1>0. PICK I2, C2 : ByWayOf(I, new, I3, C3, I2, C2)
  BY StoreSteps
<1>1. /\ I2 \in SUBSET Own(I, new) /\ C2 \in SUBSET Seen(new)
      /\ Cardinality(Own(I, new)) <= MaxItems => I2 = Own(I, new)
      /\ Total(I2 \cup C2) <= MaxTotal => I3 = I2
  BY <1>0 DEF ByWayOf, RowsFit
<1>2. Cardinality(Own(I, new)) <= MaxItems
  <2>1. PICK own : own = Own(I, new)
    OBVIOUS
  <2>2. own \in SUBSET (I \cup {new})
    BY <2>1 DEF Own
  <2>3. IsFiniteSet(I) /\ Cardinality(I) \in Nat
    BY FS_CardinalityType DEF CanStore, Books
  <2>4. /\ IsFiniteSet(I \cup {new}) /\ Cardinality(I \cup {new}) \in Nat
        /\ Cardinality(I \cup {new}) <= Cardinality(I) + 1
    <3>1. Cardinality(I \cup {new}) = IF new \in I THEN Cardinality(I) ELSE Cardinality(I) + 1
      BY <2>3, FS_AddElement
    <3>2. IsFiniteSet(I \cup {new})
      BY <2>3, FS_AddElement
    <3> QED
      BY <2>3, <3>1, <3>2, FS_CardinalityType
  <2>5. Cardinality(own) <= Cardinality(I \cup {new}) /\ Cardinality(own) \in Nat
    BY <2>2, <2>4, FS_Subset, FS_CardinalityType
  <2>6. Cardinality(own) <= MaxItems
    BY <2>3, <2>4, <2>5, PreviewBounds
  <2> QED
    BY <2>1, <2>6
<1>3. I2 = Own(I, new)
  BY <1>1, <1>2
<1>4. Total(I2 \cup C2) <= MaxTotal
  <2>1. new \in Seen(new)
    BY DEF Seen
  <2>2. PICK U : U = I2 \cup C2
    OBVIOUS
  <2>3. U \in SUBSET T
    <3>1. I2 \in SUBSET T /\ C2 \in SUBSET T
      BY <1>1, <1>3, <2>1 DEF Own
    <3> QED
      BY <2>2, <3>1
  <2>4. Total(U) \in Nat /\ Total(T) \in Nat /\ Total(U) <= Total(T)
    BY <2>3, TotalGrows
  <2>5. Total(U) <= MaxTotal
    BY <2>4, PreviewBounds
  <2> QED
    BY <2>2, <2>5
<1> QED
  BY <1>1, <1>3, <1>4 DEF Own

-----------------------------------------------------------------------------

StoreInv ==
  /\ Books(items) /\ Books(cache)
  /\ \A r \in items \cup cache : r.id <= used
  /\ Within(items, cache)

\* Less than what is within the limits is within them.
LEMMA WithinPart ==
  ASSUME NEW I, NEW C, Books(I), Books(C), Within(I, C), NEW I3 \in SUBSET I, NEW C3 \in SUBSET C
  PROVE  Books(I3) /\ Books(C3) /\ Within(I3, C3)
<1>1. Books(I3) /\ Books(C3)
  BY BooksPart
<1>2. MaxItems \in Nat /\ PerAuthor \in Nat /\ MaxTotal \in Nat
  BY PreviewBounds
<1>3. Cardinality(I3) <= MaxItems /\ Cardinality(C3) <= MaxItems
  <2>1. /\ Cardinality(I3) <= Cardinality(I) /\ Cardinality(C3) <= Cardinality(C)
        /\ Cardinality(I3) \in Nat /\ Cardinality(I) \in Nat
        /\ Cardinality(C3) \in Nat /\ Cardinality(C) \in Nat
    BY <1>1, FS_Subset, FS_CardinalityType DEF Books
  <2> QED
    BY <1>2, <2>1 DEF Within
<1>4. ASSUME NEW a \in Authors PROVE Cardinality({r \in I3 : r.author = a}) <= PerAuthor
  <2>1. PICK L : L = {r \in I3 : r.author = a}
    OBVIOUS
  <2>2. PICK M : M = {r \in I : r.author = a}
    OBVIOUS
  <2>3. L \in SUBSET M /\ M \in SUBSET I /\ Cardinality(M) <= PerAuthor
    BY <2>1, <2>2 DEF Within
  <2>4. IsFiniteSet(M) /\ Cardinality(M) \in Nat
    BY <2>3, FS_Subset, FS_CardinalityType DEF Books
  <2>5. Cardinality(L) <= Cardinality(M) /\ Cardinality(L) \in Nat
    BY <2>3, <2>4, FS_Subset, FS_CardinalityType
  <2>6. Cardinality(L) <= PerAuthor
    BY <1>2, <2>3, <2>4, <2>5
  <2> QED
    BY <2>1, <2>6
<1>5. Total(I3 \cup C3) <= MaxTotal
  <2>1. PICK S : S = I \cup C
    OBVIOUS
  <2>2. PICK R : R = I3 \cup C3
    OBVIOUS
  <2>3. Counted(S) /\ R \in SUBSET S /\ Total(S) <= MaxTotal
    BY <2>1, <2>2, FS_Union DEF Books, Counted, Within
  <2>4. Total(R) \in Nat /\ Total(S) \in Nat /\ Total(R) <= Total(S)
    BY <2>3, TotalGrows
  <2>5. Total(R) <= MaxTotal
    BY <1>2, <2>3, <2>4
  <2> QED
    BY <2>2, <2>5
<1> QED
  BY <1>1, <1>3, <1>4, <1>5 DEF Within

LEMMA AfterStoring ==
  ASSUME PreviewTypeOK, StoreInv, NEW I \in SUBSET items, NEW new, new.id = used + 1,
         new.made = clock, new.size \in Nat, new.size <= MaxTotal,
         NEW I3, NEW C3, Stored(I, new, I3, C3)
  PROVE  /\ CanStore(I, new)
         /\ Books(I3) /\ Books(C3) /\ Within(I3, C3)
         /\ \A r \in I3 \cup C3 : r.id <= used + 1
<1>1. used \in Nat /\ clock \in Nat /\ MaxTotal \in Nat /\ PerAuthor \in Nat
  BY PreviewBounds DEF PreviewTypeOK
<1>2. ASSUME NEW a \in Authors PROVE Cardinality({r \in I : r.author = a}) <= PerAuthor
  <2>1. PICK L : L = {r \in I : r.author = a}
    OBVIOUS
  <2>2. PICK M : M = {r \in items : r.author = a}
    OBVIOUS
  <2>3. L \in SUBSET M /\ M \in SUBSET items /\ Cardinality(M) <= PerAuthor
    BY <2>1, <2>2 DEF StoreInv, Within
  <2>4. IsFiniteSet(M) /\ Cardinality(M) \in Nat
    BY <2>3, FS_Subset, FS_CardinalityType DEF StoreInv, Books
  <2>5. Cardinality(L) <= Cardinality(M) /\ Cardinality(L) \in Nat
    BY <2>3, <2>4, FS_Subset, FS_CardinalityType
  <2>6. Cardinality(L) <= PerAuthor
    BY <1>1, <2>3, <2>4, <2>5
  <2> QED
    BY <2>1, <2>6
<1>3. Books(I) /\ Books(cache)
  BY BooksPart DEF StoreInv
<1>4. \A s \in I \cup cache : s.id # new.id
  <2>1. \A s \in items \cup cache : s.id \in Nat /\ s.id <= used
    BY DEF StoreInv, Books
  <2> QED
    BY <1>1, <2>1
<1>5. CanStore(I, new)
  BY <1>1, <1>2, <1>3, <1>4 DEF CanStore
<1>6. Books(I3) /\ Books(C3) /\ Within(I3, C3)
  BY <1>5, StoreLimits
<1>7. I3 \in SUBSET (I \cup {new}) /\ C3 \in SUBSET (cache \cup {new})
  BY DEF Stored, StoreFrom, Newest, Alive
<1>8. ASSUME NEW r \in I3 \cup C3 PROVE r.id <= used + 1
  <2>1. CASE r = new
    BY <1>1, <2>1
  <2>2. CASE r \in items \cup cache
    <3>1. r.id \in Nat /\ r.id <= used
      BY <2>2 DEF StoreInv, Books
    <3> QED
      BY <1>1, <3>1
  <2> QED
    BY <1>7, <2>1, <2>2
<1> QED
  BY <1>5, <1>6, <1>8

LEMMA AliveRows ==
  ASSUME StoreInv
  PROVE  /\ Alive(items) \in SUBSET items /\ Alive(cache) \in SUBSET cache
         /\ Counted(items \cup cache) /\ Counted(Alive(items) \cup Alive(cache))
         /\ Total(items \cup cache) <= MaxTotal
<1>1. Alive(items) \in SUBSET items /\ Alive(cache) \in SUBSET cache
  BY DEF Alive
<1>2. Counted(items \cup cache)
  BY FS_Union DEF StoreInv, Books, Counted
<1>3. Alive(items) \cup Alive(cache) \in SUBSET (items \cup cache)
  BY <1>1
<1>4. Counted(Alive(items) \cup Alive(cache))
  BY <1>2, <1>3, FS_Subset DEF Counted
<1> QED
  BY <1>1, <1>2, <1>4 DEF StoreInv, Within

LEMMA PreviewStores ==
  ASSUME PreviewTypeOK, StoreInv, NEW a \in Authors, NEW k \in FileKinds, NEW n \in Sizes,
         Preview(a, k, n)
  PROVE  /\ StoreInv'
         /\ \A r \in Alive(items) \ items' :
              \/ r.author = a
              \/ Cardinality(Alive(items)) >= MaxItems
              \/ Total(Alive(items) \cup Alive(cache)) + n > MaxTotal
<1>1. PICK I : I = Alive(items)
  OBVIOUS
<1>2. PICK new : /\ new.id = used + 1 /\ new.made = clock /\ new.size = n
                 /\ new.author = a /\ new.kind = k
                 /\ items' = StoreFrom(I, new).items /\ cache' = StoreFrom(I, new).cache
  BY <1>1 DEF Preview, Rows
<1>3. PICK I3 : I3 = items'
  OBVIOUS
<1>4. PICK C3 : C3 = cache'
  OBVIOUS
<1>5. n \in Nat /\ n <= MaxTotal /\ used' = used + 1 /\ MaxTotal \in Nat
  BY PreviewBounds DEF Preview
<1>6. Stored(I, new, I3, C3) /\ I \in SUBSET items
  BY <1>1, <1>2, <1>3, <1>4, AliveRows DEF Stored
<1>7. /\ CanStore(I, new)
      /\ Books(I3) /\ Books(C3) /\ Within(I3, C3)
      /\ \A r \in I3 \cup C3 : r.id <= used + 1
  BY <1>2, <1>5, <1>6, AfterStoring
<1>8. StoreInv'
  BY <1>3, <1>4, <1>5, <1>7 DEF StoreInv
<1>9. ASSUME NEW r \in I, r \notin I3, r.author # a, ~ (Cardinality(I) >= MaxItems),
             ~ (Total(I \cup Alive(cache)) + n > MaxTotal)
      PROVE  FALSE
  <2>1. PICK S : S = I \cup Alive(cache)
    OBVIOUS
  <2>2. Counted(S) /\ new \notin S
    <3>1. \A s \in S : s.id \in Nat /\ s.id <= used
      BY <1>1, <2>1, AliveRows DEF StoreInv, Books
    <3>2. used \in Nat
      BY DEF PreviewTypeOK
    <3> QED
      BY <1>1, <1>2, <2>1, <3>1, <3>2, AliveRows
  <2>3. Total(S) \in Nat /\ Total(S \cup {new}) = Total(S) + new.size
    BY <1>2, <1>5, <2>2, TotalAdds
  <2>4. Total(S \cup {new}) <= MaxTotal
    BY <1>2, <1>5, <1>9, <2>1, <2>3
  <2>5. Counted(S \cup {new})
    BY <1>2, <1>5, <2>2, FS_AddElement DEF Counted
  <2>6. I \in SUBSET (S \cup {new}) /\ Seen(new) \in SUBSET (S \cup {new})
    BY <2>1 DEF Seen
  <2>7. Cardinality(I) < MaxItems
    <3>1. Cardinality(I) \in Nat
      BY <1>7, FS_CardinalityType DEF CanStore, Books
    <3> QED
      BY <1>9, <3>1, PreviewBounds
  <2>8. Outlived(r, I, new) \/ r \in I3
    BY <1>6, <1>7, <1>9, <2>4, <2>5, <2>6, <2>7, StoreKeeps
  <2> QED
    BY <1>2, <1>9, <2>8 DEF Outlived
<1> QED
  BY <1>1, <1>3, <1>8, <1>9

LEMMA ConfirmStores ==
  ASSUME PreviewTypeOK, StoreInv, NEW id \in 1 .. used, NEW a \in Authors, NEW k \in FileKinds,
         NEW valid \in BOOLEAN, Confirm(id, a, k, valid)
  PROVE  /\ StoreInv'
         /\ \A r \in Alive(items) : r.id # id => r \in items'
<1>1. PICK p \in Alive(items) : p.id = id /\ p.author = a /\ p.kind = k
  BY DEF Confirm, Pending
<1>2. p \in items /\ p = CHOOSE s \in items : s.id = id
  <2>1. p \in items
    BY <1>1, AliveRows
  <2>2. \A s \in items : s.id = id => s = p
    BY <1>1, <2>1 DEF StoreInv, Books
  <2> QED
    BY <1>1, <2>1, <2>2
<1>3. PICK I : I = Without(Alive(items), id)
  OBVIOUS
<1>4. PICK check : /\ check.id = used + 1 /\ check.made = clock /\ check.size = p.size
                   /\ check.author = a /\ check.kind = k
                   /\ items' = Without(StoreFrom(I, check).items, used + 1)
                   /\ cache' = StoreFrom(I, check).cache
  BY <1>2, <1>3 DEF Confirm, Rows
<1>5. PICK I3 : I3 = StoreFrom(I, check).items
  OBVIOUS
<1>6. PICK C3 : C3 = cache'
  OBVIOUS
<1>7. I \in SUBSET (items \ {p}) /\ \A r \in Alive(items) : r.id # id => r \in I
  BY <1>1, <1>3, AliveRows DEF Without
<1>8. Stored(I, check, I3, C3)
  BY <1>4, <1>5, <1>6 DEF Stored
<1>9. PICK T : T = ((items \cup cache) \ {p}) \cup {check}
  OBVIOUS
<1>10. Counted(T) /\ Total(T) <= MaxTotal /\ check.size \in Nat /\ check.size <= MaxTotal
  <2>1. PICK S : S = (items \cup cache) \ {p}
    OBVIOUS
  <2>2. S \in SUBSET (items \cup cache) /\ S \cup {p} = items \cup cache /\ p \notin S
    <3>1. p \in items \cup cache
      BY <1>2
    <3> QED
      BY ONLY <2>1, <3>1
  <2>3. Counted(items \cup cache) /\ Total(items \cup cache) <= MaxTotal
    BY AliveRows
  <2>4. Counted(S) /\ p.size \in Nat
    BY <1>2, <2>2, <2>3, FS_Subset DEF Counted
  <2>5. Total(S) \in Nat /\ Total(S \cup {p}) = Total(S) + p.size
    BY <2>2, <2>4, TotalAdds
  <2>6. check \notin S
    <3>1. \A s \in S : s.id \in Nat /\ s.id <= used
      BY <2>2 DEF StoreInv, Books
    <3>2. used \in Nat
      BY DEF PreviewTypeOK
    <3> QED
      BY <1>4, <3>1, <3>2
  <2>7. Total(S \cup {check}) = Total(S) + check.size
    BY <1>4, <2>4, <2>6, TotalAdds
  <2>8. Total(S \cup {p}) = Total(items \cup cache)
    BY <2>2, Zenon
  <2>9. Counted(S \cup {check})
    BY <1>4, <2>4, FS_AddElement DEF Counted
  <2>10. T = S \cup {check}
    BY <1>9, <2>1
  <2>11. Total(S) + p.size <= MaxTotal
    BY <2>3, <2>5, <2>8
  <2> QED
    BY <1>4, <2>4, <2>5, <2>7, <2>9, <2>10, <2>11, PreviewBounds
<1>11. /\ CanStore(I, check)
       /\ Books(I3) /\ Books(C3) /\ Within(I3, C3)
       /\ \A r \in I3 \cup C3 : r.id <= used + 1
  BY <1>4, <1>7, <1>8, <1>10, AfterStoring
<1>12. StoreInv'
  <2>1. PICK I4 : I4 = items'
    OBVIOUS
  <2>2. I4 \in SUBSET I3
    BY <1>4, <1>5, <2>1 DEF Without
  <2>3. Books(I4) /\ Within(I4, C3) /\ \A r \in I4 \cup C3 : r.id <= used + 1
    BY <1>11, <2>2, WithinPart
  <2> QED
    BY <1>6, <1>11, <2>1, <2>3 DEF StoreInv, Confirm
<1>13. Cardinality(I) < MaxItems
  <2>1. IsFiniteSet(items) /\ Cardinality(items) \in Nat /\ Cardinality(items) <= MaxItems
    BY FS_CardinalityType DEF StoreInv, Within, Books
  <2>2. Cardinality(items \ {p}) = Cardinality(items) - 1 /\ IsFiniteSet(items \ {p})
    BY <1>2, <2>1, FS_RemoveElement
  <2>3. Cardinality(I) <= Cardinality(items \ {p}) /\ Cardinality(I) \in Nat
    BY <1>7, <2>2, FS_Subset, FS_CardinalityType
  <2> QED
    BY <2>1, <2>2, <2>3, PreviewBounds
<1>14. I \in SUBSET T /\ Seen(check) \in SUBSET T
  BY <1>1, <1>4, <1>7, <1>9, AliveRows DEF Seen
<1>15. \A r \in I : Outlived(r, I, check) \/ r \in I3
  BY <1>8, <1>10, <1>11, <1>13, <1>14, StoreKeeps
<1>16. ASSUME NEW r \in I PROVE ~Outlived(r, I, check)
  <2>1. SUFFICES ASSUME r.author = a, Cardinality({s \in I : s.author = r.author /\ s.id >= r.id}) >= PerAuthor
                 PROVE  FALSE
    BY <1>4 DEF Outlived
  <2>2. PICK L : L = {s \in I : s.author = r.author /\ s.id >= r.id}
    OBVIOUS
  <2>3. PICK M : M = {s \in items : s.author = a}
    OBVIOUS
  <2>4. L \in SUBSET (M \ {p}) /\ p \in M /\ M \in SUBSET items /\ Cardinality(M) <= PerAuthor
    BY <1>1, <1>2, <1>7, <2>1, <2>2, <2>3 DEF StoreInv, Within
  <2>5. IsFiniteSet(M) /\ Cardinality(M) \in Nat
    BY <2>4, FS_Subset, FS_CardinalityType DEF StoreInv, Books
  <2>6. Cardinality(M \ {p}) = Cardinality(M) - 1 /\ IsFiniteSet(M \ {p})
    BY <2>4, <2>5, FS_RemoveElement
  <2>7. Cardinality(L) <= Cardinality(M \ {p}) /\ Cardinality(L) \in Nat
    BY <2>4, <2>6, FS_Subset, FS_CardinalityType
  <2>8. Cardinality(L) >= PerAuthor
    BY <2>1, <2>2
  <2> QED
    BY <2>4, <2>5, <2>6, <2>7, <2>8, PreviewBounds
<1>17. ASSUME NEW r \in Alive(items), r.id # id PROVE r \in items'
  <2>1. r \in I /\ r \in I3
    BY <1>7, <1>15, <1>16, <1>17
  <2>2. r.id # used + 1
    <3>1. r.id \in Nat /\ r.id <= used /\ used \in Nat
      BY AliveRows DEF StoreInv, Books, PreviewTypeOK
    <3> QED
      BY <3>1
  <2> QED
    BY <1>4, <1>5, <2>1, <2>2 DEF Without
<1> QED
  BY <1>12, <1>17

\* The store forgets just enough: it stays within its limits, a confirmation costs
\* nobody another preview, and storing one costs a preview that has not expired only
\* its own author, or when the store is full (previews.py:40, _enforce_limits_locked).
THEOREM ForgetsOnlyForRoom == PreviewSpec => ForgetsJustEnough
<1>1. InitPreviews => StoreInv
  <2>1. SUFFICES ASSUME InitPreviews PROVE StoreInv
    OBVIOUS
  <2>2. items = {} /\ cache = {}
    BY <2>1 DEF InitPreviews
  <2>3. Books({}) /\ Cardinality({}) = 0 /\ MaxItems \in Nat /\ MaxTotal \in Nat /\ PerAuthor \in Nat
    BY FS_EmptySet, PreviewBounds DEF Books
  <2>4. PICK S : S = {}
    OBVIOUS
  <2>5. Total(S) = 0
    BY <2>4, FS_EmptySet, TotalStep
  <2>6. \A a \in Authors : {r \in S : r.author = a} = {}
    BY <2>4
  <2>7. Within(S, S)
    <3>1. S \cup S = S
      OBVIOUS
    <3>2. Total(S \cup S) = Total(S)
      BY <3>1, Zenon
    <3>3. Total(S \cup S) <= MaxTotal
      BY <2>3, <2>5, <3>2
    <3>4. \A a \in Authors : Cardinality({r \in S : r.author = a}) = 0
      BY <2>3, <2>6
    <3>5. Cardinality(S) = 0
      BY <2>3, <2>4
    <3> QED
      BY <2>3, <3>3, <3>4, <3>5 DEF Within
  <2> QED
    BY <2>2, <2>3, <2>4, <2>7 DEF StoreInv
<1>2. PreviewTypeOK /\ StoreInv /\ [NextPreviews]_previewVars => StoreInv'
  <2>1. SUFFICES ASSUME PreviewTypeOK, StoreInv, [NextPreviews]_previewVars PROVE StoreInv'
    OBVIOUS
  <2>2. ASSUME NEW a \in Authors, NEW k \in FileKinds, NEW n \in Sizes, Preview(a, k, n)
        PROVE  StoreInv'
    BY <2>1, <2>2, PreviewStores
  <2>3. ASSUME NEW id \in 1 .. used, NEW a \in Authors, NEW k \in FileKinds, NEW valid \in BOOLEAN,
               Confirm(id, a, k, valid)
        PROVE  StoreInv'
    BY <2>1, <2>3, ConfirmStores
  <2>4. ASSUME items' \in SUBSET items, cache' \in SUBSET cache, used' = used
        PROVE  StoreInv'
    <3>1. PICK I4 : I4 = items'
      OBVIOUS
    <3>2. PICK C4 : C4 = cache'
      OBVIOUS
    <3>3. Books(I4) /\ Books(C4) /\ Within(I4, C4) /\ \A r \in I4 \cup C4 : r.id <= used
      <4>1. I4 \in SUBSET items /\ C4 \in SUBSET cache
        BY <2>4, <3>1, <3>2
      <4> QED
        BY <2>1, <4>1, WithinPart DEF StoreInv
    <3> QED
      BY <2>4, <3>1, <3>2, <3>3 DEF StoreInv
  <2>5. CASE Look \/ ClockTicks \/ Forget \/ UNCHANGED previewVars
    <3>1. items' \in SUBSET items /\ cache' \in SUBSET cache /\ used' = used
      BY <2>5 DEF Look, ClockTicks, Forget, previewVars, Alive
    <3> QED
      BY <2>4, <3>1
  <2> QED
    BY <2>1, <2>2, <2>3, <2>5 DEF NextPreviews
<1> DEFINE Loses ==
      /\ \A id \in 1 .. used, a \in Authors, k \in FileKinds, valid \in BOOLEAN :
           Confirm(id, a, k, valid) =>
             \A r \in Alive(items) : r.id # id => r \in items'
      /\ \A a \in Authors, k \in FileKinds, n \in Sizes :
           Preview(a, k, n) =>
             \A r \in Alive(items) \ items' :
               \/ r.author = a
               \/ Cardinality(Alive(items)) >= MaxItems
               \/ Total(Alive(items) \cup Alive(cache)) + n > MaxTotal
<1>3. PreviewTypeOK /\ StoreInv => Loses
  <2>1. SUFFICES ASSUME PreviewTypeOK, StoreInv PROVE Loses
    OBVIOUS
  <2>2. ASSUME NEW id \in 1 .. used, NEW a \in Authors, NEW k \in FileKinds, NEW valid \in BOOLEAN,
               Confirm(id, a, k, valid)
        PROVE  \A r \in Alive(items) : r.id # id => r \in items'
    BY <2>1, <2>2, ConfirmStores
  <2>3. ASSUME NEW a \in Authors, NEW k \in FileKinds, NEW n \in Sizes, Preview(a, k, n)
        PROVE  \A r \in Alive(items) \ items' :
                 \/ r.author = a
                 \/ Cardinality(Alive(items)) >= MaxItems
                 \/ Total(Alive(items) \cup Alive(cache)) + n > MaxTotal
    BY <2>1, <2>3, PreviewStores
  <2> QED
    BY <2>2, <2>3
<1>4. StoreInv => WithinLimits
  BY DEF StoreInv, Within, WithinLimits
<1> QED
  BY <1>1, <1>2, <1>3, <1>4, PreviewTypes, PTL DEF PreviewSpec, ForgetsJustEnough
=============================================================================
