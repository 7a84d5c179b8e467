------------------------------ MODULE WebRequests ------------------------------
(***************************************************************************)
(* The HTTP server: sessions in memory, the warehouse a session has        *)
(* chosen, and the steps of the requests that write. A request reads its   *)
(* session anew for every fact it needs, each time in a critical section   *)
(* of its own; between two reads another request may log the session out,  *)
(* choose another warehouse, or a login may evict it.                      *)
(*                                                                         *)
(*   sessions  the dict of sessions: per token its warehouse, its last use *)
(*             and the number of its login (a dict keeps their order)      *)
(*   issued    tokens given out so far; secrets.token_urlsafe never        *)
(*             repeats one                                                 *)
(*   thread    what each handler thread is doing                           *)
(*   owner     who holds the lock of each warehouse's service              *)
(*   now       time.monotonic()                                            *)
(*                                                                         *)
(* Every session is an engineer's; the token stands for the full name the  *)
(* engineer gave. The role the session forces is read next to the name and *)
(* goes with it. Checks that give one answer for the whole life of the     *)
(* process (posting policy, read-only pilot) are left out.                 *)
(***************************************************************************)
EXTENDS Integers, FiniteSets

CONSTANTS
  Tokens,         \* sessions that may ever be opened
  Nameless,       \* the local account `lokolis`, when no full name is known
  Threads,        \* handler threads
  Sites, Primary, \* warehouses; the one of the shared modules is the default
  Free,           \* a lock nobody holds
  MaxSessions,    \* max_sessions, 500 in the code
  Ttl,            \* session_ttl_seconds, 12 hours in the code
  MaxTime         \* bound: the clock stops here

ASSUME WebBounds ==
  /\ Nameless \notin Tokens /\ Primary \in Sites /\ Free \notin Threads
  /\ MaxSessions \in Nat \ {0} /\ Ttl \in Nat /\ MaxTime \in Nat

VARIABLES sessions, issued, thread, owner, now
vars == <<sessions, issued, thread, owner, now>>

Session == [site : Sites, seen : 0 .. MaxTime, nth : Nat]

Kinds == {"action", "logout", "select"}

\* gate: the warehouse read first, whose lock is taken; name: the author for the
\* primary warehouse; lent: the author for the gate's warehouse; target: the
\* warehouse read last, which is written.
Job == [kind : Kinds, token : Tokens, gate : Sites, name : Tokens \cup {Nameless},
        lent : Tokens \cup {Nameless}, target : Sites]

Steps == {"gate", "name", "lend", "lock", "lockSite", "target", "act"}

NoJob == [at |-> "idle"]
Idle(t) == thread[t] = NoJob

Init ==
  /\ sessions = [k \in {} |-> NoJob] /\ issued = {} /\ now = 0
  /\ thread = [t \in Threads |-> NoJob]
  /\ owner = [s \in Sites |-> Free]

-----------------------------------------------------------------------------
(* The session table. *)

\* _purge_sessions_locked
Fresh == {k \in DOMAIN sessions : sessions[k].seen >= now - Ttl}
Purged == [k \in Fresh |-> sessions[k]]

\* What the read finds: nothing, once the session is gone.
Found(k) == k \in Fresh

\* _session_data: every read also counts as use.
Touched(k) == IF Found(k) THEN [Purged EXCEPT ![k].seen = now] ELSE Purged

\* _selected_warehouse_site: without a session the default one.
SiteOf(k) == IF Found(k) THEN sessions[k].site ELSE Primary

NameOf(k) == IF Found(k) THEN k ELSE Nameless

\* _login: room is made by dropping the oldest logins, in use or not.
Younger(k) == {j \in Fresh : sessions[j].nth > sessions[k].nth}
Kept == {k \in Fresh : Cardinality(Younger(k)) < MaxSessions - 1}
Opened == [site |-> Primary, seen |-> now, nth |-> Cardinality(issued) + 1]

Login(k) ==
  /\ k \notin issued
  /\ sessions' = [j \in Kept \cup {k} |-> IF j = k THEN Opened ELSE sessions[j]]
  /\ issued' = issued \cup {k}
  /\ UNCHANGED <<thread, owner, now>>

-----------------------------------------------------------------------------
(* do_POST. *)

Goes(t, step) == thread' = [thread EXCEPT ![t].at = step]

\* Who is there: without a session the answer is 401 and the thread is free again.
\* Also the whole of a read-only request.
Begin(t, k, kind) ==
  /\ Idle(t) /\ sessions' = Touched(k)
  /\ thread' = [thread EXCEPT ![t] =
       IF Found(k)
         THEN [at |-> IF kind = "select" THEN "act" ELSE "gate",
               job |-> [kind |-> kind, token |-> k, gate |-> Primary, name |-> Nameless,
                        lent |-> Nameless, target |-> Primary]]
         ELSE NoJob]
  /\ UNCHANGED <<issued, owner, now>>

\* One more read of the session; what it yields is kept in the given field.
Read(t, step, field, value, next) ==
  /\ thread[t].at = step
  /\ sessions' = Touched(thread[t].job.token)
  /\ thread' = [thread EXCEPT ![t] = [at |-> next, job |-> [thread[t].job EXCEPT ![field] = value]]]
  /\ UNCHANGED <<issued, owner, now>>

ReadGate(t) == ~Idle(t) /\ Read(t, "gate", "gate", SiteOf(thread[t].job.token), "name")

ReadName(t) == ~Idle(t) /\ Read(t, "name", "name", NameOf(thread[t].job.token), "lend")

\* Mutant: the user is lent without the name.
ReadLentNameless(t) == ~Idle(t) /\ Read(t, "lend", "lent", Nameless, "lock")

\* actor_context: another warehouse is lent the user and the name, read again.
ReadLent(t) == ~Idle(t) /\ Read(t, "lend", "lent", NameOf(thread[t].job.token), "lock")

\* Mutant: a request for another warehouse does not take the primary lock.
LockWhenPrimary(t) ==
  /\ thread[t].at = "lock"
  /\ IF thread[t].job.gate = Primary
       THEN owner[Primary] = Free /\ owner' = [owner EXCEPT ![Primary] = t]
       ELSE UNCHANGED owner
  /\ Goes(t, "lockSite") /\ UNCHANGED <<sessions, issued, now>>

\* with service.lock, selected_runtime.service.lock
Lock(t) ==
  /\ thread[t].at = "lock" /\ owner[Primary] = Free
  /\ owner' = [owner EXCEPT ![Primary] = t]
  /\ Goes(t, "lockSite") /\ UNCHANGED <<sessions, issued, now>>

LockSite(t) ==
  /\ thread[t].at = "lockSite"
  /\ LET gate == thread[t].job.gate
     IN  owner[gate] \in {Free, t} /\ owner' = [owner EXCEPT ![gate] = t]
  /\ Goes(t, IF thread[t].job.kind = "logout" THEN "act" ELSE "target")
  /\ UNCHANGED <<sessions, issued, now>>

\* _do_POST asks for the selected warehouse again and hands it to the handler.
ReadTarget(t) == ~Idle(t) /\ Read(t, "target", "target", SiteOf(thread[t].job.token), "act")

\* Mutant: only the lock taken last is given back.
ReleasedGate(t) == [owner EXCEPT ![thread[t].job.gate] = Free]

Released(t) == [s \in Sites |-> IF owner[s] = t THEN Free ELSE owner[s]]

Finish(t) == thread' = [thread EXCEPT ![t] = NoJob] /\ owner' = Released(t)

\* The handler of the action: one transaction on the target's file.
Act(t) ==
  /\ thread[t].at = "act" /\ thread[t].job.kind = "action"
  /\ Finish(t) /\ UNCHANGED <<sessions, issued, now>>

\* The author it records: the shared account's context serves the primary file,
\* the lent context only the warehouse it was lent to.
Author(j) ==
  IF j.target = Primary THEN j.name
  ELSE IF j.gate = j.target THEN j.lent ELSE Nameless

Logout(t) ==
  /\ thread[t].at = "act" /\ thread[t].job.kind = "logout"
  /\ sessions' = [k \in DOMAIN sessions \ {thread[t].job.token} |-> sessions[k]]
  /\ Finish(t) /\ UNCHANGED <<issued, now>>

\* Mutant: a session that is gone is written back.
SelectRestoring(t, site) ==
  /\ thread[t].at = "act" /\ thread[t].job.kind = "select"
  /\ LET k == thread[t].job.token
     IN  sessions' = [j \in Fresh \cup {k} |->
                        IF j = k THEN [Opened EXCEPT !.site = site] ELSE sessions[j]]
  /\ Finish(t) /\ UNCHANGED <<issued, now>>

\* select_session: outside the locks of the services; a session that is gone
\* stays gone.
Select(t, site) ==
  /\ thread[t].at = "act" /\ thread[t].job.kind = "select"
  /\ LET k == thread[t].job.token
     IN  sessions' = IF Found(k) THEN [Purged EXCEPT ![k].site = site, ![k].seen = now] ELSE Purged
  /\ Finish(t) /\ UNCHANGED <<issued, now>>

-----------------------------------------------------------------------------
(* The clock and the process. *)

Tick ==
  /\ now < MaxTime /\ now' = now + 1
  /\ UNCHANGED <<sessions, issued, thread, owner>>

\* The process ends and starts again: nothing of this was on disk.
Restart ==
  /\ sessions' = [k \in {} |-> NoJob]
  /\ thread' = [t \in Threads |-> NoJob]
  /\ owner' = [s \in Sites |-> Free]
  /\ UNCHANGED <<issued, now>>

Step(t) ==
  \/ ReadGate(t) \/ ReadName(t) \/ ReadLent(t) \/ ReadTarget(t)
  \/ Lock(t) \/ LockSite(t)
  \/ Act(t) \/ Logout(t) \/ \E site \in Sites : Select(t, site)

Next ==
  \/ \E k \in Tokens : Login(k)
  \/ \E t \in Threads, k \in issued, kind \in Kinds : Begin(t, k, kind)
  \/ \E t \in Threads : Step(t)
  \/ Tick
  \/ Restart

\* A handler thread that can go on goes on. Nothing is assumed about who gets a
\* contended lock: a request may wait for ever behind others.
Spec == Init /\ [][Next]_vars /\ \A t \in Threads : WF_vars(Step(t))

-----------------------------------------------------------------------------
(* Properties. *)

TypeOK ==
  /\ sessions \in [DOMAIN sessions -> Session] /\ DOMAIN sessions \subseteq issued /\ issued \subseteq Tokens /\ now \in 0 .. MaxTime
  /\ \A t \in Threads : Idle(t) \/ thread[t] \in [at : Steps, job : Job]
  /\ owner \in [Sites -> Threads \cup {Free}]

\* A session that has ended by logout, age, eviction or restart never comes back,
\* also not by a request that had begun before, and not when its age has ended it
\* and nobody has purged it yet (select_session, _session_data).
NoSessionReturns == [][\A k \in issued \ Fresh : k \notin Fresh']_vars

\* Two requests are never both between choosing the file to write and having
\* written it, although the file may be another than the one whose lock they took
\* (do_POST always takes the primary lock first).
OneWriterAtATime ==
  \A t, u \in Threads :
    /\ ~Idle(t) /\ ~Idle(u)
    /\ thread[t].job.kind = "action" /\ thread[t].at \in {"target", "act"}
    /\ thread[u].job.kind = "action" /\ thread[u].at \in {"target", "act"}
    => t = u

\* An operation is recorded without the engineer's name only if the session ended
\* or chose another warehouse while the request was running (user_context,
\* actor_context and the last read of the selection).
NamelessOnlyAfterAChange ==
  [][\A t \in Threads : Act(t) /\ Author(thread[t].job) = Nameless =>
       \/ ~Found(thread[t].job.token)
       \/ thread[t].job.gate # thread[t].job.target]_vars

\* Whoever gets the primary lock gives it back: the second lock is never held by
\* one who waits for the first, and every path out of the handler frees both.
LocksAreGivenBack == \A t \in Threads : owner[Primary] = t ~> owner[Primary] # t
=============================================================================
