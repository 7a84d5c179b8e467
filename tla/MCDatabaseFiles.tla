---------------------------- MODULE MCDatabaseFiles ----------------------------
(* Instances of DatabaseFiles and OdeDatabase for TLC: the operational file with
   its copies, and the database of the next version, which share nothing. *)
EXTENDS DatabaseFiles, OdeDatabase, TLC

CONSTANTS o1, o2, l1, p1, p2, u1, u2, u3, c1, c2

\* A file of the first version, one without an administrator, an incomplete one
\* that was promoted, and one that is no database of the warehouse.
Offered(shape, users) == [shape |-> shape, users |-> users, rows |-> {}]
OfferedFiles ==
  {Offered("older", "none"), Offered("current", "noAdmin"), Offered("stuck", "admin"),
   Offered("damaged", "none")}

\* Two units of work in one context, the second inside the first, and one beside.
Nested == u1 :> c1 @@ u2 :> c1 @@ u3 :> c2

Alike == Permutations(Ops) \cup Permutations(Creations)

VARIABLE part

\* The database of the next version before its creation, and after it.
Created ==
  /\ creation = [p \in Creations |-> IF p = p1 THEN "created" ELSE "killed"]
  /\ drafts = {} /\ target = p1
  /\ content = [f \in Creations \cup {Void} |->
                  IF f = p1 THEN [Blank EXCEPT !.run = Versions, !.registered = Versions]
                  ELSE Blank]
  /\ unit = [u \in Units |-> NotEntered]
  /\ active = [c \in Contexts |-> FALSE]
  /\ look = [at |-> "idle"]

MCInit ==
  /\ Init
  /\ \/ part \in {"files", "create"} /\ InitOde
     \/ part = "work" /\ Created

\* While it is created only one unit of work comes to it, with one statement, which may
\* end with Ctrl-C at its exit; afterwards two of three write, one of them in two
\* statements, which may end with an error of close alone.
MCNext ==
  /\ UNCHANGED part
  /\ \/ part = "files" /\ Next /\ UNCHANGED odeVars
     \/ /\ part = "create" /\ UNCHANGED vars
        /\ (Creating \/ Working \/ Looking)
        /\ unit'[u1].at = "new" /\ unit'[u3].at = "new"
        /\ unit'[u2].n < 2 /\ unit'[u2].outcome # "close"
     \/ /\ part = "work" /\ UNCHANGED vars
        /\ (Working \/ Looking)
        /\ ~unit'[u2].write /\ unit'[u3].n < 2 /\ unit'[u2].n < 2
        /\ \A u \in Units : unit'[u].outcome # "interrupted"
        /\ "close" \notin {unit'[u2].outcome, unit'[u3].outcome}
        /\ unit'[u3].at = "open" => unit'[u3].tx

MCSpec == MCInit /\ [][MCNext]_<<vars, odeVars, part>>
=============================================================================
