----------------------------- MODULE MCOdeDatabase -----------------------------
(* One unit of work on a database of the next version. *)
EXTENDS OdeDatabase

CONSTANTS p1, u1, c1

OneContext == [u \in Units |-> c1]
=============================================================================
