-------------------------- MODULE MCFullInventory --------------------------
(* Small instances of FullInventory for TLC. *)
EXTENDS FullInventory, TLC

CONSTANTS t1, t2, good, flawed, row

\* One source is clean, the other has a row that blocks approval.
MCBlocking == [x \in Sources |-> IF x = flawed THEN {row} ELSE {}]

Interchangeable == Permutations(Threads)
=============================================================================
