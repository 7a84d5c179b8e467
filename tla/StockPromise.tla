---------------------------- MODULE StockPromise ----------------------------
(***************************************************************************)
(* What the warehouse promises about stock, whatever the requests are:     *)
(* stock appears only with the card that brings it in, it only ever goes   *)
(* down, never below zero, and a card leaves the books only untouched.     *)
(* The program has no reversal of a write-off, so nothing here gives stock *)
(* back.                                                                   *)
(***************************************************************************)
EXTENDS Integers

CONSTANT Lots  \* identities a lot can have

VARIABLE lots  \* the lots on the books: id -> what came in and what is left

PromiseTypeOK ==
  /\ DOMAIN lots \subseteq Lots
  /\ \A l \in DOMAIN lots : /\ lots[l].total \in Nat \ {0}
                            /\ lots[l].left \in 0..lots[l].total

Untouched(l) == lots[l].left = lots[l].total

Init ==
  /\ DOMAIN lots \subseteq Lots
  /\ \A l \in DOMAIN lots : lots[l].total \in Nat \ {0} /\ Untouched(l)

PutIn ==
  /\ DOMAIN lots \subseteq DOMAIN lots'
  /\ DOMAIN lots' \subseteq Lots
  /\ \A l \in DOMAIN lots : lots'[l] = lots[l]
  /\ \A l \in DOMAIN lots' \ DOMAIN lots :
       lots'[l].total \in Nat \ {0} /\ lots'[l].left = lots'[l].total

TakeOut ==
  /\ DOMAIN lots' = DOMAIN lots
  /\ \A l \in DOMAIN lots : /\ lots'[l].total = lots[l].total
                            /\ lots'[l].left \in 0..lots[l].left

Forget ==
  \E l \in DOMAIN lots : /\ Untouched(l)
                         /\ lots' = [k \in DOMAIN lots \ {l} |-> lots[k]]

Next == PutIn \/ TakeOut \/ Forget

Spec == Init /\ [][Next]_lots
=============================================================================
