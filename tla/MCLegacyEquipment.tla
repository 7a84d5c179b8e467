------------------------- MODULE MCLegacyEquipment -------------------------
(* Instances of LegacyEquipment for TLC. *)
EXTENDS LegacyEquipment

CONSTANTS s1, s2, n1, n2

Tables(rows, onCards, index) ==
  [equip |-> rows, cards |-> onCards, lastCard |-> Len(onCards),
   taken |-> [c \in CardIds |-> 0], linked |-> {}, unique |-> index,
   behind |-> {}, drained |-> {}]

Row(s, n, q) == [serial |-> s, number |-> n, quantity |-> q]
Mirror(s, n, q, e) == [serial |-> s, number |-> n, quantity |-> q, legacy |-> e]

\* A row of the first version with its card.
MirroredFile == {Tables(<<Row(s1, n1, 1)>>, <<Mirror(s1, n1, 1, 1)>>, TRUE)}

\* A file filled before: a mirrored row without a number, whose card has none
\* either (numbers were optional in historical data), and a card of today.
FilledFile ==
  {Tables(<<Row(s1, NoNumber, 1)>>,
          <<Mirror(s1, NoNumber, 1, 1), Mirror(s2, NoNumber, 1, Unlinked)>>,
          TRUE)}

\* Promoted files carry cards that share an S/N.
TwinFile ==
  {Tables(<<Row(s1, n1, 1)>>,
          <<Mirror(s1, NoNumber, 1, Unlinked), Mirror(s1, NoNumber, 1, Unlinked)>>,
          FALSE)}

Starts == MirroredFile \cup FilledFile \cup TwinFile

\* A file of the first version's rows.
RowFiles == {<<Row(s2, n2, 1)>>}

\* A receipt for one row, an issue from both, and one in two lines from one.
Line(n, q) == [number |-> n, quantity |-> q]
TurnoverFiles ==
  {[type |-> "RECEIPT", rows |-> <<Line(n1, 1)>>],
   [type |-> "ISSUE", rows |-> <<Line(n1, 1), Line(n2, 1)>>],
   [type |-> "ISSUE", rows |-> <<Line(n2, 1), Line(n2, 1)>>]}

Pair(s, n) == [serial |-> s, number |-> n]
NumberBatches ==
  {<<Pair(s1, n1)>>, <<Pair(s1, n2), Pair(s2, n2)>>, <<Pair(s1, n2), Pair(s2, n1)>>,
   <<Pair(s2, n1), Pair(s2, n2)>>}
=============================================================================
