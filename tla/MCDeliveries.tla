----------------------------- MODULE MCDeliveries -----------------------------
(* Instances of Deliveries for TLC. *)
EXTENDS Deliveries

CONSTANTS s1, s2, n1

InStock(s, n) == [serial |-> s, number |-> n]

\* One card without a number, and the twins a promoted file may carry.
CardsBefore ==
  {<<InStock(s2, NoNumber)>>, <<InStock(s1, n1), InStock(s1, NoNumber)>>}

Row(s, n) == [serial |-> s, number |-> n, bad |-> FALSE]
BadRow(s) == [serial |-> s, number |-> NoNumber, bad |-> TRUE]

DeliveryFiles ==
  {<<Row(s1, n1)>>, <<Row(s1, NoNumber), Row(s2, n1)>>, <<Row(s1, n1), Row(s1, NoNumber)>>,
   <<BadRow(s2), Row(NoSerial, NoNumber)>>}

RequestValues ==
  {[serial |-> NoSerial, number |-> NoNumber], [serial |-> NoSerial, number |-> n1],
   [serial |-> s2, number |-> NoNumber]}
=============================================================================
