---------------------------- MODULE MCFridgePool ----------------------------
(* Small instances of FridgePool: two lots of one product.                 *)
EXTENDS FridgePool, TLC

CONSTANTS c1, c2, c3

MCTwoLots == 1 .. 2
MCOneProduct == [d \in 1 .. 2 |-> 10]
=============================================================================
