--------------------------- MODULE MCFridgeStock ---------------------------
(* Small instances of FridgeStock: two lots of one product, or two lots of *)
(* one product and one of another.                                         *)
EXTENDS FridgeStock, TLC

CONSTANTS c1, c2, c3

MCTwoLots == 1 .. 2
MCOneProduct == [d \in 1 .. 2 |-> 10]
MCThreeLots == 1 .. 3
MCTwoProducts == [d \in 1 .. 3 |-> IF d = 2 THEN 20 ELSE 10]

MCSymmetry == Permutations(Client)
=============================================================================
