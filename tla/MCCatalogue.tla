---------------------------- MODULE MCCatalogue ----------------------------
(* A small instance of Recommendations over Catalogue: one product that     *)
(* somebody bought and that is in stock, two still to be created.           *)
EXTENDS Recommendations, TLC
CONSTANTS p1, p2, p3, c1, c2, a1, a2, u1, r1, r2
MCStartKey == [p \in Product |-> IF p = p1 THEN 3 ELSE 0]
MCStartMarks == [o \in Owner |-> IF o = p1 THEN {a1} ELSE {}]
MCStartBought == [u \in User |-> {p1}]
MCSymmetry == Permutations(Request) \union Permutations({p2, p3})
=============================================================================
