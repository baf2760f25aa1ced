------------------------------ MODULE MCKiosk ------------------------------
(* A small instance of Kiosk: two lots of one product.                     *)
EXTENDS Kiosk, TLC

CONSTANTS ann, bob

MCLot == 1 .. 2
MCProductOf == [d \in 1 .. 2 |-> 10]
MCSymmetry == Permutations(Customer)
=============================================================================
