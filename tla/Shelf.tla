------------------------------- MODULE Shelf -------------------------------
(***************************************************************************)
(* What the fridge promises about its stock, with no transactions in it:   *)
(* a delivery is put on the shelf once, a purchase takes its units at      *)
(* once, a cancelled order puts its unit back, and a unit is at every      *)
(* moment either on the shelf or sold.                                     *)
(***************************************************************************)
EXTENDS Integers

CONSTANTS Lot, MaxSupply

VARIABLES
  supplied,  \* units delivered
  left,      \* units on the shelf
  sold       \* units on orders

shelfVars == <<supplied, left, sold>>

ShelfInit ==
  /\ supplied = [d \in Lot |-> 0]
  /\ left = [d \in Lot |-> 0]
  /\ sold = [d \in Lot |-> 0]

Supply(d, n) ==
  /\ supplied[d] = 0
  /\ supplied' = [supplied EXCEPT ![d] = n]
  /\ left' = [left EXCEPT ![d] = n]
  /\ UNCHANGED sold

\* One purchase or one basket: units of any number of deliveries pass from
\* the shelf to orders in a single step, never more than there are.
Sell ==
  /\ left' \in [Lot -> Nat]
  /\ sold' = [d \in Lot |-> sold[d] + left[d] - left'[d]]
  /\ \A d \in Lot : left'[d] <= left[d]
  /\ UNCHANGED supplied

\* A cancelled order.
PutBack(d) ==
  /\ sold[d] > 0
  /\ left' = [left EXCEPT ![d] = @ + 1]
  /\ sold' = [sold EXCEPT ![d] = @ - 1]
  /\ UNCHANGED supplied

ShelfNext ==
  \/ \E d \in Lot, n \in 1 .. MaxSupply : Supply(d, n)
  \/ Sell
  \/ \E d \in Lot : PutBack(d)

ShelfSpec == ShelfInit /\ [][ShelfNext]_shelfVars
=============================================================================
