----------------------------- MODULE OrderBook -----------------------------
(***************************************************************************)
(* The order rows as those who sell, cancel and invoice share them, with   *)
(* nobody's transactions in it.  FridgeStock knows of an invoice only that *)
(* it marks orders, and Invoicing of a purchase only that orders appear;   *)
(* both keep this book, so what each takes the other to do is what the     *)
(* other does.                                                             *)
(***************************************************************************)
VARIABLES
  orders,  \* ids of the order rows
  billed   \* ids of those that have an invoice

bookVars == <<orders, billed>>

BookInit == orders = {} /\ billed = {}

\* The orders of one purchase or basket, in one step and under ids not in use.
Sell(S) ==
  /\ S \intersect (orders \union billed) = {}
  /\ orders' = orders \union S
  /\ UNCHANGED billed

\* The orders of one generation, in one step; none of them has been cancelled.
Bill(S) ==
  /\ S \subseteq orders
  /\ billed' = billed \union S
  /\ UNCHANGED orders

\* One order, and never one that has an invoice.
Cancel(o) ==
  /\ o \in orders \ billed
  /\ orders' = orders \ {o}
  /\ UNCHANGED billed

BookNext ==
  \/ \E S \in SUBSET orders' : Sell(S)
  \/ \E S \in SUBSET orders : Bill(S)
  \/ \E o \in orders : Cancel(o)

BookSpec == BookInit /\ [][BookNext]_bookVars
=============================================================================
