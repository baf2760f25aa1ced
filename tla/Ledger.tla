------------------------------ MODULE Ledger -------------------------------
(***************************************************************************)
(* What invoicing promises about orders and invoices, with no transactions *)
(* in it: an order is sold once; invoices are made, at once, of orders     *)
(* that are on none, each of one buyer and one supplier; an order on no    *)
(* invoice may be cancelled; and what is on an invoice stays on it.        *)
(***************************************************************************)
EXTENDS Integers

CONSTANTS Order, BuyerOf, SupplierOf

VARIABLES
  placed,  \* orders ever sold
  orders,  \* orders that stand
  onBill,  \* the number of the invoice an order is on, 0 for none
  bills    \* invoices: [id, buyer, supplier, counted]

ledgerVars == <<placed, orders, onBill, bills>>

Unbilled == {o \in orders : onBill[o] = 0}

LedgerInit ==
  /\ placed = {} /\ orders = {} /\ bills = {}
  /\ onBill = [o \in Order |-> 0]

Sale(o) ==
  /\ o \notin placed
  /\ placed' = placed \union {o}
  /\ orders' = orders \union {o}
  /\ UNCHANGED <<onBill, bills>>

\* One generation: new invoices with numbers of their own, at most one for a
\* buyer and a supplier, with each of the orders they ask for on just one of them,
\* which asks for nothing else; all from one supplier or all for one buyer.
Bill ==
  LET new == bills' \ bills IN
  /\ new # {} /\ bills \subseteq bills'
  /\ \A i \in new :
       /\ i.id # 0 /\ \A j \in bills : j.id # i.id
       /\ i.counted # {} /\ i.counted \subseteq Unbilled
       /\ \A o \in i.counted :
            BuyerOf[o] = i.buyer /\ SupplierOf[o] = i.supplier /\ onBill'[o] = i.id
  /\ \A i, j \in new : i # j =>
       i.id # j.id /\ <<i.buyer, i.supplier>> # <<j.buyer, j.supplier>>
  /\ \/ \A i, j \in new : i.supplier = j.supplier
     \/ \A i, j \in new : i.buyer = j.buyer
  /\ DOMAIN onBill' = Order
  /\ \A o \in Order : onBill'[o] = onBill[o] \/ \E i \in new : o \in i.counted
  /\ UNCHANGED <<placed, orders>>

Cancel(o) ==
  /\ o \in Unbilled
  /\ orders' = orders \ {o}
  /\ UNCHANGED <<placed, onBill, bills>>

LedgerNext ==
  \/ \E o \in Order : Sale(o)
  \/ Bill
  \/ \E o \in Order : Cancel(o)

LedgerSpec == LedgerInit /\ [][LedgerNext]_ledgerVars
=============================================================================
