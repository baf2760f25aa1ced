---------------------------- MODULE MCInvoicing ----------------------------
(* A small instance of Invoicing: two buyers, two suppliers, four orders.  *)
EXTENDS Invoicing, TLC

CONSTANTS c1, c2, b1, b2, s1, s2, o1, o2, o3, o4

\* Two orders of the same buyer and supplier, one with another buyer, one
\* with another supplier.
MCBuyerOf == [o \in Order |-> IF o = o3 THEN b2 ELSE b1]
MCSupplierOf == [o \in Order |-> IF o = o4 THEN s2 ELSE s1]

MCSymmetry == Permutations({c1, c2}) \union Permutations({o1, o2})
=============================================================================
