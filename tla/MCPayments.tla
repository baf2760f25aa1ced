----------------------------- MODULE MCPayments -----------------------------
(* Small instances of Payments.                                            *)
EXTENDS Payments, TLC

CONSTANTS ann, bob, sue, r1, r2, r3, i1, i2, i3

\* Two requests of buyer ann and one of supplier sue.
MCUserOf == [r \in Request |-> IF r = r3 THEN sue ELSE ann]

\* i1 is an invoice of sue to ann, i2 one of sue to herself, i3 one to bob.
MCBuyerOf == [i \in Invoice |-> CASE i = i1 -> ann [] i = i2 -> sue [] i = i3 -> bob]
MCSupplierOf == [i \in Invoice |-> sue]
=============================================================================
