------------------------------ MODULE MCPages ------------------------------
(* A small instance of the pages.                                          *)
EXTENDS Pages

MCRow == 1 .. 2
MCAlike == {1}
MCUserKind == {{}, {"admin"}, {"kiosk"}, {"disabled"}, {"owing"}, {"billed"}}
MCMoves == [p \in Page |-> IF p = "users" THEN 3 ELSE 4]
=============================================================================
