----------------------------- MODULE MCContact ------------------------------
(* Small instances of Contact.                                             *)
EXTENDS Contact, TLC

CONSTANTS ann, bob, ea, eb, ex, ey, b1, b2, t1, t2, t3, r1, r2

\* ann has a verified address and an IBAN, or neither; bob is there so that
\* an address can be taken.
Ann(v, b) == [email |-> ea, pendingEmail |-> None, verified |-> v, iban |-> b, pendingIban |-> None]
Bob == [email |-> eb, pendingEmail |-> None, verified |-> TRUE, iban |-> None, pendingIban |-> None]
MCStart == {[u \in User |-> IF u = ann THEN a ELSE Bob] : a \in {Ann(TRUE, b1), Ann(FALSE, None)}}

\* The provider vouches for one address, of ann and of bob.
MCTrusted == {<<ann, ey>>, <<bob, ey>>}

MCSymmetry == Permutations(Request) \union Permutations(Token)
=============================================================================
