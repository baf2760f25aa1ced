---------------------------- MODULE MCMigration ----------------------------
(* A small instance of Accounts on what Migration left.                    *)
EXTENDS Migration, TLC

CONSTANTS u1, u2, u3, u4, e1, e2, e3, e4, p1, p2, i1, i2, r1, r2, r3

MCEmailOf == [p \in Person |-> e3]
MCStart == {[u \in User |-> NoRow]}
MCIds == <<u1, u2, u3>>

Doc(e, k, x) == [email |-> e, key |-> k, role |-> x, disabled |-> FALSE, identity |-> None]
Bill_(b, s, paid, o) == [buyer |-> b, supplier |-> s, paid |-> paid, orders |-> o]
Sale(b, d, i) == [buyer |-> b, delivery |-> d, invoice |-> i]

\* Two admins with one address and one keypad number, a debt of the first
\* with the second, an order and an invoice of a buyer who is gone; no admin
\* but a disabled customer with a gap below, whose order is of a delivery that
\* is gone, and a user with the placeholder's number, a buyer gone, no invoices.
MCMongo ==
  { [users |-> <<Doc(e1, 1, "admin"), [Doc(e1, 1, "admin") EXCEPT !.identity = p]>>,
     deliveries |-> <<2>>,
     invoices |-> <<Bill_(1, 2, TRUE, {3}), Bill_(0, 2, FALSE, {})>>,
     orders |-> <<Sale(1, 1, 0), Sale(0, 1, 0), Sale(1, 1, 0)>>] : p \in Person } \union
  { [users |-> <<[Doc(e1, 2, "customer") EXCEPT !.disabled = TRUE], Doc(e2, Placeholder, "customer")>>,
     deliveries |-> <<1>>,
     invoices |-> <<>>,
     orders |-> <<Sale(1, 0, 0), Sale(2, 1, 0), Sale(0, 1, 0)>>] }

MCSymmetry == Permutations(Request) \union Permutations(Invite)
                \union Permutations(Person)
=============================================================================
