----------------------------- MODULE Migration -----------------------------
(***************************************************************************)
(* scripts/migrate_from_mongodb.ts: how the tables the application starts  *)
(* on are filled from the former MongoDB, and then Accounts on top of what *)
(* they hold.                                                              *)
(*                                                                         *)
(* The script runs while the application is stopped.  It truncates the     *)
(* tables, inserts placeholders for whatever a document refers to and is   *)
(* gone, and then copies one collection after another, one statement for   *)
(* each document and no transaction around them.  It may stop anywhere,    *)
(* and is then run again; it may be run again when it was done, too.       *)
(*                                                                         *)
(* A document of a collection is known by its position, 0 stands for a     *)
(* reference to a document that is gone.  Products, categories, favourites *)
(* and the sums on the invoices are copied as they are and left out, as is *)
(* the comparison of counts at the end, which changes nothing.             *)
(***************************************************************************)
EXTENDS Accounts, Sequences

CONSTANTS
  Mongo,          \* the contents of the former database considered
  Ids,            \* ids of user rows in the order the sequence hands them out
  MigrationEmail, \* the address of the placeholder user
  Anon,           \* addresses generateUniqueAnonEmail may come up with
  MaxRuns         \* bound: runs of the script

MongoUser == [email : Email \union {None}, key : Nat, role : Role,
              disabled : BOOLEAN, identity : Person \union {None}]
Reference(docs) == 0 .. Len(docs)

ASSUME MigrationAssumption ==
  /\ Ids \in Seq(User) /\ \A n, k \in DOMAIN Ids : Ids[n] = Ids[k] => n = k
  /\ MigrationEmail \in Email /\ Anon \subseteq Email
  /\ MaxRuns \in Nat
  /\ \A m \in Mongo :
       /\ m.users \in Seq(MongoUser)
       /\ Len(m.users) < Len(Ids) /\ Len(m.users) < Placeholder
       /\ m.deliveries \in Seq(Reference(m.users))
       /\ m.invoices \in Seq([buyer : Reference(m.users), supplier : Reference(m.users),
                              paid : BOOLEAN, orders : SUBSET DOMAIN m.orders])
       /\ m.orders \in Seq([buyer : Reference(m.users), delivery : Reference(m.deliveries),
                            invoice : Reference(m.invoices)])

VARIABLES
  mongo,       \* the former database
  stage,       \* where the script is
  at,          \* the document it copies next
  memory,      \* what it keeps in memory: idMap.users, and the values used
  deliveries,  \* table deliveries: the supplier of each; the placeholder is left out
  invoices,    \* table invoices
  orders,      \* table orders
  runs,        \* counter of the bound
  outcome      \* history: the tables after the first complete run

copied == <<users, links, deliveries, invoices, orders>>
script == <<mongo, stage, at, memory, deliveries, invoices, orders, runs, outcome>>
idle == <<policy, uninvoiced, unpaid, invites, req, begun, lost, crossed, cut, signedIn>>

\* What a new process has in memory; idMap is cleared besides.
Fresh == [row |-> <<>>, placeholder |-> None, keys |-> {0}, fallback |-> 1,
          emails |-> {MigrationEmail}, people |-> {}]

MigrationInit ==
  /\ Init
  /\ mongo \in Mongo
  /\ stage = "stopped" /\ at = 1 /\ memory = Fresh
  /\ deliveries = <<>> /\ invoices = <<>> /\ orders = <<>>
  /\ runs = 0 /\ outcome = <<>>

-----------------------------------------------------------------------------
\* The row a reference became: the placeholder's when it leads nowhere.
UserOf(n) ==
  IF n = 0 \/ memory.row[n] = None THEN memory.placeholder ELSE memory.row[n]
SupplierOf(d) == IF d = 0 THEN memory.placeholder ELSE deliveries[d]

\* The collections in the order they are copied; linkOrdersFromInvoices reads
\* the invoices again.
Docs == [users |-> mongo.users, deliveries |-> mongo.deliveries,
         invoices |-> mongo.invoices, orders |-> mongo.orders, links |-> mongo.invoices]
After == [users |-> "deliveries", deliveries |-> "invoices", invoices |-> "orders",
          orders |-> "links", links |-> "settle"]

\* The next document of the stage, or the next stage.
Advance ==
  IF at < Len(Docs[stage]) THEN stage' = stage /\ at' = at + 1
                           ELSE stage' = After[stage] /\ at' = 1

\* A collection with no document at all.
SkipEmpty ==
  /\ stage \in DOMAIN Docs /\ Docs[stage] = <<>>
  /\ stage' = After[stage] /\ at' = 1
  /\ UNCHANGED <<idle, copied, origin, mongo, memory, runs, outcome>>

\* Mutant: the invoices of the run before are not truncated.
InvoicesStay == invoices
Truncated == <<>>

\* TRUNCATE ... CASCADE, when the script begins.
StartRun ==
  /\ stage \in {"stopped", "done"} /\ runs < MaxRuns
  /\ runs' = runs + 1
  /\ stage' = "placeholders" /\ at' = 1 /\ memory' = Fresh
  /\ users' = [u \in User |-> NoRow] /\ origin' = [u \in User |-> None]
  /\ links' = [p \in Person |-> None]
  /\ deliveries' = <<>> /\ invoices' = Truncated /\ orders' = <<>>
  /\ UNCHANGED <<idle, mongo, outcome>>

\* createPlaceholders: a disabled user that absorbs what is orphaned.
CreatePlaceholders ==
  /\ stage = "placeholders"
  /\ stage' = "users" /\ at' = 1
  /\ users' = [users EXCEPT ![Ids[1]] =
       [email |-> MigrationEmail, role |-> "customer", disabled |-> TRUE, key |-> Placeholder]]
  /\ origin' = [origin EXCEPT ![Ids[1]] = "start"]
  /\ memory' = [memory EXCEPT !.placeholder = Ids[1]]
  /\ UNCHANGED <<idle, links, deliveries, invoices, orders, mongo, runs, outcome>>

-----------------------------------------------------------------------------
(* migrateUsers.                                                           *)

\* Mutant: the fallback number is not compared with the numbers in use.
FallbackUnchecked(m) == m.fallback
\* allocateFallbackKeypadId: from where it stopped, the next number not used.
Fallback(m) == Min({k \in m.fallback .. m.fallback + Cardinality(m.keys) : k \notin m.keys})

KeyOf(doc, m) == IF doc.key > 0 /\ doc.key \notin m.keys THEN doc.key ELSE Fallback(m)

\* An address that is missing, retired or taken is replaced by a random one.
EmailsOf(doc, m) ==
  IF doc.email # None /\ doc.email \notin m.emails THEN {doc.email} ELSE Anon \ m.emails

\* A row the database turns away (a number or an address is taken) is
\* skipped with a warning; its number stays used.
MigrateUser ==
  LET doc == mongo.users[at]
      k == KeyOf(doc, memory)
      u == Ids[at + 1]
      new == doc.identity # None /\ doc.identity \notin memory.people
  IN
  /\ stage = "users" /\ at <= Len(Docs[stage])
  /\ \E e \in EmailsOf(doc, memory) :
       /\ users' = IF Fits(e, k)
                   THEN [users EXCEPT ![u] = [email |-> e, role |-> doc.role,
                                              disabled |-> doc.disabled, key |-> k]]
                   ELSE users
       /\ origin' = IF Fits(e, k) THEN [origin EXCEPT ![u] = "start"] ELSE origin
       /\ links' = IF Fits(e, k) /\ new THEN [links EXCEPT ![doc.identity] = u] ELSE links
       /\ memory' = [memory EXCEPT
            !.row = Append(@, IF Fits(e, k) THEN u ELSE None),
            !.keys = @ \union {k},
            !.fallback = IF k = doc.key THEN @ ELSE k + 1,
            !.emails = @ \union {e},
            !.people = IF Fits(e, k) /\ new THEN @ \union {doc.identity} ELSE @]
  /\ Advance
  /\ UNCHANGED <<idle, deliveries, invoices, orders, mongo, runs, outcome>>

-----------------------------------------------------------------------------
MigrateDelivery ==
  /\ stage = "deliveries" /\ at <= Len(Docs[stage])
  /\ deliveries' = Append(deliveries, UserOf(mongo.deliveries[at]))
  /\ Advance
  /\ UNCHANGED <<idle, users, origin, links, invoices, orders, mongo, memory, runs, outcome>>

MigrateInvoice ==
  LET doc == mongo.invoices[at] IN
  /\ stage = "invoices" /\ at <= Len(Docs[stage])
  /\ invoices' = Append(invoices, [buyer |-> UserOf(doc.buyer),
                                   supplier |-> UserOf(doc.supplier), paid |-> doc.paid])
  /\ Advance
  /\ UNCHANGED <<idle, users, origin, links, deliveries, orders, mongo, memory, runs, outcome>>

MigrateOrder ==
  LET doc == mongo.orders[at] IN
  /\ stage = "orders" /\ at <= Len(Docs[stage])
  /\ orders' = Append(orders, [buyer |-> UserOf(doc.buyer), delivery |-> doc.delivery,
                               invoice |-> doc.invoice])
  /\ Advance
  /\ UNCHANGED <<idle, users, origin, links, deliveries, invoices, mongo, memory, runs, outcome>>

\* linkOrdersFromInvoices: orders only the invoice knows of.
LinkOrders ==
  /\ stage = "links" /\ at <= Len(Docs[stage])
  /\ orders' = [n \in DOMAIN orders |->
       IF n \in mongo.invoices[at].orders /\ orders[n].invoice = 0
         THEN [orders[n] EXCEPT !.invoice = at] ELSE orders[n]]
  /\ Advance
  /\ UNCHANGED <<idle, users, origin, links, deliveries, invoices, mongo, memory, runs, outcome>>

-----------------------------------------------------------------------------
(* settlePlaceholderLinkedOrders.                                          *)

\* Orders of, or supplied by, somebody who is gone, on no invoice.
Orphaned ==
  {n \in DOMAIN orders :
    /\ orders[n].invoice = 0
    /\ memory.placeholder \in {orders[n].buyer, SupplierOf(orders[n].delivery)}}

\* The order of the groups: by buyer, then by supplier.
Position(u) == CHOOSE n \in DOMAIN Ids : Ids[n] = u
Rank(n) == Position(orders[n].buyer) * Len(Ids) + Position(SupplierOf(orders[n].delivery))

\* One paid invoice for each pair of buyer and supplier.
SettleGroup ==
  /\ stage = "settle"
  /\ \E n \in Orphaned :
       /\ \A m \in Orphaned : Rank(n) <= Rank(m)
       /\ invoices' = Append(invoices, [buyer |-> orders[n].buyer,
            supplier |-> SupplierOf(orders[n].delivery), paid |-> TRUE])
       /\ orders' = [m \in DOMAIN orders |->
            IF m \in Orphaned /\ Rank(m) = Rank(n)
              THEN [orders[m] EXCEPT !.invoice = Len(invoices) + 1] ELSE orders[m]]
  /\ UNCHANGED <<idle, users, origin, links, deliveries, mongo, stage, at, memory, runs, outcome>>

\* Last, every invoice of the placeholder is marked paid.
Normalise ==
  /\ stage = "settle" /\ Orphaned = {}
  /\ invoices' = [n \in DOMAIN invoices |->
       IF memory.placeholder \in {invoices[n].buyer, invoices[n].supplier}
         THEN [invoices[n] EXCEPT !.paid = TRUE] ELSE invoices[n]]
  /\ stage' = "done" /\ at' = 1
  /\ outcome' = IF outcome # <<>> THEN outcome
                ELSE <<users, links, deliveries, invoices', orders>>
  /\ UNCHANGED <<idle, users, origin, links, deliveries, orders, mongo, memory, runs>>

\* The script stops: the rows inserted so far stay.
StopRun ==
  /\ stage \notin {"stopped", "done", "live"} /\ runs < MaxRuns
  /\ stage' = "stopped" /\ at' = 1 /\ memory' = Fresh
  /\ UNCHANGED <<idle, copied, origin, mongo, runs, outcome>>

\* The application is started on the tables of a complete run; nothing of
\* the script is left.
GoLive ==
  /\ stage = "done"
  /\ stage' = "live" /\ memory' = Fresh /\ runs' = 0 /\ outcome' = <<>>
  /\ uninvoiced' = {orders[n].buyer : n \in {i \in DOMAIN orders : orders[i].invoice = 0}}
  /\ unpaid' = {invoices[n].buyer : n \in {i \in DOMAIN invoices : ~invoices[i].paid}}
  /\ UNCHANGED <<policy, tables, req, begun, lost, history,
                 mongo, at, deliveries, invoices, orders>>

Migrate ==
  \/ StartRun \/ CreatePlaceholders \/ MigrateUser \/ MigrateDelivery
  \/ MigrateInvoice \/ MigrateOrder \/ LinkOrders \/ SettleGroup \/ Normalise
  \/ SkipEmpty \/ StopRun \/ GoLive

MigrationNext ==
  \/ Migrate
  \/ stage = "live" /\ Next /\ UNCHANGED script

MigrationSpec == MigrationInit /\ [][MigrationNext]_<<vars, script>>

-----------------------------------------------------------------------------
(* Properties.                                                             *)

Complete == stage \in {"done", "live"}

\* What is owed in the former database is owed in the new one, by the same
\* person: an order on no invoice stays on none, an unpaid invoice stays
\* unpaid.  Only what the user with the placeholder's own keypad number has
\* to do with goes to the placeholder, and is settled with it.
Kept(n) == n > 0 /\ mongo.users[n].key # Placeholder
DebtsSurvive ==
  stage = "done" =>
    /\ \A n \in DOMAIN mongo.orders :
         LET doc == mongo.orders[n] IN
         /\ Kept(doc.buyer) /\ doc.delivery > 0 /\ Kept(mongo.deliveries[doc.delivery])
         /\ doc.invoice = 0 /\ \A i \in DOMAIN mongo.invoices : n \notin mongo.invoices[i].orders
         => orders[n].invoice = 0 /\ orders[n].buyer = Ids[doc.buyer + 1]
    /\ \A n \in DOMAIN mongo.invoices :
         LET doc == mongo.invoices[n] IN
         Kept(doc.buyer) /\ Kept(doc.supplier)
           => invoices[n] = [buyer |-> Ids[doc.buyer + 1],
                             supplier |-> Ids[doc.supplier + 1], paid |-> doc.paid]

\* Nobody is asked for, and nobody waits for, what the placeholder stands
\* for: its orders are all on an invoice, its invoices are all paid.
PlaceholderIsSettled ==
  stage = "done" =>
    /\ \A n \in DOMAIN orders :
         memory.placeholder \in {orders[n].buyer, SupplierOf(orders[n].delivery)}
           => orders[n].invoice \in DOMAIN invoices
    /\ \A n \in DOMAIN invoices :
         memory.placeholder \in {invoices[n].buyer, invoices[n].supplier} => invoices[n].paid

\* Both: a debt is either owed as before or settled with the placeholder.
DebtsMigrate == DebtsSurvive /\ PlaceholderIsSettled

\* Once the application runs, the last active admin goes only in a crossing
\* of two updates (LastAdminLostInCrossing of Accounts).
LastAdminLostLive == [][stage = "live" => LostInCrossing]_vars

\* Running the script again, after it stopped anywhere or after it was done,
\* gives the tables a single run gives, but for the made-up addresses.
Plain(t) == [u \in User |-> IF t[u].email \in Anon THEN [t[u] EXCEPT !.email = None] ELSE t[u]]
RunAgainIsTheSame ==
  stage = "done" =>
    /\ Plain(users) = Plain(outcome[1])
    /\ <<links, deliveries, invoices, orders>> = SubSeq(outcome, 2, 5)
=============================================================================
