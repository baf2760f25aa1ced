---------------------------- MODULE FridgeStock ----------------------------
(***************************************************************************)
(* The shelf of the fridge: the tables deliveries and orders, and the      *)
(* three transactions that change them.                                    *)
(*                                                                         *)
(*   OrderService.purchase        one unit of one delivery                 *)
(*   OrderService.purchaseBasket  a kiosk basket, checked against FIFO     *)
(*   AdminService.stornoOrder     an admin cancels an order                *)
(*                                                                         *)
(* They run as PostgreSQL transactions at READ COMMITTED.  A Client is one *)
(* HTTP request in flight; each database statement is a step, a row lock   *)
(* (FOR UPDATE, or the lock an UPDATE takes) is held until the end of the  *)
(* transaction, a read without lock sees what has been committed, and the  *)
(* writes of a transaction become visible together when it commits.  The   *)
(* tables below therefore hold committed rows, and what a transaction has  *)
(* written so far is private to it (seen, made).                           *)
(*                                                                         *)
(* A delivery row is a Lot: a natural number that orders the lots of a     *)
(* product the way ORDER BY created_at, id does.                           *)
(***************************************************************************)
EXTENDS Integers, FiniteSets, FiniteSetsExt, Folds

CONSTANTS
  Client,       \* requests that can be in flight together
  Lot,          \* ids of delivery rows, in FIFO order
  ProductOf,    \* the product of each delivery
  MaxSupply,    \* bound: units in a delivery
  MaxQty,       \* bound: units of one delivery asked for in a basket
  MaxRequests   \* bound: purchases, baskets and stornos begun

ASSUME StockAssumption ==
  /\ Lot \subseteq Nat
  /\ IsFiniteSet(Lot)
  /\ ProductOf \in [Lot -> Nat]
  /\ MaxSupply \in Nat
  /\ MaxQty \in Nat
  /\ MaxRequests \in Nat

VARIABLES
  supplied,  \* deliveries.amount_supplied; 0 for a row not inserted yet
  stock,     \* deliveries.amount_left
  orders,    \* rows of orders: [id, lot]
  invoiced,  \* ids of the orders whose invoice_id is set
  nextId,    \* the sequence behind orders.id
  begun,     \* requests begun so far (bounds the model)
  pc,        \* per request: the statement it executes next
  req,       \* per request: units asked for (or put back) per delivery
  held,      \* per request: delivery rows its transaction has locked
  seen,      \* per request: amount_left as its transaction read it
  fifo,      \* per request: rows its FIFO query returns
  todo,      \* per request: rows the current loop or scan still has to visit
  made,      \* per request: order rows inserted, not committed
  victim     \* per request: id of the order to cancel, 0 if none

tables == <<supplied, stock, orders, invoiced, nextId>>
vars == <<supplied, stock, orders, invoiced, nextId, begun, pc, req, held,
          seen, fifo, todo, made, victim>>

None == [d \in Lot |-> 0]
PC == {"idle", "purchaseLock", "purchaseWrite", "basketLock", "basketFifo",
       "basketWrite", "commit", "stornoLock", "stornoRead", "stornoWrite",
       "stornoCommit"}
Order == [id : Nat, lot : Lot]

Init ==
  /\ supplied = None /\ stock = None
  /\ orders = {} /\ invoiced = {} /\ nextId = 1 /\ begun = 0
  /\ pc = [c \in Client |-> "idle"]
  /\ req = [c \in Client |-> None]
  /\ held = [c \in Client |-> {}]
  /\ seen = [c \in Client |-> None]
  /\ fifo = [c \in Client |-> {}]
  /\ todo = [c \in Client |-> {}]
  /\ made = [c \in Client |-> {}]
  /\ victim = [c \in Client |-> 0]

-----------------------------------------------------------------------------
(* Rows and row locks. *)

Exists(d) == supplied[d] > 0
Ids(S) == {o.id : o \in S}

\* Mutant: amount_left >= 0 in the WHERE clause of purchase.
InStockOrEmpty(d) == stock[d] >= 0
InStock(d) == stock[d] > 0

\* No other transaction holds the lock of delivery row d.
RowFree(c, d) == \A x \in Client \ {c} : d \notin held[x]

\* No other storno holds the lock of order row i.
OrderFree(c, i) ==
  \A x \in Client \ {c} :
    victim[x] = i => pc[x] \in {"idle", "stornoLock"}

\* What the request knew is gone with it.
Forget(c) ==
  /\ pc' = [pc EXCEPT ![c] = "idle"]
  /\ req' = [req EXCEPT ![c] = None]
  /\ seen' = [seen EXCEPT ![c] = None]
  /\ fifo' = [fifo EXCEPT ![c] = {}]
  /\ todo' = [todo EXCEPT ![c] = {}]
  /\ made' = [made EXCEPT ![c] = {}]
  /\ victim' = [victim EXCEPT ![c] = 0]
  /\ UNCHANGED begun

\* Mutant: the transaction is neither committed nor rolled back on some path.
EndLeaking(c) == Forget(c) /\ UNCHANGED held
\* The transaction of c ends: its locks are released.
End(c) == Forget(c) /\ held' = [held EXCEPT ![c] = {}]

\* ROLLBACK: nothing the transaction wrote becomes visible.
Rollback(c) == End(c) /\ UNCHANGED tables

\* c locks delivery row d and reads its latest committed version.
LockRow(c, d) ==
  /\ held' = [held EXCEPT ![c] = @ \union {d}]
  /\ seen' = [seen EXCEPT ![c][d] = stock[d]]

\* The value written to amount_left when q units are sold, computed from the
\* row read earlier in the transaction.
Decremented(c, d, q) == seen[c][d] - q

-----------------------------------------------------------------------------
(* Supplier: DeliveryService.addStock inserts one row.  Rows of concurrent *)
(* inserts may become visible in another order than created_at.            *)

AddStock(d, n) ==
  /\ ~Exists(d)
  /\ supplied' = [supplied EXCEPT ![d] = n]
  /\ stock' = [stock EXCEPT ![d] = n]
  /\ UNCHANGED <<orders, invoiced, nextId, begun, pc, req, held, seen, fifo,
                 todo, made, victim>>

\* The UPDATE orders SET invoice_id of an invoice generation: it waits for
\* the row locks of the orders it links.
InvoiceOrders(S) ==
  /\ S # {} /\ S \subseteq Ids(orders)
  /\ \A i \in S, c \in Client :
       victim[c] = i => pc[c] \in {"idle", "stornoLock"}
  /\ invoiced' = invoiced \union S
  /\ UNCHANGED <<supplied, stock, orders, nextId, begun, pc, req, held, seen,
                 fifo, todo, made, victim>>

-----------------------------------------------------------------------------
(* OrderService.purchase *)

Begin(c, to) ==
  /\ pc[c] = "idle"
  /\ begun < MaxRequests
  /\ begun' = begun + 1
  /\ pc' = [pc EXCEPT ![c] = to]

PurchaseBegin(c, d) ==
  /\ Begin(c, "purchaseLock")
  /\ req' = [req EXCEPT ![c][d] = 1]
  /\ UNCHANGED <<tables, held, seen, fifo, todo, made, victim>>

\* SELECT ... WHERE id AND amount_left > 0 FOR UPDATE finds no row.
PurchaseOutOfStock(c) ==
  /\ pc[c] = "purchaseLock"
  /\ \A d \in Lot : req[c][d] = 1 => ~InStock(d)
  /\ Rollback(c)

\* Mutant: the row is read without FOR UPDATE.
PurchaseRead(c) ==
  /\ pc[c] = "purchaseLock"
  /\ \E d \in Lot : req[c][d] = 1 /\ InStock(d) /\ LockRow(c, d)
  /\ pc' = [pc EXCEPT ![c] = "purchaseWrite"]
  /\ UNCHANGED <<tables, begun, req, fifo, todo, made, victim>>
\* It finds the row, once nobody else holds its lock.
PurchaseLock(c) ==
  /\ pc[c] = "purchaseLock"
  /\ \E d \in Lot :
       /\ req[c][d] = 1 /\ InStock(d) /\ RowFree(c, d)
       /\ LockRow(c, d)
  /\ pc' = [pc EXCEPT ![c] = "purchaseWrite"]
  /\ UNCHANGED <<tables, begun, req, fifo, todo, made, victim>>

NewRow(i, d) == [id |-> i, lot |-> d]

\* delivery.save() and the order rows of one delivery, inside the transaction.
WriteLine(c, d) ==
  /\ seen' = [seen EXCEPT ![c][d] = Decremented(c, d, req[c][d])]
  /\ made' = [made EXCEPT ![c] =
                @ \union {NewRow(i, d) : i \in nextId .. nextId + req[c][d] - 1}]
  /\ nextId' = nextId + req[c][d]
  /\ UNCHANGED <<supplied, stock, orders, invoiced>>

PurchaseWrite(c) ==
  /\ pc[c] = "purchaseWrite"
  /\ \E d \in held[c] : WriteLine(c, d)
  /\ pc' = [pc EXCEPT ![c] = "commit"]
  /\ UNCHANGED <<begun, req, held, fifo, todo, victim>>

-----------------------------------------------------------------------------
(* OrderService.purchaseBasket *)

Requested(c) == {d \in Lot : req[c][d] > 0}

\* Items of the same delivery are added up before anything else.
BasketBegin(c, r) ==
  /\ r # None
  /\ Begin(c, "basketLock")
  /\ req' = [req EXCEPT ![c] = r]
  /\ todo' = [todo EXCEPT ![c] = {d \in Lot : r[d] > 0 /\ Exists(d)}]
  /\ UNCHANGED <<tables, held, seen, fifo, made, victim>>

\* SELECT ... WHERE id IN (...) FOR UPDATE: the rows come, and are locked, in
\* no particular order.
BasketLockRow(c, d) ==
  /\ pc[c] = "basketLock" /\ d \in todo[c]
  /\ RowFree(c, d)
  /\ LockRow(c, d)
  /\ todo' = [todo EXCEPT ![c] = @ \ {d}]
  /\ UNCHANGED <<tables, begun, pc, req, fifo, made, victim>>

\* Every requested row was found and has enough units left.
Sufficient(c) == \A d \in Requested(c) : d \in held[c] /\ seen[c][d] >= req[c][d]

BasketOutOfStock(c) ==
  /\ pc[c] = "basketLock" /\ todo[c] = {}
  /\ ~Sufficient(c)
  /\ Rollback(c)

\* The rows the FIFO query finds: every delivery of a requested product with
\* units left.
FifoRows(c) ==
  {d \in Lot : stock[d] > 0 /\ \E e \in Requested(c) : ProductOf[d] = ProductOf[e]}

BasketStockOk(c) ==
  /\ pc[c] = "basketLock" /\ todo[c] = {}
  /\ Sufficient(c)
  /\ pc' = [pc EXCEPT ![c] = "basketFifo"]
  /\ fifo' = [fifo EXCEPT ![c] = FifoRows(c)]
  /\ todo' = [todo EXCEPT ![c] = FifoRows(c)]
  /\ UNCHANGED <<tables, begun, req, held, seen, made, victim>>

\* ORDER BY product_id, created_at, id
Before(d, e) ==
  \/ ProductOf[d] < ProductOf[e]
  \/ ProductOf[d] = ProductOf[e] /\ d < e

\* ... FOR UPDATE locks the rows in that order.  A row whose units were sold
\* while the query waited stays locked and counts as empty.
BasketFifoLock(c) ==
  /\ pc[c] = "basketFifo"
  /\ \E d \in todo[c] :
       /\ \A e \in todo[c] \ {d} : Before(d, e)
       /\ RowFree(c, d)
       /\ LockRow(c, d)
       /\ todo' = [todo EXCEPT ![c] = @ \ {d}]
  /\ UNCHANGED <<tables, begun, pc, req, fifo, made, victim>>

\* Mutant: the units of all products are added up.
TotalOfBasket(c, p) == MapThenSumSet(LAMBDA d : req[c][d], Lot)
\* Units of product p asked for.
TotalRequested(c, p) ==
  MapThenSumSet(LAMBDA d : IF ProductOf[d] = p THEN req[c][d] ELSE 0, Lot)

\* The loop that takes the units of product p from its deliveries, oldest
\* first (the largest id is what comes last): what it takes from each, and how
\* many units are still missing.
ExpectedSplit(c, p) ==
  LET Take(d, acc) ==
        LET take == IF seen[c][d] < acc.remaining THEN seen[c][d] ELSE acc.remaining
        IN  [remaining |-> acc.remaining - take,
             taken |-> [acc.taken EXCEPT ![d] = take]]
  IN  MapThenFoldSet(Take, [remaining |-> TotalRequested(c, p), taken |-> None],
                     LAMBDA d : d, Max, {d \in fifo[c] : ProductOf[d] = p})

\* Mutant: the basket only has to fit in what the product has left.
FifoOkByTotal(c) ==
  \A p \in {ProductOf[d] : d \in Requested(c)} : ExpectedSplit(c, p).remaining = 0
\* The basket asks, product by product, for exactly the units FIFO would take.
FifoOk(c) ==
  \A p \in {ProductOf[d] : d \in Requested(c)} :
    LET split == ExpectedSplit(c, p)
    IN  /\ split.remaining = 0
        /\ \A d \in Lot : ProductOf[d] = p => split.taken[d] = req[c][d]

\* OUT_OF_STOCK or FIFO_VIOLATION: the basket is refused.
BasketRefused(c) ==
  /\ pc[c] = "basketFifo" /\ todo[c] = {}
  /\ ~FifoOk(c)
  /\ Rollback(c)

BasketFifoOk(c) ==
  /\ pc[c] = "basketFifo" /\ todo[c] = {}
  /\ FifoOk(c)
  /\ pc' = [pc EXCEPT ![c] = "basketWrite"]
  /\ todo' = [todo EXCEPT ![c] = Requested(c)]
  /\ UNCHANGED <<tables, begun, req, held, seen, fifo, made, victim>>

BasketWrite(c, d) ==
  /\ pc[c] = "basketWrite" /\ d \in todo[c]
  /\ WriteLine(c, d)
  /\ todo' = [todo EXCEPT ![c] = @ \ {d}]
  /\ pc' = [pc EXCEPT ![c] = IF todo[c] = {d} THEN "commit" ELSE @]
  /\ UNCHANGED <<begun, req, held, fifo, victim>>

\* COMMIT of a purchase or of a basket.
Commit(c) ==
  /\ pc[c] = "commit"
  /\ stock' = [d \in Lot |-> IF d \in Requested(c) THEN seen[c][d] ELSE stock[d]]
  /\ orders' = orders \union made[c]
  /\ End(c)
  /\ UNCHANGED <<supplied, invoiced, nextId>>

-----------------------------------------------------------------------------
(* AdminService.stornoOrder *)

StornoBegin(c, i) ==
  /\ i \in Ids(orders)
  /\ Begin(c, "stornoLock")
  /\ victim' = [victim EXCEPT ![c] = i]
  /\ UNCHANGED <<tables, req, held, seen, fifo, todo, made>>

\* firstOrFail(): another storno has deleted the row meanwhile.
StornoGone(c) ==
  /\ pc[c] = "stornoLock" /\ victim[c] \notin Ids(orders)
  /\ Rollback(c)

\* SELECT ... FOR UPDATE on the order row.
StornoLock(c) ==
  /\ pc[c] = "stornoLock" /\ victim[c] \in Ids(orders)
  /\ OrderFree(c, victim[c])
  /\ pc' = [pc EXCEPT ![c] = "stornoRead"]
  /\ UNCHANGED <<tables, begun, req, held, seen, fifo, todo, made, victim>>

MayStorno(i) == i \notin invoiced

\* preload('delivery') reads the delivery without locking it; then an order
\* that is on an invoice is refused.
StornoRead(c) ==
  /\ pc[c] = "stornoRead"
  /\ MayStorno(victim[c])
  /\ \E o \in orders :
       /\ o.id = victim[c]
       /\ req' = [req EXCEPT ![c][o.lot] = 1]
       /\ seen' = [seen EXCEPT ![c][o.lot] = stock[o.lot]]
  /\ pc' = [pc EXCEPT ![c] = "stornoWrite"]
  /\ UNCHANGED <<tables, begun, held, fifo, todo, made, victim>>

StornoRefused(c) ==
  /\ pc[c] = "stornoRead" /\ ~MayStorno(victim[c])
  /\ Rollback(c)

\* UPDATE deliveries SET amount_left = <value read> + 1: waits for the row
\* lock, and writes the value whatever the row holds by then.
StornoWrite(c) ==
  /\ pc[c] = "stornoWrite"
  /\ \E d \in Requested(c) :
       /\ RowFree(c, d)
       /\ held' = [held EXCEPT ![c] = @ \union {d}]
       /\ seen' = [seen EXCEPT ![c][d] = @ + 1]
  /\ pc' = [pc EXCEPT ![c] = "stornoCommit"]
  /\ UNCHANGED <<tables, begun, req, fifo, todo, made, victim>>

\* The order row is deleted and the transaction commits.
StornoCommit(c) ==
  /\ pc[c] = "stornoCommit"
  /\ \E d \in Requested(c) : stock' = [stock EXCEPT ![d] = seen[c][d]]
  /\ orders' = {o \in orders : o.id # victim[c]}
  /\ End(c)
  /\ UNCHANGED <<supplied, invoiced, nextId>>

-----------------------------------------------------------------------------
(* Failure and deadlock. *)

\* A statement fails, the connection is lost or the process dies: PostgreSQL
\* rolls the transaction back.
Abort(c) == pc[c] # "idle" /\ Rollback(c)

\* Rows the next statement of c may have to wait for.
Wants(c) ==
  CASE pc[c] = "purchaseLock" -> {d \in Requested(c) : InStock(d)}
    [] pc[c] = "basketLock"   -> todo[c]
    [] pc[c] = "basketFifo"   -> {d \in todo[c] : \A e \in todo[c] \ {d} : Before(d, e)}
    [] pc[c] = "stornoWrite"  -> Requested(c)
    [] OTHER                  -> {}

\* c waits for a lock that x holds.
WaitsFor(c, x) ==
  \/ x # c /\ Wants(c) \intersect held[x] # {}
  \/ /\ x # c /\ pc[c] = "stornoLock"
     /\ victim[x] = victim[c] /\ pc[x] \notin {"idle", "stornoLock"}

\* A set of requests each of which waits for another one of the set.
WaitCycle(S) == S # {} /\ \A c \in S : \E x \in S : WaitsFor(c, x)

\* PostgreSQL's deadlock detector cancels one transaction of a cycle.
DeadlockVictim(c) ==
  /\ \E S \in SUBSET Client : c \in S /\ WaitCycle(S)
  /\ Rollback(c)

-----------------------------------------------------------------------------
Baskets == [Lot -> 0 .. MaxQty]

\* The next statement of the transaction of c.
Step(c) ==
  \/ PurchaseOutOfStock(c) \/ PurchaseLock(c) \/ PurchaseWrite(c)
  \/ \E d \in Lot : BasketLockRow(c, d)
  \/ BasketOutOfStock(c) \/ BasketStockOk(c)
  \/ BasketFifoLock(c) \/ BasketRefused(c) \/ BasketFifoOk(c)
  \/ \E d \in Lot : BasketWrite(c, d)
  \/ Commit(c)
  \/ StornoGone(c) \/ StornoLock(c) \/ StornoRead(c) \/ StornoRefused(c)
  \/ StornoWrite(c) \/ StornoCommit(c)

Next ==
  \/ \E d \in Lot, n \in 1 .. MaxSupply : AddStock(d, n)
  \/ \E S \in SUBSET Ids(orders) : InvoiceOrders(S)
  \/ \E c \in Client :
       \/ \E d \in Lot : PurchaseBegin(c, d)
       \/ \E r \in Baskets : BasketBegin(c, r)
       \/ \E i \in Ids(orders) : StornoBegin(c, i)
       \/ Step(c)
       \/ Abort(c)
       \/ DeadlockVictim(c)

Spec == Init /\ [][Next]_vars

-----------------------------------------------------------------------------
(* Properties. *)

TypeOK ==
  /\ supplied \in [Lot -> Nat] /\ stock \in [Lot -> Int]
  /\ orders \subseteq Order /\ invoiced \subseteq Nat
  /\ nextId \in Nat /\ begun \in Nat
  /\ pc \in [Client -> PC]
  /\ req \in [Client -> [Lot -> Nat]]
  /\ held \in [Client -> SUBSET Lot]
  /\ seen \in [Client -> [Lot -> Int]]
  /\ fifo \in [Client -> SUBSET Lot]
  /\ todo \in [Client -> SUBSET Lot]
  /\ made \in [Client -> SUBSET Order]
  /\ victim \in [Client -> Nat]

\* However purchases, baskets and stornos interleave, amount_left never goes
\* below zero (the column has no CHECK): what purchase and purchaseBasket
\* subtract is bounded by what they have read under the row lock, and a
\* storno that overwrites them with a stale value only writes more.
NoOversell == \A d \in Lot : stock[d] >= 0

\* The transactions that have a row locked and have not written it yet.
Reading == {"purchaseWrite", "basketLock", "basketFifo"}

\* What purchase and purchaseBasket read of a row they locked is what the
\* table still holds when they compute the new amount from it, whoever else
\* writes deliveries meanwhile, stornos included.
LockedReadIsCurrent ==
  \A c \in Client :
    pc[c] \in Reading => \A d \in held[c] : seen[c][d] = stock[d]

\* When a basket commits, every older lot of a product it takes units from
\* that its FIFO query returned is empty: nobody put a unit back or took a
\* lot away between the check and the commit.
BasketFifo ==
  [][\A c \in Client : Commit(c) /\ fifo[c] # {} =>
       \A d \in Requested(c), e \in fifo[c] :
         ProductOf[d] = ProductOf[e] /\ e < d => stock'[e] = 0]_vars

\* A basket is refused by the FIFO check only when it leaves an older unit of
\* a product on the shelf; asking oldest first, for several products at once
\* and while others buy, is always accepted.
RefusedForAReason ==
  [][\A c \in Client : BasketRefused(c) =>
       \E d \in Requested(c), e \in fifo[c] :
         ProductOf[d] = ProductOf[e] /\ e < d /\ req[c][e] < seen[c][e]]_vars

\* Every unit supplied is on the shelf or on an order: stock neither appears
\* nor vanishes.
Sold(d) == Cardinality({o \in orders : o.lot = d})
Conservation == \A d \in Lot : stock[d] + Sold(d) = supplied[d]

\* An order that is on an invoice is never cancelled, even when the invoice
\* is generated while the storno is already on its way.
InvoicedKept == invoiced \subseteq Ids(orders)

\* Only baskets can be caught in a deadlock with each other: any set of
\* requests that wait for each other holds at least two baskets, so a single
\* purchase or a storno is never the cause of one.
OnlyBasketsDeadlock ==
  \A S \in SUBSET Client :
    WaitCycle(S) =>
      Cardinality({c \in S : pc[c] \in {"basketLock", "basketFifo"}}) >= 2

-----------------------------------------------------------------------------
(* The behaviours in which no delivery changes between the unlocked read   *)
(* and the write of a storno.                                              *)

StornoReadIsCurrent ==
  \A c \in Client :
    pc[c] = "stornoWrite" => \A d \in Requested(c) : seen[c][d] = stock[d]

QuietNext == Next /\ StornoReadIsCurrent'
QuietSpec == Init /\ [][QuietNext]_vars

\* In those behaviours the transactions implement the shelf: every one takes
\* effect at its commit, whole, and every other step is invisible.
SoldOf == [d \in Lot |-> Sold(d)]
OnShelf == INSTANCE Shelf WITH left <- stock, sold <- SoldOf
ImplementsShelf == OnShelf!ShelfSpec

\* In every behaviour they keep the book of orders, whatever is invoiced meanwhile.
OnBook == INSTANCE OrderBook WITH orders <- Ids(orders), billed <- invoiced
KeepsBook == OnBook!BookSpec

\* Every step that is not itself the commit of a storno with an old count is a step of
\* the shelf, whatever such stornos did before and while others of them wait for their
\* commit: what a transaction does to stock and orders shows all at once, and no unit
\* leaves the one without entering the other.
CommitsOldCount(c) ==
  StornoCommit(c) /\ \E d \in Requested(c) : seen[c][d] # stock[d] + 1
StepsOnShelf ==
  [][\/ \E c \in Client : CommitsOldCount(c)
     \/ [OnShelf!ShelfNext]_(OnShelf!shelfVars)]_vars

=============================================================================
