---------------------------- MODULE FridgeProofs ----------------------------
(* Theorems about FridgeStock and FridgePool: for any set of requests,     *)
(* deliveries and bounds, and any pool.                                    *)
(*   1. Types and locks; FIFO, with the folds its check is made of;        *)
(*      invoiced orders; deadlocks.                                        *)
(*   2. The steps that are steps of the abstract shelf, which is all but   *)
(*      one kind; where all of them are, and stock is conserved; the book. *)
(*   3. The pool of connections, and the audit log.                        *)
EXTENDS FridgePool, FiniteSetTheorems, WellFoundedInduction, TLAPS

-----------------------------------------------------------------------------
(* Type correctness. *)

LEMMA OrderTyped ==
  ASSUME TypeOK, NEW o \in orders
  PROVE  o.id \in Nat /\ o.lot \in Lot
  BY DEF TypeOK, Order

\* A transaction that ends leaves a well-typed idle request behind.
LEMMA EndTyped ==
  ASSUME TypeOK, NEW c \in Client, End(c)
  PROVE  /\ begun' \in Nat
         /\ pc' \in [Client -> PC]
         /\ req' \in [Client -> [Lot -> Nat]]
         /\ held' \in [Client -> SUBSET Lot]
         /\ seen' \in [Client -> [Lot -> Int]]
         /\ fifo' \in [Client -> SUBSET Lot]
         /\ todo' \in [Client -> SUBSET Lot]
         /\ made' \in [Client -> SUBSET Order]
         /\ victim' \in [Client -> Nat]
  BY DEF TypeOK, End, Forget, PC, None

LEMMA RollbackTyped ==
  ASSUME TypeOK, NEW c \in Client, Rollback(c)
  PROVE  TypeOK'
  BY EndTyped DEF Rollback, TypeOK, tables

\* A row that is locked is read as an integer.
LEMMA LockRowTyped ==
  ASSUME TypeOK, NEW c \in Client, NEW d \in Lot, LockRow(c, d)
  PROVE  /\ held' \in [Client -> SUBSET Lot]
         /\ seen' \in [Client -> [Lot -> Int]]
  BY DEF TypeOK, LockRow

LEMMA WriteLineTyped ==
  ASSUME TypeOK, NEW c \in Client, NEW d \in Lot, WriteLine(c, d)
  PROVE  /\ seen' \in [Client -> [Lot -> Int]]
         /\ made' \in [Client -> SUBSET Order]
         /\ nextId' \in Nat
         /\ UNCHANGED <<supplied, stock, orders, invoiced>>
  <1>1. req[c][d] \in Nat /\ nextId \in Nat /\ seen[c][d] \in Int
    BY DEF TypeOK
  <1>2. {[id |-> i, lot |-> d] : i \in nextId .. nextId + req[c][d] - 1} \subseteq Order
    BY <1>1, StockAssumption DEF Order
  <1>3. Decremented(c, d, req[c][d]) \in Int
    BY <1>1 DEF Decremented
  <1>4. made' \in [Client -> SUBSET Order]
    BY <1>2 DEF TypeOK, WriteLine, NewRow
  <1> QED
    BY <1>1, <1>3, <1>4 DEF TypeOK, WriteLine, NewRow

\* Every step keeps the types.
LEMMA NextTyped == TypeOK /\ [Next]_vars => TypeOK'
  <1> SUFFICES ASSUME TypeOK, [Next]_vars PROVE TypeOK'
    OBVIOUS
  <1> USE StockAssumption
  <1>1. ASSUME NEW d \in Lot, NEW n \in 1 .. MaxSupply, AddStock(d, n)
        PROVE  TypeOK'
    BY <1>1 DEF TypeOK, AddStock
  <1>2. ASSUME NEW S \in SUBSET Ids(orders), InvoiceOrders(S)
        PROVE  TypeOK'
    <2>0. S \subseteq Nat
      BY <1>2, OrderTyped DEF Ids
    <2>1. invoiced' \subseteq Nat
      BY <1>2, <2>0 DEF TypeOK, InvoiceOrders
    <2> QED
      BY <1>2, <2>1 DEF TypeOK, InvoiceOrders
  <1>3. ASSUME NEW c \in Client, NEW d \in Lot, PurchaseBegin(c, d)
        PROVE  TypeOK'
    BY <1>3 DEF TypeOK, PurchaseBegin, Begin, PC, tables
  <1>4. ASSUME NEW c \in Client, NEW r \in Baskets, BasketBegin(c, r)
        PROVE  TypeOK'
    <2>1. r \in [Lot -> Nat]
      BY DEF Baskets
    <2> QED
      BY <1>4, <2>1 DEF TypeOK, BasketBegin, Begin, PC, tables
  <1>5. ASSUME NEW c \in Client, NEW i \in Ids(orders), StornoBegin(c, i)
        PROVE  TypeOK'
    BY <1>5 DEF TypeOK, StornoBegin, Begin, PC, tables, Ids, Order
  <1>6. ASSUME NEW c \in Client, Rollback(c)
        PROVE  TypeOK'
    BY <1>6, RollbackTyped
  <1>7. ASSUME NEW c \in Client, PurchaseLock(c)
        PROVE  TypeOK'
    BY <1>7, LockRowTyped DEF TypeOK, PurchaseLock, PC, tables
  <1>8. ASSUME NEW c \in Client, PurchaseWrite(c)
        PROVE  TypeOK'
    <2>1. PICK d \in held[c] : WriteLine(c, d)
      BY <1>8 DEF PurchaseWrite
    <2>2. d \in Lot
      BY <2>1 DEF TypeOK
    <2> QED
      BY <1>8, <2>1, <2>2, WriteLineTyped DEF TypeOK, PurchaseWrite, PC
  <1>9. ASSUME NEW c \in Client, NEW d \in Lot, BasketLockRow(c, d)
        PROVE  TypeOK'
    BY <1>9, LockRowTyped DEF TypeOK, BasketLockRow, tables
  <1>10. ASSUME NEW c \in Client, BasketStockOk(c)
         PROVE  TypeOK'
    <2>1. FifoRows(c) \in SUBSET Lot
      BY DEF FifoRows
    <2> QED
      BY <1>10, <2>1 DEF TypeOK, BasketStockOk, PC, tables
  <1>11. ASSUME NEW c \in Client, BasketFifoLock(c)
         PROVE  TypeOK'
    <2>1. PICK d \in todo[c] :
            LockRow(c, d) /\ todo' = [todo EXCEPT ![c] = @ \ {d}]
      BY <1>11 DEF BasketFifoLock
    <2>2. d \in Lot
      BY <2>1 DEF TypeOK
    <2> QED
      BY <1>11, <2>1, <2>2, LockRowTyped DEF TypeOK, BasketFifoLock, tables
  <1>12. ASSUME NEW c \in Client, BasketFifoOk(c)
         PROVE  TypeOK'
    <2>1. Requested(c) \in SUBSET Lot
      BY DEF Requested
    <2> QED
      BY <1>12, <2>1 DEF TypeOK, BasketFifoOk, PC, tables
  <1>13. ASSUME NEW c \in Client, NEW d \in Lot, BasketWrite(c, d)
         PROVE  TypeOK'
    BY <1>13, WriteLineTyped DEF TypeOK, BasketWrite, PC
  <1>14. ASSUME NEW c \in Client, Commit(c)
         PROVE  TypeOK'
    <2>1. stock' \in [Lot -> Int] /\ orders' \subseteq Order
      BY <1>14 DEF TypeOK, Commit
    <2> QED
      BY <1>14, <2>1, EndTyped DEF TypeOK, Commit
  <1>15. ASSUME NEW c \in Client, StornoLock(c)
         PROVE  TypeOK'
    BY <1>15 DEF TypeOK, StornoLock, PC, tables
  <1>16. ASSUME NEW c \in Client, StornoRead(c)
         PROVE  TypeOK'
    <2>1. PICK o \in orders :
            /\ req' = [req EXCEPT ![c][o.lot] = 1]
            /\ seen' = [seen EXCEPT ![c][o.lot] = stock[o.lot]]
      BY <1>16 DEF StornoRead
    <2>2. o.lot \in Lot
      BY OrderTyped
    <2> QED
      BY <1>16, <2>1, <2>2 DEF TypeOK, StornoRead, PC, tables
  <1>17. ASSUME NEW c \in Client, StornoWrite(c)
         PROVE  TypeOK'
    BY <1>17 DEF TypeOK, StornoWrite, PC, tables, Requested
  <1>18. ASSUME NEW c \in Client, StornoCommit(c)
         PROVE  TypeOK'
    <2>1. stock' \in [Lot -> Int] /\ orders' \subseteq Order
      BY <1>18 DEF TypeOK, StornoCommit, Requested
    <2> QED
      BY <1>18, <2>1, EndTyped DEF TypeOK, StornoCommit
  <1>19. CASE UNCHANGED vars
    BY <1>19 DEF TypeOK, vars
  <1> QED
    BY <1>1, <1>2, <1>3, <1>4, <1>5, <1>6, <1>7, <1>8, <1>9, <1>10, <1>11,
       <1>12, <1>13, <1>14, <1>15, <1>16, <1>17, <1>18, <1>19
    DEF Next, Step, Abort, DeadlockVictim, PurchaseOutOfStock,
        BasketOutOfStock, BasketRefused, StornoGone, StornoRefused

LEMMA InitTyped == Init => TypeOK
  BY DEF Init, TypeOK, None, PC

\* Every variable keeps its type, for any number of requests and deliveries.
THEOREM TypeCorrect == Spec => []TypeOK
  BY InitTyped, NextTyped, PTL DEF Spec

-----------------------------------------------------------------------------
(* The inductive invariant: what each transaction knows about the rows it  *)
(* has locked, statement by statement.                                     *)

\* A row lock has one holder.
RowLocks == \A c, x \in Client : c # x => held[c] \intersect held[x] = {}

\* Rows that are referred to have been inserted.
RowsExist ==
  /\ \A d \in Lot : stock[d] >= 0 /\ (stock[d] > 0 => Exists(d))
  /\ \A o \in orders : Exists(o.lot)

Before1st == {"idle", "purchaseLock", "stornoLock", "stornoRead", "stornoWrite"}
Stornoing == {"stornoRead", "stornoWrite", "stornoCommit"}

\* What the transaction of c relies on.
Own(c) ==
  /\ pc[c] \in Before1st => held[c] = {}
  /\ pc[c] \in {"idle", "stornoLock", "stornoRead"} => req[c] = None
  /\ \A d \in held[c] : Exists(d)
  /\ \A o \in made[c] : Exists(o.lot)
  /\ pc[c] \in Reading => \A d \in held[c] : seen[c][d] = stock[d]
  /\ pc[c] \in {"purchaseLock", "purchaseWrite"} => \E d \in Lot : Requested(c) = {d}
  /\ pc[c] = "purchaseWrite" =>
       /\ Requested(c) = held[c]
       /\ \A d \in held[c] : req[c][d] <= stock[d]
  /\ pc[c] \in {"basketLock", "basketFifo"} => \A d \in todo[c] : Exists(d)
  /\ pc[c] = "basketFifo" => Sufficient(c)
  /\ pc[c] = "basketWrite" => todo[c] \subseteq Requested(c)
  /\ pc[c] = "basketWrite" =>
       \A d \in Requested(c) :
         /\ d \in held[c]
         /\ d \in todo[c] => seen[c][d] = stock[d] /\ req[c][d] <= stock[d]
         /\ d \notin todo[c] => seen[c][d] = stock[d] - req[c][d] /\ seen[c][d] >= 0
  /\ pc[c] = "commit" =>
       \A d \in Requested(c) :
         d \in held[c] /\ seen[c][d] = stock[d] - req[c][d] /\ seen[c][d] >= 0
  /\ pc[c] \in {"stornoWrite", "stornoCommit"} =>
       \A d, e \in Requested(c) : d = e
  /\ pc[c] \in {"stornoWrite", "stornoCommit"} =>
       \A d \in Requested(c) : Exists(d) /\ seen[c][d] >= 0
  /\ pc[c] = "stornoCommit" => Requested(c) \subseteq held[c]

IInv == TypeOK /\ RowLocks /\ RowsExist /\ \A c \in Client : Own(c)

-----------------------------------------------------------------------------
\* Nothing that belongs to request x changes.
SameRequest(x) ==
  /\ pc'[x] = pc[x] /\ req'[x] = req[x] /\ held'[x] = held[x]
  /\ seen'[x] = seen[x] /\ todo'[x] = todo[x] /\ made'[x] = made[x]

\* A step of somebody else that leaves the rows x has locked alone leaves x
\* with everything it relies on.
LEMMA OwnStable ==
  ASSUME TypeOK, NEW x \in Client, Own(x), SameRequest(x),
         \A d \in held[x] : stock'[d] = stock[d],
         \A d \in Lot : Exists(d) => Exists(d)'
  PROVE  Own(x)'
  <1>1. Requested(x)' = Requested(x) /\ Requested(x) \subseteq Lot
    BY DEF SameRequest, Requested
  <1>2. held[x] \subseteq Lot
    BY DEF TypeOK
  <1>3. pc[x] = "basketWrite" =>
          \A d \in Requested(x) : d \in held[x] /\ stock'[d] = stock[d]
    BY DEF Own
  <1>4. pc[x] = "commit" =>
          \A d \in Requested(x) : d \in held[x] /\ stock'[d] = stock[d]
    BY DEF Own
  <1>5. Sufficient(x)' = Sufficient(x)
    BY <1>1 DEF Sufficient, SameRequest
  <1>6. pc[x] \in {"basketLock", "basketFifo"} => \A d \in todo[x] : Exists(d)'
    BY DEF Own, TypeOK
  <1>7. \A o \in made[x] : Exists(o.lot)'
    BY DEF Own, TypeOK, Order
  <1> QED
    BY <1>1, <1>2, <1>3, <1>4, <1>5, <1>6, <1>7 DEF Own, SameRequest, None

\* After a rollback or a commit the request relies on nothing.
LEMMA OwnEnded ==
  ASSUME TypeOK, NEW c \in Client, End(c)
  PROVE  Own(c)'
  BY DEF Own, End, Forget, TypeOK, Reading

\* The other requests are not touched by the end of the transaction of c.
LEMMA EndOthers ==
  ASSUME TypeOK, NEW c \in Client, End(c), NEW x \in Client, x # c
  PROVE  SameRequest(x)
  BY DEF End, Forget, SameRequest, TypeOK

LEMMA EndLocks ==
  ASSUME TypeOK, RowLocks, NEW c \in Client, End(c)
  PROVE  RowLocks'
  BY DEF End, Forget, RowLocks, TypeOK

LEMMA RollbackInv ==
  ASSUME IInv, NEW c \in Client, Rollback(c)
  PROVE  IInv'
  <1>1. TypeOK' /\ TypeOK
    BY RollbackTyped DEF IInv
  <1>2. End(c) /\ UNCHANGED tables
    BY DEF Rollback
  <1>3. RowLocks'
    BY <1>1, <1>2, EndLocks DEF IInv
  <1>4. RowsExist'
    BY <1>2 DEF IInv, RowsExist, tables, Exists
  <1>5. ASSUME NEW x \in Client PROVE Own(x)'
    <2>1. CASE x = c
      BY <1>1, <1>2, <2>1, OwnEnded
    <2>2. CASE x # c
      BY <1>1, <1>2, <2>2, EndOthers, OwnStable DEF IInv, tables, Exists
    <2> QED
      BY <2>1, <2>2
  <1> QED
    BY <1>1, <1>3, <1>4, <1>5 DEF IInv

\* Locking a free row keeps the locks exclusive.
LEMMA LockRowLocks ==
  ASSUME TypeOK, RowLocks, NEW c \in Client, NEW d \in Lot, RowFree(c, d),
         held' = [held EXCEPT ![c] = @ \union {d}]
  PROVE  RowLocks'
  BY DEF RowLocks, RowFree, TypeOK

\* A step of c that changes no table keeps the invariant when it keeps the
\* locks exclusive and gives c what c relies on next.
LEMMA PrivateStep ==
  ASSUME IInv, NEW c \in Client, TypeOK', RowLocks', Own(c)',
         UNCHANGED <<supplied, stock, orders>>,
         \A x \in Client \ {c} : SameRequest(x)
  PROVE  IInv'
  <1>1. RowsExist'
    BY DEF IInv, RowsExist, Exists
  <1>2. ASSUME NEW x \in Client PROVE Own(x)'
    BY OwnStable DEF IInv, Exists
  <1> QED
    BY <1>1, <1>2 DEF IInv

LEMMA AddStockInv ==
  ASSUME IInv, NEW d \in Lot, NEW n \in 1 .. MaxSupply, AddStock(d, n), TypeOK'
  PROVE  IInv'
  <1>1. TypeOK /\ ~Exists(d)
    BY DEF IInv, AddStock
  <1>2. RowLocks'
    BY DEF IInv, RowLocks, AddStock
  <1>3. /\ \A e \in Lot : Exists(e) => Exists(e)'
        /\ \A e \in Lot : Exists(e) => stock'[e] = stock[e]
    BY <1>1 DEF AddStock, Exists, TypeOK
  <1>4. RowsExist'
    <2>1. \A o \in orders : o.lot \in Lot
      BY <1>1, OrderTyped
    <2>2. \A e \in Lot : stock'[e] >= 0 /\ (stock'[e] > 0 => Exists(e)')
      BY <1>1, StockAssumption DEF IInv, RowsExist, AddStock, Exists, TypeOK
    <2> QED
      BY <1>3, <2>1, <2>2 DEF IInv, RowsExist, AddStock
  <1>5. ASSUME NEW x \in Client PROVE Own(x)'
    <2>1. SameRequest(x)
      BY DEF AddStock, SameRequest
    <2>2. \A e \in held[x] : stock'[e] = stock[e]
      BY <1>1, <1>3 DEF IInv, Own, TypeOK
    <2> QED
      BY <1>1, <1>3, <2>1, <2>2, OwnStable DEF IInv
  <1> QED
    BY <1>2, <1>4, <1>5 DEF IInv

\* A request that begins relies on what it asks for only.
LEMMA BeginInv ==
  ASSUME IInv, NEW c \in Client, TypeOK',
         \/ \E d \in Lot : PurchaseBegin(c, d)
         \/ \E r \in Baskets : BasketBegin(c, r)
         \/ \E i \in Ids(orders) : StornoBegin(c, i)
  PROVE  IInv'
  <1>1. TypeOK /\ Own(c) /\ pc[c] = "idle" /\ held[c] = {} /\ req[c] = None
    BY DEF IInv, Own, PurchaseBegin, BasketBegin, StornoBegin, Begin, Before1st
  <1>2. UNCHANGED <<supplied, stock, orders, held, seen, made>>
    BY DEF PurchaseBegin, BasketBegin, StornoBegin, tables
  <1>6. \A o \in made'[c] : Exists(o.lot)'
    BY <1>1, <1>2 DEF Own, Exists
  <1>3. RowLocks'
    BY <1>2 DEF IInv, RowLocks
  <1>4. \A x \in Client \ {c} : SameRequest(x)
    BY <1>1 DEF PurchaseBegin, BasketBegin, StornoBegin, Begin, SameRequest, TypeOK
  <1>5. Own(c)'
    <2>1. CASE \E d \in Lot : PurchaseBegin(c, d)
      <3>1. PICK d \in Lot : PurchaseBegin(c, d)
        BY <2>1
      <3>2. pc'[c] = "purchaseLock" /\ req'[c] = [None EXCEPT ![d] = 1] /\ held'[c] = {}
        BY <1>1, <3>1 DEF PurchaseBegin, Begin, TypeOK
      <3>3. Requested(c)' = {d}
        BY <3>2 DEF Requested, None
      <3> QED
        BY <1>6, <3>2, <3>3 DEF Own, Reading, None
    <2>2. CASE \E r \in Baskets : BasketBegin(c, r)
      <3>1. pc'[c] = "basketLock" /\ held'[c] = {}
        BY <1>1, <2>2 DEF BasketBegin, Begin, TypeOK
      <3>2. \A d \in todo'[c] : Exists(d)'
        BY <1>1, <1>2, <2>2 DEF BasketBegin, TypeOK, Exists
      <3> QED
        BY <1>6, <3>1, <3>2 DEF Own, Reading, Before1st
    <2>3. CASE \E i \in Ids(orders) : StornoBegin(c, i)
      <3>1. pc'[c] = "stornoLock" /\ held'[c] = {} /\ req'[c] = None
        BY <1>1, <2>3 DEF StornoBegin, Begin, TypeOK
      <3> QED
        BY <1>6, <3>1 DEF Own, Reading, Before1st
    <2> QED
      BY <2>1, <2>2, <2>3
  <1> QED
    BY <1>2, <1>3, <1>4, <1>5, PrivateStep

LEMMA PurchaseLockInv ==
  ASSUME IInv, NEW c \in Client, PurchaseLock(c), TypeOK'
  PROVE  IInv'
  <1>1. PICK d \in Lot : req[c][d] = 1 /\ stock[d] > 0 /\ RowFree(c, d) /\ LockRow(c, d)
    BY DEF PurchaseLock, InStock
  <1>2. TypeOK /\ Own(c) /\ pc[c] = "purchaseLock" /\ held[c] = {}
    BY DEF IInv, Own, PurchaseLock, Before1st
  <1>3. /\ UNCHANGED <<supplied, stock, orders, req, todo, made>>
        /\ pc' = [pc EXCEPT ![c] = "purchaseWrite"]
    BY DEF PurchaseLock, tables
  <1>4. RowLocks'
    BY <1>1, <1>2, LockRowLocks DEF IInv, LockRow
  <1>5. \A x \in Client \ {c} : SameRequest(x)
    BY <1>1, <1>2, <1>3 DEF LockRow, SameRequest, TypeOK
  <1>6. /\ pc'[c] = "purchaseWrite" /\ held'[c] = {d} /\ req'[c] = req[c]
        /\ stock' = stock /\ Exists(d)'
    BY <1>1, <1>2, <1>3 DEF LockRow, TypeOK, IInv, RowsExist, Exists
  <1>7. Requested(c)' = {d}
    <2>1. d \in Requested(c)
      BY <1>1, <1>2 DEF Requested
    <2> QED
      BY <1>2, <1>6, <2>1 DEF Own, Requested
  <1>8. Own(c)'
    <2>1. seen'[c][d] = stock'[d] /\ req'[c][d] <= stock'[d]
      BY <1>1, <1>2, <1>6 DEF LockRow, TypeOK
    <2> QED
      BY <1>2, <1>3, <1>6, <1>7, <2>1 DEF Own, Before1st, Reading, Exists
  <1> QED
    BY <1>3, <1>4, <1>5, <1>8, PrivateStep

\* Writing a line changes nothing but the private copy of one row.
LEMMA WriteLineSeen ==
  ASSUME TypeOK, NEW c \in Client, NEW d \in Lot, WriteLine(c, d)
  PROVE  /\ seen'[c][d] = seen[c][d] - req[c][d]
         /\ \A e \in Lot \ {d} : seen'[c][e] = seen[c][e]
         /\ \A x \in Client \ {c} : seen'[x] = seen[x]
         /\ UNCHANGED <<supplied, stock, orders>>
  BY DEF TypeOK, WriteLine, NewRow, Decremented

\* The rows a line inserts belong to the delivery of the line.
LEMMA WriteLineMade ==
  ASSUME TypeOK, NEW c \in Client, NEW d \in Lot, WriteLine(c, d)
  PROVE  /\ \A o \in made'[c] : o \in made[c] \/ o.lot = d
         /\ \A x \in Client \ {c} : made'[x] = made[x]
  BY DEF TypeOK, WriteLine, NewRow

LEMMA PurchaseWriteInv ==
  ASSUME IInv, NEW c \in Client, PurchaseWrite(c), TypeOK'
  PROVE  IInv'
  <1>1. PICK d \in held[c] : WriteLine(c, d)
    BY DEF PurchaseWrite
  <1>2. TypeOK /\ Own(c) /\ pc[c] = "purchaseWrite" /\ d \in Lot
    BY <1>1 DEF IInv, PurchaseWrite, TypeOK
  <1>3. UNCHANGED <<held, req, todo>> /\ pc' = [pc EXCEPT ![c] = "commit"]
    BY DEF PurchaseWrite
  <1>4. RowLocks'
    BY <1>3 DEF IInv, RowLocks
  <1>5. \A x \in Client \ {c} : SameRequest(x)
    BY <1>1, <1>2, <1>3, WriteLineSeen, WriteLineMade DEF SameRequest, TypeOK
  <1>6. pc'[c] = "commit" /\ UNCHANGED <<supplied, stock, orders>>
    BY <1>1, <1>2, <1>3, WriteLineSeen DEF TypeOK
  <1>7. Requested(c) = {d}
    BY <1>1, <1>2 DEF Own
  <1>8. seen[c][d] = stock[d] /\ req[c][d] <= stock[d]
    BY <1>1, <1>2 DEF Own, Reading
  <1>9. Own(c)'
    <2>1. Requested(c)' = {d}
      BY <1>3, <1>7 DEF Requested
    <2>2. seen'[c][d] = stock[d] - req[c][d] /\ seen'[c][d] >= 0
      BY <1>1, <1>2, <1>8, WriteLineSeen DEF TypeOK
    <2>3. /\ \A e \in held[c] : Exists(e)
          /\ \A o \in made'[c] : Exists(o.lot)
      BY <1>1, <1>2, WriteLineMade DEF Own
    <2> QED
      BY <1>1, <1>3, <1>6, <2>1, <2>2, <2>3 DEF Own, Before1st, Reading, Exists
  <1> QED
    BY <1>4, <1>5, <1>6, <1>9, PrivateStep

\* A basket locks one more row, of its own list or of the FIFO query.
LEMMA BasketLocks ==
  ASSUME IInv, NEW c \in Client, NEW d \in Lot, TypeOK',
         pc[c] \in {"basketLock", "basketFifo"},
         d \in todo[c], Exists(d), RowFree(c, d), LockRow(c, d),
         todo' = [todo EXCEPT ![c] = @ \ {d}],
         UNCHANGED <<tables, begun, pc, req, fifo, made, victim>>
  PROVE  IInv'
  <1>1. TypeOK /\ Own(c) /\ UNCHANGED <<supplied, stock, orders>>
    BY DEF IInv, tables
  <1>2. RowLocks'
    BY <1>1, LockRowLocks DEF IInv, LockRow
  <1>3. \A x \in Client \ {c} : SameRequest(x)
    BY <1>1 DEF LockRow, SameRequest, TypeOK
  <1>4. \A e \in held'[c] : seen'[c][e] = stock'[e] /\ Exists(e)'
    BY <1>1 DEF Own, Reading, LockRow, TypeOK, Exists
  <1>5. ASSUME pc[c] = "basketFifo"
        PROVE  Sufficient(c)'
    <2>1. Requested(c)' = Requested(c) /\ Requested(c) \subseteq Lot
      BY DEF Requested
    <2>2. ASSUME NEW e \in Requested(c)
          PROVE  e \in held'[c] /\ seen'[c][e] >= req[c][e]
      <3>1. e \in held[c] /\ seen[c][e] >= req[c][e] /\ seen[c][e] = stock[e]
        BY <1>1, <1>5 DEF Own, Reading, Sufficient
      <3> QED
        BY <1>1, <2>1, <3>1 DEF LockRow, TypeOK
    <2> QED
      BY <2>1, <2>2 DEF Sufficient
  <1>6. todo'[c] \subseteq todo[c]
    BY <1>1 DEF TypeOK
  <1>7. Own(c)'
    BY <1>1, <1>4, <1>5, <1>6 DEF Own, Before1st, Reading, Exists
  <1> QED
    BY <1>1, <1>2, <1>3, <1>7, PrivateStep

LEMMA BasketLockRowInv ==
  ASSUME IInv, NEW c \in Client, NEW d \in Lot, BasketLockRow(c, d), TypeOK'
  PROVE  IInv'
  <1>1. Exists(d)
    BY DEF IInv, Own, BasketLockRow
  <1> QED
    BY <1>1, BasketLocks DEF BasketLockRow

LEMMA BasketFifoLockInv ==
  ASSUME IInv, NEW c \in Client, BasketFifoLock(c), TypeOK'
  PROVE  IInv'
  <1>1. PICK d \in todo[c] :
          RowFree(c, d) /\ LockRow(c, d) /\ todo' = [todo EXCEPT ![c] = @ \ {d}]
    BY DEF BasketFifoLock
  <1>2. d \in Lot /\ Exists(d) /\ pc[c] = "basketFifo"
    BY DEF IInv, TypeOK, Own, BasketFifoLock
  <1> QED
    BY <1>1, <1>2, BasketLocks DEF BasketFifoLock

\* The statements that only look at what has been read.
LEMMA BasketStockOkInv ==
  ASSUME IInv, NEW c \in Client, BasketStockOk(c), TypeOK'
  PROVE  IInv'
  <1>1. TypeOK /\ Own(c) /\ Sufficient(c) /\ pc[c] = "basketLock"
    BY DEF IInv, BasketStockOk
  <1>2. /\ UNCHANGED <<supplied, stock, orders, held, seen, req, made>>
        /\ pc' = [pc EXCEPT ![c] = "basketFifo"]
        /\ todo' = [todo EXCEPT ![c] = FifoRows(c)]
    BY DEF BasketStockOk, tables
  <1>3. RowLocks' /\ \A x \in Client \ {c} : SameRequest(x)
    BY <1>1, <1>2 DEF IInv, RowLocks, SameRequest, TypeOK
  <1>4. pc'[c] = "basketFifo" /\ todo'[c] = FifoRows(c)
    BY <1>1, <1>2 DEF TypeOK
  <1>5. \A d \in FifoRows(c) : Exists(d)
    BY DEF FifoRows, IInv, RowsExist
  <1>6. Sufficient(c)'
    BY <1>1, <1>2 DEF Sufficient, Requested
  <1>7. Own(c)'
    BY <1>1, <1>2, <1>4, <1>5, <1>6 DEF Own, Before1st, Reading, Exists
  <1> QED
    BY <1>2, <1>3, <1>7, PrivateStep

LEMMA BasketFifoOkInv ==
  ASSUME IInv, NEW c \in Client, BasketFifoOk(c), TypeOK'
  PROVE  IInv'
  <1>1. TypeOK /\ Own(c) /\ Sufficient(c) /\ pc[c] = "basketFifo"
    BY DEF IInv, Own, BasketFifoOk
  <1>2. /\ UNCHANGED <<supplied, stock, orders, held, seen, req, made>>
        /\ pc' = [pc EXCEPT ![c] = "basketWrite"]
        /\ todo' = [todo EXCEPT ![c] = Requested(c)]
    BY DEF BasketFifoOk, tables
  <1>3. RowLocks' /\ \A x \in Client \ {c} : SameRequest(x)
    BY <1>1, <1>2 DEF IInv, RowLocks, SameRequest, TypeOK
  <1>4. pc'[c] = "basketWrite" /\ todo'[c] = Requested(c) /\ Requested(c)' = Requested(c)
    BY <1>1, <1>2 DEF TypeOK, Requested
  <1>5. \A d \in Requested(c) :
          d \in held[c] /\ seen[c][d] = stock[d] /\ req[c][d] <= stock[d]
    BY <1>1 DEF Own, Reading, Sufficient
  <1>6. Own(c)'
    BY <1>1, <1>2, <1>4, <1>5 DEF Own, Before1st, Reading, Exists
  <1> QED
    BY <1>2, <1>3, <1>6, PrivateStep

LEMMA BasketWriteInv ==
  ASSUME IInv, NEW c \in Client, NEW d \in Lot, BasketWrite(c, d), TypeOK'
  PROVE  IInv'
  <1>1. /\ TypeOK /\ Own(c) /\ pc[c] = "basketWrite" /\ d \in todo[c]
        /\ WriteLine(c, d)
    BY DEF IInv, BasketWrite
  <1>2. UNCHANGED <<supplied, stock, orders, held, req>>
    BY <1>1, WriteLineSeen DEF BasketWrite
  <1>3. /\ todo'[c] = todo[c] \ {d}
        /\ pc'[c] = IF todo[c] = {d} THEN "commit" ELSE "basketWrite"
    BY <1>1 DEF BasketWrite, TypeOK
  <1>4. RowLocks' /\ \A x \in Client \ {c} : SameRequest(x)
    BY <1>1, <1>2, WriteLineSeen, WriteLineMade
    DEF IInv, RowLocks, SameRequest, TypeOK, BasketWrite
  <1>5. Requested(c)' = Requested(c) /\ Requested(c) \subseteq Lot
    BY <1>2 DEF Requested
  <1>6. \A e \in Requested(c) :
          /\ e \in held[c]
          /\ e \in todo'[c] => seen'[c][e] = stock[e] /\ req[c][e] <= stock[e]
          /\ e \notin todo'[c] =>
               seen'[c][e] = stock[e] - req[c][e] /\ seen'[c][e] >= 0
    <2> SUFFICES ASSUME NEW e \in Requested(c)
                 PROVE  /\ e \in held[c]
                        /\ e \in todo'[c] => seen'[c][e] = stock[e] /\ req[c][e] <= stock[e]
                        /\ e \notin todo'[c] =>
                             seen'[c][e] = stock[e] - req[c][e] /\ seen'[c][e] >= 0
      OBVIOUS
    <2>1. /\ e \in held[c]
          /\ e \in todo[c] => seen[c][e] = stock[e] /\ req[c][e] <= stock[e]
          /\ e \notin todo[c] => seen[c][e] = stock[e] - req[c][e] /\ seen[c][e] >= 0
      BY <1>1 DEF Own
    <2>2. CASE e = d
      BY <1>1, <1>3, <2>1, <2>2, WriteLineSeen DEF TypeOK
    <2>3. CASE e # d
      BY <1>1, <1>3, <1>5, <2>1, <2>3, WriteLineSeen
    <2> QED
      BY <2>2, <2>3
  <1>7. (\A e \in held[c] : Exists(e)) /\ Exists(d)
    <2>1. d \in held[c] \/ d \notin Requested(c)
      BY <1>6
    <2> QED
      BY <1>1, <2>1 DEF Own
  <1>8. \A o \in made'[c] : Exists(o.lot)
    BY <1>1, <1>7, WriteLineMade DEF Own
  <1>9. todo'[c] \subseteq Requested(c) /\ (todo[c] = {d} => todo'[c] = {})
    BY <1>1, <1>3 DEF Own
  <1>10. Own(c)'
    BY <1>2, <1>3, <1>5, <1>6, <1>7, <1>8, <1>9 DEF Own, Before1st, Reading, Exists
  <1> QED
    BY <1>2, <1>4, <1>10, PrivateStep

\* A transaction that commits writes rows it has locked, and nobody else
\* relies on those.
LEMMA CommitOthers ==
  ASSUME IInv, NEW c \in Client, End(c), UNCHANGED supplied,
         \A d \in Lot : stock'[d] # stock[d] => d \in held[c],
         NEW x \in Client
  PROVE  Own(x)'
  <1>1. TypeOK
    BY DEF IInv
  <1>2. CASE x = c
    BY <1>1, <1>2, OwnEnded
  <1>3. CASE x # c
    <2>1. \A d \in held[x] : stock'[d] = stock[d]
      BY <1>1, <1>3 DEF IInv, RowLocks, TypeOK
    <2> QED
      BY <1>1, <1>3, <2>1, EndOthers, OwnStable DEF IInv, Exists
  <1> QED
    BY <1>2, <1>3

LEMMA CommitInv ==
  ASSUME IInv, NEW c \in Client, Commit(c), TypeOK'
  PROVE  IInv'
  <1>1. /\ TypeOK /\ Own(c) /\ pc[c] = "commit" /\ End(c) /\ UNCHANGED supplied
        /\ orders' = orders \union made[c]
        /\ stock' = [d \in Lot |-> IF d \in Requested(c) THEN seen[c][d] ELSE stock[d]]
    BY DEF IInv, Commit
  <1>2. \A d \in Requested(c) : d \in held[c] /\ d \in Lot /\ Exists(d) /\ seen[c][d] >= 0
    BY <1>1 DEF Own, Requested
  <1>3. RowLocks'
    BY <1>1, EndLocks DEF IInv
  <1>4. RowsExist'
    <2>1. \A d \in Lot : stock'[d] >= 0 /\ (stock'[d] > 0 => Exists(d))
      BY <1>1, <1>2 DEF IInv, RowsExist, TypeOK
    <2>2. \A o \in orders' : Exists(o.lot)
      BY <1>1 DEF IInv, RowsExist, Own
    <2> QED
      BY <1>1, <2>1, <2>2 DEF RowsExist, Exists
  <1>5. \A d \in Lot : stock'[d] # stock[d] => d \in held[c]
    BY <1>1, <1>2 DEF TypeOK
  <1>6. \A x \in Client : Own(x)'
    BY <1>1, <1>5, CommitOthers
  <1> QED
    BY <1>3, <1>4, <1>6 DEF IInv

LEMMA StornoLockInv ==
  ASSUME IInv, NEW c \in Client, StornoLock(c), TypeOK'
  PROVE  IInv'
  <1>1. TypeOK /\ Own(c) /\ pc[c] = "stornoLock"
    BY DEF IInv, StornoLock
  <1>2. /\ UNCHANGED <<supplied, stock, orders, held, seen, req, todo, made>>
        /\ pc' = [pc EXCEPT ![c] = "stornoRead"]
    BY DEF StornoLock, tables
  <1>3. RowLocks' /\ \A x \in Client \ {c} : SameRequest(x)
    BY <1>1, <1>2 DEF IInv, RowLocks, SameRequest, TypeOK
  <1>4. Own(c)'
    BY <1>1, <1>2 DEF Own, Before1st, Reading, Exists, TypeOK, None
  <1> QED
    BY <1>2, <1>3, <1>4, PrivateStep

LEMMA StornoReadInv ==
  ASSUME IInv, NEW c \in Client, StornoRead(c), TypeOK'
  PROVE  IInv'
  <1>1. TypeOK /\ Own(c) /\ pc[c] = "stornoRead"
    BY DEF IInv, StornoRead
  <1>2. PICK o \in orders :
          /\ req' = [req EXCEPT ![c][o.lot] = 1]
          /\ seen' = [seen EXCEPT ![c][o.lot] = stock[o.lot]]
    BY DEF StornoRead
  <1>3. o.lot \in Lot /\ Exists(o.lot) /\ stock[o.lot] >= 0
    BY <1>1, OrderTyped DEF IInv, RowsExist
  <1>4. /\ UNCHANGED <<supplied, stock, orders, held, todo, made>>
        /\ pc' = [pc EXCEPT ![c] = "stornoWrite"]
    BY DEF StornoRead, tables
  <1>5. RowLocks' /\ \A x \in Client \ {c} : SameRequest(x)
    BY <1>1, <1>2, <1>4 DEF IInv, RowLocks, SameRequest, TypeOK
  <1>6. Requested(c)' = {o.lot}
    <2>1. req[c] = None
      BY <1>1 DEF Own
    <2> QED
      BY <1>1, <1>2, <1>3, <2>1 DEF Requested, None, TypeOK
  <1>7. seen'[c][o.lot] >= 0 /\ pc'[c] = "stornoWrite"
    BY <1>1, <1>2, <1>3, <1>4 DEF TypeOK
  <1>8. Own(c)'
    BY <1>1, <1>3, <1>4, <1>6, <1>7 DEF Own, Before1st, Reading, Exists
  <1> QED
    BY <1>4, <1>5, <1>8, PrivateStep

LEMMA StornoWriteInv ==
  ASSUME IInv, NEW c \in Client, StornoWrite(c), TypeOK'
  PROVE  IInv'
  <1>1. TypeOK /\ Own(c) /\ pc[c] = "stornoWrite" /\ held[c] = {}
    BY DEF IInv, StornoWrite, Own, Before1st
  <1>2. PICK d \in Requested(c) :
          /\ RowFree(c, d)
          /\ held' = [held EXCEPT ![c] = @ \union {d}]
          /\ seen' = [seen EXCEPT ![c][d] = @ + 1]
    BY DEF StornoWrite
  <1>3. d \in Lot /\ Exists(d) /\ seen[c][d] >= 0
    BY <1>1 DEF Requested, Own
  <1>4. /\ UNCHANGED <<supplied, stock, orders, req, todo, made>>
        /\ pc' = [pc EXCEPT ![c] = "stornoCommit"]
    BY DEF StornoWrite, tables
  <1>5. RowLocks'
    BY <1>1, <1>2, <1>3, LockRowLocks DEF IInv
  <1>6. \A x \in Client \ {c} : SameRequest(x)
    BY <1>1, <1>2, <1>4 DEF SameRequest, TypeOK
  <1>7. Requested(c)' = Requested(c) /\ Requested(c) = {d}
    BY <1>1, <1>2, <1>4 DEF Requested, Own
  <1>8. held'[c] = {d} /\ seen'[c][d] >= 0 /\ pc'[c] = "stornoCommit"
    BY <1>1, <1>2, <1>3, <1>4 DEF TypeOK
  <1>9. Own(c)'
    BY <1>1, <1>3, <1>4, <1>7, <1>8 DEF Own, Before1st, Reading, Exists
  <1> QED
    BY <1>4, <1>5, <1>6, <1>9, PrivateStep

LEMMA StornoCommitInv ==
  ASSUME IInv, NEW c \in Client, StornoCommit(c), TypeOK'
  PROVE  IInv'
  <1>1. TypeOK /\ Own(c) /\ pc[c] = "stornoCommit" /\ End(c) /\ UNCHANGED supplied
    BY DEF IInv, StornoCommit
  <1>2. PICK d \in Requested(c) : stock' = [stock EXCEPT ![d] = seen[c][d]]
    BY DEF StornoCommit
  <1>3. d \in Lot /\ d \in held[c] /\ Exists(d) /\ seen[c][d] >= 0
    BY <1>1 DEF Own, Requested
  <1>4. RowLocks'
    BY <1>1, EndLocks DEF IInv
  <1>5. RowsExist'
    BY <1>1, <1>2, <1>3 DEF IInv, RowsExist, TypeOK, Exists, StornoCommit
  <1>6. \A e \in Lot : stock'[e] # stock[e] => e \in held[c]
    BY <1>1, <1>2, <1>3 DEF TypeOK
  <1>7. \A x \in Client : Own(x)'
    BY <1>1, <1>6, CommitOthers
  <1> QED
    BY <1>4, <1>5, <1>7 DEF IInv

\* The steps that touch nothing a transaction relies on.
LEMMA FrameInv ==
  ASSUME IInv, TypeOK',
         UNCHANGED <<supplied, stock, orders, pc, req, held, seen, todo, made>>
  PROVE  IInv'
  <1>1. \A x \in Client : SameRequest(x)
    BY DEF SameRequest
  <1> QED
    BY <1>1, OwnStable DEF IInv, RowLocks, RowsExist, Exists

LEMMA InitInv == Init => IInv
  <1> SUFFICES ASSUME Init PROVE IInv
    OBVIOUS
  <1>1. TypeOK
    BY InitTyped
  <1>2. RowLocks /\ RowsExist
    BY DEF Init, RowLocks, RowsExist, None
  <1>3. \A c \in Client : Own(c)
    BY DEF Init, Own, Reading, None
  <1> QED
    BY <1>1, <1>2, <1>3 DEF IInv

LEMMA NextInv == IInv /\ [Next]_vars => IInv'
  <1> SUFFICES ASSUME IInv, [Next]_vars PROVE IInv'
    OBVIOUS
  <1>0. TypeOK'
    BY NextTyped DEF IInv
  <1>1. ASSUME NEW d \in Lot, NEW n \in 1 .. MaxSupply, AddStock(d, n)
        PROVE  IInv'
    BY <1>0, <1>1, AddStockInv
  <1>2. ASSUME NEW S \in SUBSET Ids(orders), InvoiceOrders(S)
        PROVE  IInv'
    BY <1>0, <1>2, FrameInv DEF InvoiceOrders
  <1>3. ASSUME NEW c \in Client,
               \/ \E d \in Lot : PurchaseBegin(c, d)
               \/ \E r \in Baskets : BasketBegin(c, r)
               \/ \E i \in Ids(orders) : StornoBegin(c, i)
        PROVE  IInv'
    BY <1>0, <1>3, BeginInv
  <1>4. ASSUME NEW c \in Client, Step(c)
        PROVE  IInv'
    BY <1>0, <1>4, RollbackInv, PurchaseLockInv, PurchaseWriteInv,
       BasketLockRowInv, BasketStockOkInv, BasketFifoLockInv, BasketFifoOkInv,
       BasketWriteInv, CommitInv, StornoLockInv, StornoReadInv, StornoWriteInv,
       StornoCommitInv
    DEF Step, PurchaseOutOfStock, BasketOutOfStock, BasketRefused, StornoGone,
        StornoRefused
  <1>5. ASSUME NEW c \in Client, Rollback(c)
        PROVE  IInv'
    BY <1>5, RollbackInv
  <1>6. CASE UNCHANGED vars
    BY <1>0, <1>6, FrameInv DEF vars
  <1> QED
    BY <1>1, <1>2, <1>3, <1>4, <1>5, <1>6 DEF Next, Abort, DeadlockVictim

LEMMA Inductive == Spec => []IInv
  BY InitInv, NextInv, PTL DEF Spec

-----------------------------------------------------------------------------
(* What follows from it. *)

\* No delivery is ever sold below zero, stornos with stale reads included.
THEOREM NeverOversold == Spec => []NoOversell
  <1>1. IInv => NoOversell
    BY DEF IInv, RowsExist, NoOversell
  <1> QED
    BY <1>1, Inductive, PTL

\* What purchase and purchaseBasket read under their row locks stays true
\* until they write.
THEOREM LockedReadsHold == Spec => []LockedReadIsCurrent
  <1>1. IInv => LockedReadIsCurrent
    BY DEF IInv, Own, LockedReadIsCurrent
  <1> QED
    BY <1>1, Inductive, PTL

-----------------------------------------------------------------------------
(* Folds over finite sets, of which the FIFO check is made: induction over *)
(* subsets, and the function behind MapThenFoldSet.                        *)

LEMMA LeastOf ==
  ASSUME NEW N \in SUBSET Nat, N # {}
  PROVE  \E n \in N : \A m \in N : n <= m
  <1>1. \E n \in N : \A m \in N : ~(<<m, n>> \in OpToRel(<, Nat))
    BY NatLessThanWellFounded, WFMin, Zenon
  <1>2. PICK n \in N : \A m \in N : ~(<<m, n>> \in OpToRel(<, Nat))
    BY <1>1
  <1>3. ASSUME NEW m \in N PROVE n <= m
    <2>1. n \in Nat /\ m \in Nat
      OBVIOUS
    <2>2. ~(m < n)
      BY <1>2, <2>1 DEF OpToRel
    <2> QED
      BY <2>1, <2>2
  <1> QED
    BY <1>3

\* Subsets are good when each is that has only good ones below it.
LEMMA SubsetInduction ==
  ASSUME NEW S, IsFiniteSet(S), NEW Good,
         \A s \in SUBSET S : (\A t \in SUBSET s : t # s => t \in Good) => s \in Good
  PROVE  \A s \in SUBSET S : s \in Good
  <1> SUFFICES ASSUME \E s \in SUBSET S : s \notin Good PROVE FALSE
    OBVIOUS
  <1> DEFINE Sizes == {Cardinality(s) : s \in {t \in SUBSET S : t \notin Good}}
  <1>1. \A s \in SUBSET S : IsFiniteSet(s) /\ Cardinality(s) \in Nat
    BY FS_Subset, FS_CardinalityType
  <1>2. Sizes \in SUBSET Nat /\ Sizes # {}
    BY <1>1
  <1>3. PICK n \in Sizes : \A m \in Sizes : n <= m
    BY <1>2, LeastOf
  <1>4. PICK s \in SUBSET S : s \notin Good /\ n = Cardinality(s)
    BY <1>3
  <1>5. ASSUME NEW t \in SUBSET s, t # s PROVE t \in Good
    <2>1. t \in SUBSET S /\ Cardinality(t) < Cardinality(s)
      BY <1>1, <1>4, <1>5, FS_Subset
    <2>2. Cardinality(t) \in Nat /\ n \in Nat
      BY <1>1, <1>4, <2>1
    <2> QED
      BY <1>3, <1>4, <2>1, <2>2
  <1> QED
    BY <1>4, <1>5

\* The recursive function of MapThenFoldSet, with its operators as functions.
Folds(fold, S, base, pick, combine) ==
  fold = [s \in SUBSET S |-> IF s = {} THEN base
                             ELSE combine[pick[s]][fold[s \ {pick[s]}]]]
\* One of the elements is picked each time, and values are combined to values.
Foldable(S, V, base, pick, combine) ==
  /\ IsFiniteSet(S) /\ base \in V /\ combine \in [S -> [V -> V]]
  /\ \A s \in SUBSET S : s # {} => pick[s] \in s

LEMMA FoldTyped ==
  ASSUME NEW S, NEW V, NEW base, NEW pick, NEW combine, Foldable(S, V, base, pick, combine),
         NEW fold, Folds(fold, S, base, pick, combine)
  PROVE  fold \in [SUBSET S -> V]
  <1> DEFINE Good == {s \in SUBSET S : fold[s] \in V}
  <1>1. ASSUME NEW s \in SUBSET S, \A t \in SUBSET s : t # s => t \in Good
        PROVE  s \in Good
    <2>1. CASE s = {}
      BY <2>1 DEF Folds, Foldable
    <2>2. CASE s # {}
      <3>1. pick[s] \in s /\ pick[s] \in S
        BY <2>2 DEF Foldable
      <3>2. fold[s \ {pick[s]}] \in V
        BY <1>1, <3>1
      <3>3. combine[pick[s]][fold[s \ {pick[s]}]] \in V
        BY <3>1, <3>2 DEF Foldable
      <3> QED
        BY <2>2, <3>3 DEF Folds
    <2> QED
      BY <2>1, <2>2
  <1>2. IsFiniteSet(S)
    BY DEF Foldable
  <1> HIDE DEF Good
  <1>3. \A s \in SUBSET S : s \in Good
    BY <1>1, <1>2, SubsetInduction
  <1>4. \A s \in SUBSET S : fold[s] \in V
    BY <1>3 DEF Good
  <1>5. fold = [s \in SUBSET S |-> fold[s]]
    BY DEF Folds
  <1> QED
    BY <1>4, <1>5

\* There is such a function: it is found for sets of one size after the other.
LEMMA FoldExists ==
  ASSUME NEW S, NEW V, NEW base, NEW pick, NEW combine, Foldable(S, V, base, pick, combine)
  PROVE  \E fold : Folds(fold, S, base, pick, combine)
  <1> DEFINE Value(g, s) == IF s = {} THEN base ELSE combine[pick[s]][g[s \ {pick[s]}]]
             UpTo(n, g) == \A s \in SUBSET S : Cardinality(s) <= n => g[s] = Value(g, s)
             Found == {n \in Nat : \E g \in [SUBSET S -> V] : UpTo(n, g)}
  <1>1. /\ \A s \in SUBSET S : IsFiniteSet(s) /\ Cardinality(s) \in Nat
        /\ \A s \in SUBSET S : s # {} =>
             /\ pick[s] \in s /\ pick[s] \in S /\ s \ {pick[s]} \in SUBSET S
             /\ Cardinality(s \ {pick[s]}) = Cardinality(s) - 1
        /\ \A s \in SUBSET S : Cardinality(s) = 0 <=> s = {}
        /\ base \in V /\ combine \in [S -> [V -> V]] /\ IsFiniteSet(S)
    BY FS_Subset, FS_CardinalityType, FS_RemoveElement, FS_EmptySet DEF Foldable
  <1>2. 0 \in Found
    <2> DEFINE g == [s \in SUBSET S |-> base]
    <2>1. g \in [SUBSET S -> V]
      BY <1>1
    <2>2. ASSUME NEW s \in SUBSET S, Cardinality(s) <= 0 PROVE g[s] = Value(g, s)
      <3>1. s = {}
        BY <1>1, <2>2
      <3> QED
        BY <3>1
    <2>3. UpTo(0, g)
      BY <2>2
    <2> HIDE DEF g
    <2> QED
      BY <2>1, <2>3
  <1>3. ASSUME NEW n \in Nat, n \in Found PROVE n + 1 \in Found
    <2>1. PICK g \in [SUBSET S -> V] : UpTo(n, g)
      BY <1>3
    <2> DEFINE h == [s \in SUBSET S |-> IF Cardinality(s) = n + 1 THEN Value(g, s) ELSE g[s]]
    <2>2. h \in [SUBSET S -> V]
      <3>1. ASSUME NEW s \in SUBSET S PROVE Value(g, s) \in V
        <4>1. s # {} => pick[s] \in S /\ g[s \ {pick[s]}] \in V
          BY <1>1
        <4> QED
          BY <1>1, <4>1
      <3> QED
        BY <3>1
    <2>3. ASSUME NEW s \in SUBSET S, Cardinality(s) <= n + 1 PROVE h[s] = Value(h, s)
      <3>1. Value(h, s) = Value(g, s)
        <4>1. CASE s = {}
          BY <4>1
        <4>2. CASE s # {}
          <5> DEFINE t == s \ {pick[s]}
          <5>1. t \in SUBSET S /\ Cardinality(t) # n + 1
            BY <1>1, <2>3, <4>2
          <5>2. h[t] = g[t]
            BY <5>1
          <5> HIDE DEF h
          <5> QED
            BY <4>2, <5>2
        <4> QED
          BY <4>1, <4>2
      <3>2. CASE Cardinality(s) = n + 1
        BY <3>1, <3>2
      <3>3. CASE Cardinality(s) # n + 1
        <4>1. Cardinality(s) <= n
          BY <1>1, <2>3, <3>3
        <4> QED
          BY <2>1, <3>1, <3>3, <4>1
      <3> QED
        BY <3>2, <3>3
    <2> HIDE DEF h
    <2>4. UpTo(n + 1, h)
      BY <2>3
    <2>5. n + 1 \in Nat
      OBVIOUS
    <2> HIDE DEF UpTo
    <2> QED
      BY <2>2, <2>4, <2>5
  <1>4. Nat \subseteq Found
    <2> SUFFICES ASSUME Nat \ Found # {} PROVE FALSE
      OBVIOUS
    <2> HIDE DEF Found
    <2>1. PICK n \in Nat \ Found : \A m \in Nat \ Found : n <= m
      BY LeastOf
    <2>2. n - 1 \in Nat
      BY <1>2, <2>1
    <2>3. n - 1 \in Found
      BY <2>1, <2>2
    <2>4. (n - 1) + 1 = n
      BY <2>1
    <2> QED
      BY <1>3, <2>1, <2>2, <2>3, <2>4
  <1>5. PICK g \in [SUBSET S -> V] : UpTo(Cardinality(S), g)
    BY <1>1, <1>4
  <1>6. \A s \in SUBSET S : g[s] = Value(g, s)
    BY <1>1, <1>5, FS_Subset
  <1>7. g = [s \in SUBSET S |-> Value(g, s)]
    BY <1>6
  <1> QED
    BY <1>7 DEF Folds

-----------------------------------------------------------------------------
(* Sums.                                                                   *)

SumPick(S) == [s \in SUBSET S |-> CHOOSE x \in s : TRUE]
SumStep(S, f) == [x \in S |-> [n \in Nat |-> f[x] + n]]
\* sum[s] is the sum of f over the subset s of S.
Sums(sum, S, f) == Folds(sum, S, 0, SumPick(S), SumStep(S, f))

\* Whichever element is taken out of a sum first.
TakesOut(sum, S, f) ==
  /\ sum \in [SUBSET S -> Nat] /\ sum[{}] = 0
  /\ \A s \in SUBSET S : \A d \in s : sum[s] = f[d] + sum[s \ {d}]

LEMMA SumFoldable ==
  ASSUME NEW S, IsFiniteSet(S), NEW f \in [S -> Nat]
  PROVE  Foldable(S, Nat, 0, SumPick(S), SumStep(S, f))
  BY DEF Foldable, SumPick, SumStep

LEMMA SumTakesOut ==
  ASSUME NEW S, IsFiniteSet(S), NEW f \in [S -> Nat], NEW sum, Sums(sum, S, f)
  PROVE  TakesOut(sum, S, f)
  <1>1. sum \in [SUBSET S -> Nat]
    <2>1. Foldable(S, Nat, 0, SumPick(S), SumStep(S, f))
      BY SumFoldable
    <2>2. Folds(sum, S, 0, SumPick(S), SumStep(S, f))
      BY DEF Sums
    <2>3. \A pick, combine : Foldable(S, Nat, 0, pick, combine) /\ Folds(sum, S, 0, pick, combine)
                              => sum \in [SUBSET S -> Nat]
      BY FoldTyped, Zenon
    <2> QED
      BY <2>1, <2>2, <2>3, Zenon
  <1>2. sum[{}] = 0
    BY DEF Sums, Folds
  <1> DEFINE Good == {s \in SUBSET S : \A d \in s : sum[s] = f[d] + sum[s \ {d}]}
  <1>3. ASSUME NEW s \in SUBSET S, \A t \in SUBSET s : t # s => t \in Good
        PROVE  s \in Good
    <2> SUFFICES ASSUME NEW d \in s PROVE sum[s] = f[d] + sum[s \ {d}]
      OBVIOUS
    <2> DEFINE x == CHOOSE x \in s : TRUE
    <2>1. x \in s
      OBVIOUS
    <2>2. sum[s] = f[x] + sum[s \ {x}]
      <3>1. SumPick(S)[s] = x
        BY DEF SumPick
      <3>2. sum[s] = SumStep(S, f)[x][sum[s \ {x}]]
        BY <2>1, <3>1 DEF Sums, Folds
      <3>3. x \in S /\ sum[s \ {x}] \in Nat
        BY <1>1, <2>1
      <3> HIDE DEF x
      <3> QED
        BY <3>2, <3>3 DEF SumStep
    <2> HIDE DEF x
    <2>3. CASE d = x
      BY <2>2, <2>3
    <2>4. CASE d # x
      <3>1. s \ {x} \in Good /\ s \ {d} \in Good
        BY <1>3, <2>1
      <3>2. sum[s \ {x}] = f[d] + sum[(s \ {x}) \ {d}]
        BY <2>4, <3>1
      <3>3. sum[s \ {d}] = f[x] + sum[(s \ {d}) \ {x}]
        BY <2>1, <2>4, <3>1
      <3>4. (s \ {x}) \ {d} = (s \ {d}) \ {x}
        OBVIOUS
      <3>5. /\ f[x] \in Nat /\ f[d] \in Nat /\ sum[s] \in Nat /\ sum[s \ {x}] \in Nat
            /\ sum[s \ {d}] \in Nat /\ sum[(s \ {d}) \ {x}] \in Nat
        BY <1>1, <2>1
      <3> QED
        BY <2>2, <3>2, <3>3, <3>4, <3>5
    <2> QED
      BY <2>3, <2>4
  <1> HIDE DEF Good
  <1>4. \A s \in SUBSET S : s \in Good
    BY <1>3, SubsetInduction
  <1> QED
    BY <1>1, <1>2, <1>4 DEF Good, TakesOut

\* A sum over fewer elements is no larger, and as large when the others add
\* nothing.
LEMMA SumOfPart ==
  ASSUME NEW S, IsFiniteSet(S), NEW f \in [S -> Nat], NEW sum, Sums(sum, S, f)
  PROVE  \A s \in SUBSET S : /\ sum[s] <= sum[S]
                             /\ (\A d \in S \ s : f[d] = 0) => sum[s] = sum[S]
  <1>1. /\ sum \in [SUBSET S -> Nat]
        /\ \A s \in SUBSET S : \A d \in s : sum[s] = f[d] + sum[s \ {d}]
    <2>1. TakesOut(sum, S, f)
      BY SumTakesOut, Zenon
    <2> QED
      BY <2>1 DEF TakesOut
  <1> DEFINE Part(s) == /\ sum[s] <= sum[S]
                        /\ (\A d \in S \ s : f[d] = 0) => sum[s] = sum[S]
             Good == {u \in SUBSET S : Part(S \ u)}
  <1>2. ASSUME NEW u \in SUBSET S, \A t \in SUBSET u : t # u => t \in Good
        PROVE  u \in Good
    <2>1. CASE u = {}
      <3>1. S \ u = S
        BY <2>1
      <3>2. Part(S)
        BY <1>1
      <3> QED
        BY <3>1, <3>2
    <2>2. CASE u # {}
      <3>1. PICK d \in u : TRUE
        BY <2>2
      <3> DEFINE rest == S \ u
                 more == S \ (u \ {d})
      <3>2. Part(more)
        BY <1>2, <3>1
      <3>3. more \in SUBSET S /\ d \in more /\ more \ {d} = rest
        BY <3>1
      <3>4. sum[more] = f[d] + sum[rest]
        BY <1>1, <3>3
      <3>5. f[d] \in Nat /\ sum[rest] \in Nat /\ sum[more] \in Nat /\ sum[S] \in Nat
        BY <1>1, <3>1
      <3>6. (\A e \in S \ rest : f[e] = 0) => f[d] = 0 /\ \A e \in S \ more : f[e] = 0
        BY <3>1
      <3> HIDE DEF rest, more
      <3>7. Part(rest)
        BY <3>2, <3>4, <3>5, <3>6
      <3> QED
        BY <3>7 DEF rest
    <2> QED
      BY <2>1, <2>2
  <1> HIDE DEF Good
  <1>3. \A u \in SUBSET S : u \in Good
    BY <1>2, SubsetInduction
  <1>4. ASSUME NEW s \in SUBSET S PROVE Part(s)
    <2>1. S \ s \in Good /\ S \ (S \ s) = s
      BY <1>3
    <2>2. Part(S \ (S \ s))
      BY <2>1 DEF Good
    <2> QED
      BY <2>1, <2>2
  <1> QED
    BY <1>4

\* The units asked for of each lot of a product.
OfProduct(c, p) == [d \in Lot |-> IF ProductOf[d] = p THEN req[c][d] ELSE 0]

LEMMA TotalIsSum ==
  ASSUME TypeOK, NEW c \in Client, NEW p
  PROVE  \E sum : Sums(sum, Lot, OfProduct(c, p)) /\ TotalRequested(c, p) = sum[Lot]
  <1> DEFINE f == OfProduct(c, p)
             Is(sum) == sum = [s \in SUBSET Lot |->
                                IF s = {} THEN 0
                                ELSE LET x == CHOOSE x \in s : TRUE
                                     IN  (IF ProductOf[x] = p THEN req[c][x] ELSE 0) + sum[s \ {x}]]
  <1>1. IsFiniteSet(Lot) /\ f \in [Lot -> Nat]
    BY StockAssumption DEF TypeOK, OfProduct
  <1>2. TotalRequested(c, p) = (CHOOSE sum : Is(sum))[Lot]
    BY Zenon DEF TotalRequested, MapThenSumSet, MapThenFoldSet
  \* One step of both definitions.
  <1>3. ASSUME NEW sum \in [SUBSET Lot -> Nat], NEW s \in SUBSET Lot, s # {}
        PROVE  LET x == CHOOSE x \in s : TRUE
               IN  /\ x \in s
                   /\ SumStep(Lot, f)[SumPick(Lot)[s]][sum[s \ {SumPick(Lot)[s]}]]
                        = (IF ProductOf[x] = p THEN req[c][x] ELSE 0) + sum[s \ {x}]
    <2> DEFINE x == CHOOSE x \in s : TRUE
    <2>1. x \in s /\ SumPick(Lot)[s] = x
      BY <1>3 DEF SumPick
    <2>2. x \in Lot /\ sum[s \ {x}] \in Nat
      BY <1>3, <2>1
    <2>3. f[x] = (IF ProductOf[x] = p THEN req[c][x] ELSE 0)
      BY <2>1 DEF OfProduct
    <2> HIDE DEF x, f
    <2>4. SumStep(Lot, f)[x][sum[s \ {x}]] = f[x] + sum[s \ {x}]
      BY <2>2 DEF SumStep
    <2> QED
      BY <2>1, <2>3, <2>4 DEF x
  <1> HIDE DEF f
  <1>4. PICK sum : Sums(sum, Lot, f)
    BY <1>1, SumFoldable, FoldExists DEF Sums
  <1>5. sum \in [SUBSET Lot -> Nat]
    BY <1>1, <1>4, SumTakesOut DEF TakesOut
  <1>6. Is(sum)
    BY <1>3, <1>4, <1>5 DEF Sums, Folds
  <1>7. ASSUME NEW other, Is(other) PROVE other = sum
    <2> DEFINE Good == {s \in SUBSET Lot : other[s] = sum[s]}
    <2>1. ASSUME NEW s \in SUBSET Lot, \A t \in SUBSET s : t # s => t \in Good
          PROVE  s \in Good
      <3> DEFINE x == CHOOSE x \in s : TRUE
      <3>1. s # {} => x \in s
        OBVIOUS
      <3>2. s # {} => s \ {x} \in Good
        BY <2>1, <3>1
      <3> QED
        BY <1>6, <1>7, <3>2
    <2> HIDE DEF Good
    <2>2. \A s \in SUBSET Lot : s \in Good
      BY <1>1, <2>1, SubsetInduction
    <2>3. \A s \in SUBSET Lot : other[s] = sum[s]
      BY <2>2 DEF Good
    <2> QED
      BY <1>6, <1>7, <2>3
  <1> HIDE DEF Is
  <1>8. (CHOOSE it : Is(it)) = sum
    BY <1>6, <1>7
  <1> QED
    BY <1>2, <1>4, <1>8 DEF f

-----------------------------------------------------------------------------
(* The loop of purchaseBasket over the deliveries of one product.          *)

FifoOf(c, p) == {d \in fifo[c] : ProductOf[d] = p}
Splits == [remaining : Int, taken : [Lot -> Int]]
Youngest(S) == [s \in SUBSET S |-> Max(s)]

\* What the loop makes of its variables at lot d.
TakeOf(c, d, acc) ==
  LET take == IF seen[c][d] < acc.remaining THEN seen[c][d] ELSE acc.remaining
  IN  [remaining |-> acc.remaining - take, taken |-> [acc.taken EXCEPT ![d] = take]]

\* split[s] is what it has come to after the lots of s, oldest first.
SplitAfter(split, c, p) ==
  /\ split \in [SUBSET FifoOf(c, p) -> Splits]
  /\ split[{}] = [remaining |-> TotalRequested(c, p), taken |-> None]
  /\ \A s \in SUBSET FifoOf(c, p) : s # {} => split[s] = TakeOf(c, Max(s), split[s \ {Max(s)}])
  /\ ExpectedSplit(c, p) = split[FifoOf(c, p)]

LEMMA YoungestLot ==
  ASSUME NEW s \in SUBSET Lot, s # {}
  PROVE  Max(s) \in s /\ \A d \in s : d <= Max(s)
  <1> DEFINE Good == {t \in SUBSET Lot : t # {} => \E x \in t : \A y \in t : x >= y}
  <1>1. ASSUME NEW t \in SUBSET Lot, \A u \in SUBSET t : u # t => u \in Good
        PROVE  t \in Good
    <2> SUFFICES ASSUME t # {} PROVE \E x \in t : \A y \in t : x >= y
      OBVIOUS
    <2>1. PICK d \in t : TRUE
      OBVIOUS
    <2>2. t \subseteq Nat
      BY StockAssumption
    <2>3. t \ {d} \in Good
      BY <1>1, <2>1
    <2>4. CASE t = {d}
      BY <2>1, <2>2, <2>4
    <2>5. CASE t # {d}
      <3>1. PICK x \in t \ {d} : \A y \in t \ {d} : x >= y
        BY <2>1, <2>3, <2>5
      <3>2. x \in Nat /\ d \in Nat
        BY <2>2
      <3>3. CASE x >= d
        BY <3>1, <3>3
      <3>4. CASE ~(x >= d)
        <4>1. \A y \in t : d >= y
          BY <2>2, <3>1, <3>2, <3>4
        <4> QED
          BY <4>1
      <3> QED
        BY <3>3, <3>4
    <2> QED
      BY <2>4, <2>5
  <1> HIDE DEF Good
  <1>2. IsFiniteSet(Lot)
    BY StockAssumption
  <1>6. \A t \in SUBSET Lot : t \in Good
    BY <1>1, <1>2, SubsetInduction
  <1>3. \E x \in s : \A y \in s : x >= y
    BY <1>6 DEF Good
  <1>4. Max(s) \in s /\ \A y \in s : Max(s) >= y
    BY <1>3 DEF Max
  <1>5. s \subseteq Nat
    BY StockAssumption
  <1> QED
    BY <1>4, <1>5

LEMMA LoopIsSplit ==
  ASSUME TypeOK, NEW c \in Client, NEW p
  PROVE  \E split : SplitAfter(split, c, p)
  <1> DEFINE S == FifoOf(c, p)
             Base == [remaining |-> TotalRequested(c, p), taken |-> None]
             Combine == [d \in S |-> [acc \in Splits |-> TakeOf(c, d, acc)]]
             Is(split) == split = [s \in SUBSET S |->
                                    IF s = {} THEN Base
                                    ELSE TakeOf(c, Max(s), split[s \ {Max(s)}])]
  <1>1. S \in SUBSET Lot /\ IsFiniteSet(S)
    BY StockAssumption, FS_Subset DEF TypeOK, FifoOf
  <1>2. Base \in Splits
    <2>1. PICK sum : Sums(sum, Lot, OfProduct(c, p)) /\ TotalRequested(c, p) = sum[Lot]
      BY TotalIsSum
    <2>2. OfProduct(c, p) \in [Lot -> Nat]
      BY DEF TypeOK, OfProduct
    <2>3. TakesOut(sum, Lot, OfProduct(c, p))
      BY <2>1, <2>2, SumTakesOut, StockAssumption, Zenon
    <2>4. sum[Lot] \in Nat
      BY <2>3 DEF TakesOut
    <2> QED
      BY <2>1, <2>4 DEF Splits, None
  <1>3. ASSUME NEW d \in S, NEW acc \in Splits PROVE TakeOf(c, d, acc) \in Splits
    <2>1. seen[c][d] \in Int /\ acc.remaining \in Int /\ acc.taken \in [Lot -> Int] /\ d \in Lot
      BY <1>1, <1>3 DEF TypeOK, Splits
    <2> HIDE DEF S
    <2> QED
      BY <2>1 DEF TakeOf, Splits
  <1>4. ExpectedSplit(c, p) = (CHOOSE split : Is(split))[S]
    BY Zenon DEF ExpectedSplit, MapThenFoldSet, TakeOf, FifoOf
  <1>5. \A s \in SUBSET S : s # {} => Youngest(S)[s] = Max(s) /\ Max(s) \in s
    BY <1>1, YoungestLot DEF Youngest
  <1>6. Foldable(S, Splits, Base, Youngest(S), Combine)
    <2> HIDE DEF S, Base
    <2>1. Combine \in [S -> [Splits -> Splits]]
      BY <1>3
    <2> HIDE DEF Combine
    <2> QED
      BY <1>1, <1>2, <1>5, <2>1 DEF Foldable
  <1>7. PICK split : Folds(split, S, Base, Youngest(S), Combine)
    <2> HIDE DEF S, Base, Combine
    <2> QED
      BY <1>6, FoldExists, Zenon
  <1>8. split \in [SUBSET S -> Splits]
    <2> HIDE DEF S, Base, Combine
    <2> QED
      BY <1>6, <1>7, FoldTyped, Zenon
  <1>9. Is(split)
    <2>1. ASSUME NEW s \in SUBSET S, s # {}
          PROVE  Combine[Youngest(S)[s]][split[s \ {Youngest(S)[s]}]] = TakeOf(c, Max(s), split[s \ {Max(s)}])
      <3>1. Youngest(S)[s] = Max(s) /\ Max(s) \in S /\ s \ {Max(s)} \in SUBSET S
        BY <1>5, <2>1
      <3>2. split[s \ {Max(s)}] \in Splits
        BY <1>8, <3>1
      <3> HIDE DEF S
      <3> QED
        BY <3>1, <3>2
    <2> HIDE DEF S, Base, Combine
    <2> QED
      BY <1>7, <2>1 DEF Folds
  <1>10. ASSUME NEW other, Is(other) PROVE other = split
    <2> DEFINE Good == {s \in SUBSET S : other[s] = split[s]}
    <2> HIDE DEF S, Base
    <2>1. ASSUME NEW s \in SUBSET S, \A t \in SUBSET s : t # s => t \in Good
          PROVE  s \in Good
      <3>1. CASE s = {}
        BY <1>9, <1>10, <3>1
      <3>2. CASE s # {}
        <4>1. s \ {Max(s)} \in Good
          BY <1>5, <2>1, <3>2
        <4>2. other[s] = TakeOf(c, Max(s), other[s \ {Max(s)}])
          BY <1>10, <3>2
        <4>3. split[s] = TakeOf(c, Max(s), split[s \ {Max(s)}])
          BY <1>9, <3>2
        <4> QED
          BY <4>1, <4>2, <4>3
      <3> QED
        BY <3>1, <3>2
    <2> HIDE DEF Good
    <2>2. \A s \in SUBSET S : s \in Good
      BY <1>1, <2>1, SubsetInduction
    <2>3. \A s \in SUBSET S : other[s] = split[s]
      BY <2>2 DEF Good
    <2> QED
      BY <1>9, <1>10, <2>3
  <1>11. ExpectedSplit(c, p) = split[S]
    <2> HIDE DEF Is, S
    <2> QED
      BY <1>4, <1>9, <1>10
  <1>12. /\ split[{}] = Base
         /\ \A s \in SUBSET S : s # {} => split[s] = TakeOf(c, Max(s), split[s \ {Max(s)}])
    <2> HIDE DEF S, Base
    <2> QED
      BY <1>9
  <1> QED
    BY <1>8, <1>11, <1>12 DEF SplitAfter

\* What is asked for, and what the loop may count on.
Readable(c) == \A d \in fifo[c] : seen[c][d] >= 0

LEMMA TotalTyped ==
  ASSUME TypeOK, NEW c \in Client, NEW p
  PROVE  TotalRequested(c, p) \in Nat
  <1>1. PICK sum : Sums(sum, Lot, OfProduct(c, p)) /\ TotalRequested(c, p) = sum[Lot]
    BY TotalIsSum
  <1>2. OfProduct(c, p) \in [Lot -> Nat]
    BY DEF TypeOK, OfProduct
  <1>3. TakesOut(sum, Lot, OfProduct(c, p))
    BY <1>1, <1>2, SumTakesOut, StockAssumption, Zenon
  <1> QED
    BY <1>1, <1>3 DEF TakesOut

\* The loop goes on to a lot only when it has taken all older ones whole.
OldestWhole(split, s, c) ==
  /\ split[s].remaining >= 0
  /\ \A d \in Lot \ s : split[s].taken[d] = 0
  /\ split[s].remaining > 0 => \A e \in s : split[s].taken[e] = seen[c][e]
  /\ \A d, e \in s : e < d /\ split[s].taken[d] > 0 => split[s].taken[e] = seen[c][e]

LEMMA LoopTakesOldest ==
  ASSUME TypeOK, NEW c \in Client, Readable(c), NEW p, NEW split, SplitAfter(split, c, p)
  PROVE  OldestWhole(split, FifoOf(c, p), c)
  <1> DEFINE S == FifoOf(c, p)
             Good == {s \in SUBSET S : OldestWhole(split, s, c)}
  <1>1. S \in SUBSET Lot /\ IsFiniteSet(S) /\ \A d \in S : d \in fifo[c]
    BY StockAssumption, FS_Subset DEF TypeOK, FifoOf
  <1>2. ASSUME NEW s \in SUBSET S, \A t \in SUBSET s : t # s => t \in Good
        PROVE  s \in Good
    <2>1. CASE s = {}
      <3>1. split[s] = [remaining |-> TotalRequested(c, p), taken |-> None]
        BY <2>1 DEF SplitAfter
      <3> QED
        BY <1>1, <2>1, <3>1, TotalTyped DEF OldestWhole, None
    <2>2. CASE s # {}
      <3> DEFINE x == Max(s)
                 acc == split[s \ {x}]
      <3>1. x \in s /\ x \in Lot /\ x \in S /\ \A d \in s : d <= x
        BY <1>1, <2>2, YoungestLot
      <3>2. OldestWhole(split, s \ {x}, c)
        BY <1>2, <3>1
      <3>3. acc.remaining \in Int /\ acc.taken \in [Lot -> Int]
        BY <1>1 DEF SplitAfter, Splits
      <3>4. split[s] = TakeOf(c, x, acc)
        BY <2>2 DEF SplitAfter
      <3>5. seen[c][x] \in Int /\ seen[c][x] >= 0
        BY <1>1, <3>1 DEF TypeOK, Readable
      <3>6. /\ acc.remaining >= 0
            /\ \A d \in Lot \ (s \ {x}) : acc.taken[d] = 0
            /\ acc.remaining > 0 => \A e \in s \ {x} : acc.taken[e] = seen[c][e]
            /\ \A d, e \in s \ {x} : e < d /\ acc.taken[d] > 0 => acc.taken[e] = seen[c][e]
        BY <3>2 DEF OldestWhole
      <3>7. s \subseteq Nat /\ s \subseteq Lot
        BY <1>1, StockAssumption
      <3> DEFINE take == IF seen[c][x] < acc.remaining THEN seen[c][x] ELSE acc.remaining
      <3>8. split[s].remaining = acc.remaining - take /\ split[s].taken = [acc.taken EXCEPT ![x] = take]
        BY <3>4 DEF TakeOf
      <3> HIDE DEF acc, x, S
      <3>9. /\ split[s].remaining >= 0
            /\ split[s].remaining > 0 => take = seen[c][x] /\ acc.remaining > 0
            /\ take > 0 => acc.remaining > 0
            /\ take \in Int
        BY <3>3, <3>5, <3>6, <3>8
      <3> HIDE DEF take
      <3>10. /\ split[s].taken[x] = take
             /\ \A d \in Lot \ {x} : split[s].taken[d] = acc.taken[d]
        BY <3>1, <3>3, <3>8
      <3>11. \A d \in Lot \ s : split[s].taken[d] = 0
        BY <3>1, <3>6, <3>10
      <3>12. split[s].remaining > 0 => \A e \in s : split[s].taken[e] = seen[c][e]
        BY <3>6, <3>7, <3>9, <3>10
      <3>13. ASSUME NEW d \in s, NEW e \in s, e < d, split[s].taken[d] > 0
             PROVE  split[s].taken[e] = seen[c][e]
        <4>1. e # x
          BY <3>1, <3>7, <3>13
        <4>2. split[s].taken[e] = acc.taken[e]
          BY <3>7, <3>10, <4>1
        <4>3. CASE d = x
          BY <3>6, <3>9, <3>10, <3>13, <4>1, <4>2, <4>3
        <4>4. CASE d # x
          BY <3>6, <3>7, <3>10, <3>13, <4>1, <4>2, <4>4
        <4> QED
          BY <4>3, <4>4
      <3>14. OldestWhole(split, s, c)
        BY <3>9, <3>11, <3>12, <3>13 DEF OldestWhole
      <3> QED
        BY <3>14 DEF S
    <2> QED
      BY <2>1, <2>2
  <1> HIDE DEF Good
  <1>3. \A s \in SUBSET S : s \in Good
    BY <1>1, <1>2, SubsetInduction
  <1>4. S \in Good
    BY <1>3
  <1> QED
    BY <1>4 DEF Good

\* A basket that the check lets pass takes every older lot of what it takes
\* units from whole.
LEMMA PassedTakesOldest ==
  ASSUME TypeOK, NEW c \in Client, Readable(c), FifoOk(c),
         NEW d \in Requested(c), NEW e \in fifo[c], ProductOf[d] = ProductOf[e], e < d
  PROVE  d \in fifo[c] /\ seen[c][e] = req[c][e]
  <1> DEFINE p == ProductOf[d]
  <1>1. PICK split : SplitAfter(split, c, p)
    BY LoopIsSplit
  <1>2. OldestWhole(split, FifoOf(c, p), c)
    BY <1>1, LoopTakesOldest
  <1>3. d \in Lot /\ e \in Lot /\ req[c][d] > 0 /\ e \in FifoOf(c, p)
    BY DEF Requested, TypeOK, FifoOf
  <1>4. split[FifoOf(c, p)].taken[d] = req[c][d] /\ split[FifoOf(c, p)].taken[e] = req[c][e]
    BY <1>1, <1>3 DEF FifoOk, SplitAfter
  <1>5. d \in FifoOf(c, p)
    BY <1>2, <1>3, <1>4 DEF OldestWhole
  <1>6. split[FifoOf(c, p)].taken[e] = seen[c][e]
    BY <1>2, <1>3, <1>4, <1>5 DEF OldestWhole
  <1> QED
    BY <1>4, <1>5, <1>6 DEF FifoOf

\* A basket that leaves no unit of an older lot passes the check.
LEMMA OldestPasses ==
  ASSUME TypeOK, NEW c \in Client, Readable(c), Requested(c) \subseteq fifo[c],
         \A d \in Requested(c) : req[c][d] <= seen[c][d],
         \A d \in Requested(c), e \in fifo[c] :
           ProductOf[d] = ProductOf[e] /\ e < d => seen[c][e] <= req[c][e]
  PROVE  FifoOk(c)
  <1> SUFFICES ASSUME NEW p \in {ProductOf[d] : d \in Requested(c)}
               PROVE  /\ ExpectedSplit(c, p).remaining = 0
                      /\ \A d \in Lot : ProductOf[d] = p => ExpectedSplit(c, p).taken[d] = req[c][d]
    BY DEF FifoOk
  <1> DEFINE S == FifoOf(c, p)
             f == OfProduct(c, p)
             total == TotalRequested(c, p)
  <1>1. PICK split : SplitAfter(split, c, p)
    BY LoopIsSplit
  <1>2. PICK sum : Sums(sum, Lot, f) /\ total = sum[Lot]
    BY TotalIsSum
  <1>3. IsFiniteSet(Lot) /\ Lot \subseteq Nat /\ f \in [Lot -> Nat]
    BY StockAssumption DEF TypeOK, OfProduct
  <1>4. TakesOut(sum, Lot, f)
    BY <1>2, <1>3, SumTakesOut, Zenon
  <1>5. \A s \in SUBSET Lot : sum[s] <= total /\ ((\A d \in Lot \ s : f[d] = 0) => sum[s] = total)
    <2> HIDE DEF f
    <2>1. \A s \in SUBSET Lot : /\ sum[s] <= sum[Lot]
                                /\ (\A d \in Lot \ s : f[d] = 0) => sum[s] = sum[Lot]
      BY <1>2, <1>3, SumOfPart, Zenon
    <2> QED
      BY <1>2, <2>1
  <1>6. /\ \A s \in SUBSET Lot : sum[s] \in Nat
        /\ total \in Nat /\ sum[{}] = 0
        /\ \A s \in SUBSET Lot : \A d \in s : sum[s] = f[d] + sum[s \ {d}]
    BY <1>2, <1>4 DEF TakesOut
  <1>7. S \in SUBSET Lot /\ IsFiniteSet(S) /\ \A d \in S : d \in fifo[c] /\ f[d] = req[c][d]
    BY <1>3, FS_Subset DEF TypeOK, FifoOf, OfProduct
  <1>8. \A d \in Lot : f[d] # 0 => d \in S /\ d \in Requested(c) /\ ProductOf[d] = p
    <2> SUFFICES ASSUME NEW d \in Lot, f[d] # 0
                 PROVE  d \in S /\ d \in Requested(c) /\ ProductOf[d] = p
      OBVIOUS
    <2>1. ProductOf[d] = p /\ req[c][d] # 0
      BY DEF OfProduct
    <2>2. d \in Requested(c)
      BY <2>1 DEF Requested, TypeOK
    <2> QED
      BY <2>1, <2>2 DEF FifoOf
  <1>9. ASSUME NEW d \in S
        PROVE  /\ seen[c][d] \in Int /\ req[c][d] \in Nat /\ req[c][d] <= seen[c][d]
               /\ \A e \in Requested(c) : ProductOf[e] = p /\ d < e => seen[c][d] = req[c][d]
    <2>1. seen[c][d] \in Int /\ req[c][d] \in Nat /\ seen[c][d] >= 0 /\ ProductOf[d] = p
      BY <1>7 DEF TypeOK, Readable, FifoOf
    <2>2. req[c][d] <= seen[c][d]
      BY <1>7, <2>1 DEF Requested
    <2>3. \A e \in Requested(c) : ProductOf[e] = p /\ d < e => seen[c][d] <= req[c][d]
      BY <1>7, <2>1
    <2> QED
      BY <2>1, <2>2, <2>3
  <1> DEFINE Initial(s) == \A d \in s, e \in S : e < d => e \in s
             AsAsked(s) == /\ split[s].remaining = total - sum[s]
                           /\ \A d \in s : split[s].taken[d] = req[c][d]
                           /\ \A d \in Lot \ s : split[s].taken[d] = 0
             Good == {s \in SUBSET S : Initial(s) => AsAsked(s)}
  <1>10. ASSUME NEW s \in SUBSET S, \A t \in SUBSET s : t # s => t \in Good
         PROVE  s \in Good
    <2> SUFFICES ASSUME Initial(s) PROVE AsAsked(s)
      OBVIOUS
    <2> HIDE DEF S, f, total
    <2>1. CASE s = {}
      <3>1. split[s] = [remaining |-> total, taken |-> None]
        BY <1>1, <2>1 DEF SplitAfter, total
      <3> QED
        BY <1>6, <2>1, <3>1 DEF None
    <2>2. CASE s # {}
      <3> DEFINE x == Max(s)
                 rest == s \ {x}
                 acc == split[rest]
      <3>1. x \in s /\ x \in S /\ x \in Lot /\ x \in Nat /\ \A d \in s : d <= x
        BY <1>3, <1>7, <2>2, YoungestLot
      <3>2. AsAsked(rest)
        <4>1. rest \in SUBSET S /\ rest \in Good
          BY <1>10, <3>1
        <4>2. Initial(rest)
          <5> SUFFICES ASSUME NEW d \in rest, NEW e \in S, e < d PROVE e \in rest
            OBVIOUS
          <5>1. e \in s /\ d \in Nat /\ e \in Nat /\ d <= x
            BY <1>3, <1>7, <3>1
          <5> QED
            BY <3>1, <5>1
        <4> QED
          BY <4>1, <4>2
      <3>3. acc.remaining \in Int /\ acc.taken \in [Lot -> Int]
        BY <1>1, <3>1 DEF SplitAfter, Splits, S
      <3>4. split[s] = TakeOf(c, x, acc)
        BY <1>1, <2>2 DEF SplitAfter, S
      <3>5. s \in SUBSET Lot /\ rest \in SUBSET Lot /\ sum[s] = req[c][x] + sum[rest] /\ sum[s] <= total
        BY <1>5, <1>6, <1>7, <3>1
      <3>6. /\ seen[c][x] \in Int /\ req[c][x] \in Nat /\ req[c][x] <= seen[c][x]
            /\ \A e \in Requested(c) : ProductOf[e] = p /\ x < e => seen[c][x] = req[c][x]
        BY <1>9, <3>1
      <3>7. seen[c][x] = req[c][x] \/ sum[s] = total
        <4> SUFFICES ASSUME seen[c][x] # req[c][x], NEW d \in Lot \ s PROVE f[d] = 0
          BY <1>5, <3>5
        <4> SUFFICES ASSUME f[d] # 0 PROVE FALSE
          OBVIOUS
        <4>1. d \in S /\ d \in Requested(c) /\ ProductOf[d] = p
          BY <1>8
        <4>2. ~(x < d)
          BY <3>6, <4>1
        <4>3. d < x
          BY <1>3, <3>1, <4>2
        <4> QED
          BY <3>1, <4>1, <4>3
      <3> DEFINE take == IF seen[c][x] < acc.remaining THEN seen[c][x] ELSE acc.remaining
      <3>8. split[s].remaining = acc.remaining - take /\ split[s].taken = [acc.taken EXCEPT ![x] = take]
        BY <3>4 DEF TakeOf
      <3>9. take = req[c][x]
        <4>1. acc.remaining = total - sum[rest] /\ sum[rest] \in Nat /\ sum[s] \in Nat
          BY <1>6, <3>2, <3>5
        <4> HIDE DEF acc, rest, x
        <4> QED
          BY <1>6, <3>3, <3>5, <3>6, <3>7, <4>1
      <3> HIDE DEF take
      <3>10. split[s].remaining = total - sum[s]
        <4>1. acc.remaining = total - sum[rest] /\ sum[rest] \in Nat /\ sum[s] \in Nat
          BY <1>6, <3>2, <3>5
        <4> HIDE DEF acc, rest, x
        <4> QED
          BY <1>6, <3>3, <3>5, <3>6, <3>8, <3>9, <4>1
      <3>11. /\ \A d \in rest : acc.taken[d] = req[c][d]
             /\ \A d \in Lot \ rest : acc.taken[d] = 0
        BY <3>2
      <3>12. /\ \A d \in s : split[s].taken[d] = req[c][d]
             /\ \A d \in Lot \ s : split[s].taken[d] = 0
        <4> HIDE DEF acc, x
        <4> QED
          BY <3>1, <3>3, <3>5, <3>8, <3>9, <3>11
      <3> QED
        BY <3>10, <3>12
    <2> QED
      BY <2>1, <2>2
  <1> HIDE DEF Good
  <1>11. \A s \in SUBSET S : s \in Good
    BY <1>7, <1>10, SubsetInduction
  <1>12. AsAsked(S)
    <2>1. S \in Good /\ Initial(S)
      BY <1>11
    <2> QED
      BY <2>1 DEF Good
  <1>13. sum[S] = total /\ \A d \in Lot \ S : f[d] = 0
    <2>1. \A d \in Lot \ S : f[d] = 0
      BY <1>8
    <2> QED
      BY <1>5, <1>7, <2>1
  <1>14. \A d \in Lot : ProductOf[d] = p => f[d] = req[c][d]
    BY DEF OfProduct
  <1>15. ExpectedSplit(c, p) = split[S]
    BY <1>1 DEF SplitAfter
  <1> HIDE DEF S, f, total
  <1> QED
    BY <1>6, <1>12, <1>13, <1>14, <1>15

-----------------------------------------------------------------------------
(* From the check to the commit.                                           *)

Checking == {"basketFifo", "basketWrite", "commit"}

\* What the transaction of c relies on of the rows its FIFO query returned: once
\* it has passed the check, older lots hold what is taken from them.
FifoOwn(c) ==
  /\ pc[c] \notin Checking => fifo[c] = {}
  /\ pc[c] = "basketFifo" => fifo[c] \subseteq todo[c] \union held[c] /\ Requested(c) \subseteq fifo[c]
  /\ pc[c] \in {"basketWrite", "commit"} =>
       \A d \in Requested(c), e \in fifo[c] :
         ProductOf[d] = ProductOf[e] /\ e < d => e \in held[c] /\ stock[e] = req[c][e]

FInv == \A c \in Client : FifoOwn(c)

\* Whoever does not move keeps all this while nobody writes the rows it holds.
LEMMA FifoStable ==
  ASSUME IInv, NEW x \in Client, FifoOwn(x), SameRequest(x), fifo'[x] = fifo[x],
         \A d \in held[x] : stock'[d] = stock[d]
  PROVE  FifoOwn(x)'
  <1>1. Requested(x)' = Requested(x)
    BY DEF SameRequest, Requested
  <1> QED
    BY <1>1 DEF FifoOwn, SameRequest

\* A step of c that does not write the tables.
LEMMA FifoPrivate ==
  ASSUME IInv, FInv, NEW c \in Client, FifoOwn(c)', UNCHANGED stock,
         \A x \in Client \ {c} : SameRequest(x) /\ fifo'[x] = fifo[x]
  PROVE  FInv'
  <1>1. \A x \in Client \ {c} : FifoOwn(x)'
    BY FifoStable DEF FInv
  <1> QED
    BY <1>1 DEF FInv

\* The end of c's transaction, which wrote rows c had locked, if any.
LEMMA FifoEnd ==
  ASSUME IInv, FInv, NEW c \in Client, End(c),
         \A d \in Lot : stock'[d] # stock[d] => d \in held[c]
  PROVE  FInv'
  <1>1. TypeOK
    BY DEF IInv
  <1>2. FifoOwn(c)'
    BY <1>1 DEF FifoOwn, End, Forget, Checking, TypeOK
  <1>3. ASSUME NEW x \in Client \ {c} PROVE FifoOwn(x)'
    <2>1. SameRequest(x)
      BY <1>1, <1>3, EndOthers
    <2>2. fifo'[x] = fifo[x]
      BY <1>1, <1>3 DEF End, Forget, TypeOK
    <2>3. \A d \in held[x] : stock'[d] = stock[d]
      BY <1>1, <1>3 DEF IInv, RowLocks, TypeOK
    <2> QED
      BY <1>3, <2>1, <2>2, <2>3, FifoStable DEF FInv
  <1> QED
    BY <1>2, <1>3 DEF FInv

\* The rows the check reads hold what the tables hold.
LEMMA CheckedRows ==
  ASSUME IInv, FInv, NEW c \in Client, pc[c] = "basketFifo", todo[c] = {}
  PROVE  /\ fifo[c] \subseteq held[c] /\ fifo[c] \subseteq Lot
         /\ \A d \in fifo[c] : seen[c][d] = stock[d] /\ seen[c][d] >= 0
         /\ Requested(c) \subseteq fifo[c]
         /\ \A d \in Requested(c) : req[c][d] <= seen[c][d]
  <1>1. TypeOK /\ Own(c) /\ FifoOwn(c) /\ RowsExist
    BY DEF IInv, FInv
  <1>2. fifo[c] \subseteq held[c] /\ fifo[c] \subseteq Lot /\ Requested(c) \subseteq fifo[c]
    BY <1>1 DEF FifoOwn, TypeOK
  <1>3. \A d \in held[c] : seen[c][d] = stock[d]
    BY <1>1 DEF Own, Reading
  <1>4. \A d \in Requested(c) : req[c][d] <= seen[c][d]
    BY <1>1 DEF Own, Sufficient, Requested, TypeOK
  <1> QED
    BY <1>1, <1>2, <1>3, <1>4 DEF RowsExist

LEMMA FifoRefused ==
  ASSUME IInv, FInv, NEW c \in Client, BasketRefused(c)
  PROVE  \E d \in Requested(c), e \in fifo[c] :
           ProductOf[d] = ProductOf[e] /\ e < d /\ req[c][e] < seen[c][e]
  <1>1. TypeOK /\ pc[c] = "basketFifo" /\ todo[c] = {} /\ ~FifoOk(c)
    BY DEF IInv, BasketRefused
  <1>2. Readable(c)
    BY <1>1, CheckedRows DEF Readable
  <1> SUFFICES ASSUME ~\E d \in Requested(c), e \in fifo[c] :
                         ProductOf[d] = ProductOf[e] /\ e < d /\ req[c][e] < seen[c][e]
               PROVE  FALSE
    OBVIOUS
  <1>3. \A e \in fifo[c] : req[c][e] \in Nat /\ seen[c][e] \in Int
    BY <1>1 DEF TypeOK
  <1>4. \A d \in Requested(c), e \in fifo[c] :
          ProductOf[d] = ProductOf[e] /\ e < d => seen[c][e] <= req[c][e]
    BY <1>3
  <1> QED
    BY <1>1, <1>2, <1>4, CheckedRows, OldestPasses

LEMMA FifoOkKept ==
  ASSUME IInv, FInv, NEW c \in Client, BasketFifoOk(c)
  PROVE  FInv'
  <1>1. TypeOK /\ pc[c] = "basketFifo" /\ todo[c] = {} /\ FifoOk(c)
    BY DEF IInv, BasketFifoOk
  <1>2. /\ pc' = [pc EXCEPT ![c] = "basketWrite"]
        /\ UNCHANGED <<stock, req, held, seen, fifo, made>>
        /\ todo' = [todo EXCEPT ![c] = Requested(c)]
    BY DEF BasketFifoOk, tables
  <1>3. Readable(c)
    BY <1>1, CheckedRows DEF Readable
  <1>4. \A d \in Requested(c), e \in fifo[c] :
          ProductOf[d] = ProductOf[e] /\ e < d => e \in held[c] /\ stock[e] = req[c][e]
    BY <1>1, <1>3, CheckedRows, PassedTakesOldest
  <1>5. Requested(c)' = Requested(c) /\ pc'[c] = "basketWrite"
    BY <1>1, <1>2 DEF Requested, TypeOK
  <1>6. FifoOwn(c)'
    BY <1>2, <1>4, <1>5 DEF FifoOwn, Checking
  <1>7. \A x \in Client \ {c} : SameRequest(x) /\ fifo'[x] = fifo[x]
    BY <1>1, <1>2 DEF SameRequest, TypeOK
  <1> QED
    BY <1>2, <1>6, <1>7, FifoPrivate

LEMMA FifoStockOkKept ==
  ASSUME IInv, FInv, NEW c \in Client, BasketStockOk(c)
  PROVE  FInv'
  <1>1. TypeOK /\ pc[c] = "basketLock" /\ todo[c] = {} /\ Sufficient(c) /\ Own(c)
    BY DEF IInv, BasketStockOk
  <1>2. /\ pc' = [pc EXCEPT ![c] = "basketFifo"]
        /\ UNCHANGED <<stock, req, held, seen, made>>
        /\ fifo' = [fifo EXCEPT ![c] = FifoRows(c)] /\ todo' = [todo EXCEPT ![c] = FifoRows(c)]
    BY DEF BasketStockOk, tables
  <1>3. Requested(c) \subseteq FifoRows(c)
    <2>1. \A d \in Requested(c) : d \in Lot /\ stock[d] >= req[c][d] /\ req[c][d] > 0
      BY <1>1 DEF Own, Reading, Sufficient, Requested
    <2> QED
      BY <1>1, <2>1 DEF FifoRows, TypeOK
  <1>4. Requested(c)' = Requested(c) /\ pc'[c] = "basketFifo" /\ fifo'[c] = FifoRows(c) /\ todo'[c] = FifoRows(c)
    BY <1>1, <1>2 DEF Requested, TypeOK
  <1>5. FifoOwn(c)'
    BY <1>3, <1>4 DEF FifoOwn, Checking
  <1>6. \A x \in Client \ {c} : SameRequest(x) /\ fifo'[x] = fifo[x]
    BY <1>1, <1>2 DEF SameRequest, TypeOK
  <1> QED
    BY <1>2, <1>5, <1>6, FifoPrivate

LEMMA FifoLockKept ==
  ASSUME IInv, FInv, NEW c \in Client, BasketFifoLock(c)
  PROVE  FInv'
  <1>1. TypeOK /\ pc[c] = "basketFifo" /\ FifoOwn(c)
    BY DEF IInv, FInv, BasketFifoLock
  <1>2. PICK d \in todo[c] :
          /\ held' = [held EXCEPT ![c] = @ \union {d}]
          /\ seen' = [seen EXCEPT ![c][d] = stock[d]]
          /\ todo' = [todo EXCEPT ![c] = @ \ {d}]
    BY DEF BasketFifoLock, LockRow
  <1>3. UNCHANGED <<stock, pc, req, fifo, made>>
    BY DEF BasketFifoLock, tables
  <1>4. Requested(c)' = Requested(c) /\ held'[c] = held[c] \union {d} /\ todo'[c] = todo[c] \ {d}
    BY <1>1, <1>2, <1>3 DEF Requested, TypeOK
  <1>5. FifoOwn(c)'
    BY <1>1, <1>3, <1>4 DEF FifoOwn, Checking
  <1>6. \A x \in Client \ {c} : SameRequest(x) /\ fifo'[x] = fifo[x]
    BY <1>1, <1>2, <1>3 DEF SameRequest, TypeOK
  <1> QED
    BY <1>3, <1>5, <1>6, FifoPrivate

\* Statements at which no row of the FIFO query matters, or that leave them alone.
LEMMA FifoOtherKept ==
  ASSUME IInv, FInv, NEW c \in Client,
         \/ \E d \in Lot : PurchaseBegin(c, d)
         \/ \E r \in Baskets : BasketBegin(c, r)
         \/ \E i \in Ids(orders) : StornoBegin(c, i)
         \/ PurchaseLock(c) \/ PurchaseWrite(c)
         \/ \E d \in Lot : BasketLockRow(c, d)
         \/ \E d \in Lot : BasketWrite(c, d)
         \/ StornoLock(c) \/ StornoRead(c) \/ StornoWrite(c)
  PROVE  FInv'
  <1>1. TypeOK /\ FifoOwn(c)
    BY DEF IInv, FInv
  <1>2. UNCHANGED <<stock, fifo>>
    BY DEF PurchaseBegin, BasketBegin, StornoBegin, PurchaseLock, PurchaseWrite, BasketLockRow,
           BasketWrite, WriteLine, StornoLock, StornoRead, StornoWrite, tables
  <1>3. \A x \in Client \ {c} : SameRequest(x) /\ fifo'[x] = fifo[x]
    <2>1. CASE \/ \E d \in Lot : PurchaseBegin(c, d)
               \/ \E r \in Baskets : BasketBegin(c, r)
               \/ \E i \in Ids(orders) : StornoBegin(c, i)
      BY <1>1, <2>1 DEF PurchaseBegin, BasketBegin, StornoBegin, Begin, SameRequest, TypeOK
    <2>2. CASE PurchaseLock(c) \/ (\E d \in Lot : BasketLockRow(c, d)) \/ StornoLock(c)
      BY <1>1, <2>2 DEF PurchaseLock, BasketLockRow, LockRow, StornoLock, SameRequest, TypeOK
    <2>3. CASE PurchaseWrite(c) \/ \E d \in Lot : BasketWrite(c, d)
      BY <1>1, <2>3 DEF PurchaseWrite, BasketWrite, WriteLine, SameRequest, TypeOK
    <2>4. CASE StornoRead(c) \/ StornoWrite(c)
      BY <1>1, <2>4 DEF StornoRead, StornoWrite, SameRequest, TypeOK
    <2> QED
      BY <2>1, <2>2, <2>3, <2>4
  <1>4. FifoOwn(c)'
    <2>1. CASE \E d \in Lot : BasketWrite(c, d)
      <3>1. /\ pc[c] = "basketWrite" /\ pc'[c] \in {"basketWrite", "commit"}
            /\ UNCHANGED <<req, held>>
        BY <1>1, <2>1 DEF BasketWrite, TypeOK
      <3>2. Requested(c)' = Requested(c)
        BY <3>1 DEF Requested
      <3> QED
        BY <1>1, <1>2, <3>1, <3>2 DEF FifoOwn, Checking
    <2>2. CASE PurchaseWrite(c)
      <3>1. fifo[c] = {} /\ pc'[c] = "commit"
        BY <1>1, <2>2 DEF PurchaseWrite, FifoOwn, Checking, TypeOK
      <3> QED
        BY <1>2, <3>1 DEF FifoOwn
    <2>3. CASE ~(\E d \in Lot : BasketWrite(c, d)) /\ ~PurchaseWrite(c)
      <3>1. pc[c] \notin Checking /\ pc'[c] \notin Checking
        BY <1>1, <2>3 DEF PurchaseBegin, BasketBegin, StornoBegin, Begin, PurchaseLock,
           BasketLockRow, StornoLock, StornoRead, StornoWrite, Checking, TypeOK
      <3> QED
        BY <1>1, <1>2, <3>1 DEF FifoOwn, Checking
    <2> QED
      BY <2>1, <2>2, <2>3
  <1> QED
    BY <1>2, <1>3, <1>4, FifoPrivate

LEMMA FifoNext == IInv /\ FInv /\ [Next]_vars => FInv'
  <1> SUFFICES ASSUME IInv, FInv, [Next]_vars PROVE FInv'
    OBVIOUS
  <1>0. TypeOK
    BY DEF IInv
  <1>1. ASSUME NEW d \in Lot, NEW n \in 1 .. MaxSupply, AddStock(d, n)
        PROVE  FInv'
    <2>1. \A x \in Client : SameRequest(x) /\ fifo'[x] = fifo[x]
      BY <1>1 DEF AddStock, SameRequest
    <2>2. \A x \in Client : \A e \in held[x] : e # d
      BY <1>1 DEF AddStock, IInv, Own
    <2>3. \A x \in Client : \A e \in held[x] : stock'[e] = stock[e]
      BY <1>0, <1>1, <2>2 DEF AddStock, TypeOK
    <2> QED
      BY <2>1, <2>3, FifoStable DEF FInv
  <1>2. CASE UNCHANGED vars \/ \E S \in SUBSET Ids(orders) : InvoiceOrders(S)
    <2>1. UNCHANGED stock /\ \A x \in Client : SameRequest(x) /\ fifo'[x] = fifo[x]
      BY <1>2 DEF vars, InvoiceOrders, SameRequest
    <2> QED
      BY <2>1, FifoStable DEF FInv
  <1>3. ASSUME NEW c \in Client, Rollback(c) PROVE FInv'
    BY <1>3, FifoEnd DEF Rollback, tables
  <1>4. ASSUME NEW c \in Client, Commit(c) PROVE FInv'
    <2>1. \A d \in Requested(c) : d \in held[c]
      BY <1>4 DEF IInv, Own, Commit
    <2>2. End(c) /\ \A d \in Lot : stock'[d] # stock[d] => d \in held[c]
      BY <1>4, <2>1 DEF Commit
    <2> QED
      BY <2>2, FifoEnd
  <1>5. ASSUME NEW c \in Client, StornoCommit(c) PROVE FInv'
    <2>1. PICK d \in Requested(c) : stock' = [stock EXCEPT ![d] = seen[c][d]]
      BY <1>5 DEF StornoCommit
    <2>2. d \in held[c]
      BY <1>5, <2>1 DEF IInv, Own, StornoCommit
    <2>3. End(c) /\ \A e \in Lot : stock'[e] # stock[e] => e \in held[c]
      BY <1>0, <1>5, <2>1, <2>2 DEF StornoCommit, TypeOK
    <2> QED
      BY <2>3, FifoEnd
  <1>6. ASSUME NEW c \in Client, Step(c) PROVE FInv'
    BY <1>3, <1>4, <1>5, <1>6, FifoOkKept, FifoStockOkKept, FifoLockKept, FifoOtherKept
    DEF Step, PurchaseOutOfStock, BasketOutOfStock, BasketRefused, StornoGone, StornoRefused
  <1> QED
    BY <1>1, <1>2, <1>3, <1>6, FifoOtherKept DEF Next, Abort, DeadlockVictim

LEMMA FifoInductive == Spec => []FInv
  <1>1. Init => FInv
    BY DEF Init, FInv, FifoOwn, Checking
  <1> QED
    BY <1>1, FifoNext, Inductive, PTL DEF Spec

\* A basket takes a unit of a lot only when what it leaves of every older lot
\* of that product is nothing, also when it commits: the rows are locked from
\* the FIFO check on, and the storno that would put a unit back waits.
THEOREM BasketsAreFifo == Spec => BasketFifo
  <1>1. IInv /\ FInv /\ [Next]_vars =>
          [\A c \in Client : Commit(c) /\ fifo[c] # {} =>
             \A d \in Requested(c), e \in fifo[c] :
               ProductOf[d] = ProductOf[e] /\ e < d => stock'[e] = 0]_vars
    <2> SUFFICES ASSUME IInv, FInv, NEW c \in Client, Commit(c),
                        NEW d \in Requested(c), NEW e \in fifo[c],
                        ProductOf[d] = ProductOf[e], e < d
                 PROVE  stock'[e] = 0
      OBVIOUS
    <2>1. TypeOK /\ Own(c) /\ FifoOwn(c) /\ pc[c] = "commit"
      BY DEF IInv, FInv, Commit
    <2>2. e \in Lot /\ stock[e] = req[c][e] /\ stock[e] \in Int
      BY <2>1 DEF FifoOwn, TypeOK
    <2>3. stock'[e] = IF e \in Requested(c) THEN seen[c][e] ELSE stock[e]
      BY <2>2 DEF Commit
    <2>4. e \in Requested(c) => seen[c][e] = stock[e] - req[c][e]
      BY <2>1 DEF Own
    <2>5. e \notin Requested(c) => req[c][e] = 0
      BY <2>1, <2>2 DEF Requested, TypeOK
    <2> QED
      BY <2>2, <2>3, <2>4, <2>5
  <1> QED
    BY <1>1, FifoInductive, Inductive, PTL DEF Spec, BasketFifo

\* Whoever asks for the oldest units first is not refused by the FIFO check,
\* whatever others buy, cancel or bring meanwhile.
THEOREM OldestFirstIsAccepted == Spec => RefusedForAReason
  <1>1. IInv /\ FInv /\ [Next]_vars =>
          [\A c \in Client : BasketRefused(c) =>
             \E d \in Requested(c), e \in fifo[c] :
               ProductOf[d] = ProductOf[e] /\ e < d /\ req[c][e] < seen[c][e]]_vars
    BY FifoRefused
  <1> QED
    BY <1>1, FifoInductive, Inductive, PTL DEF Spec, RefusedForAReason

-----------------------------------------------------------------------------
(* Invoices: a storno that has passed its check holds the order row, so    *)
(* the order cannot be put on an invoice before the row is gone.           *)

Cancelling(c) == pc[c] \in {"stornoWrite", "stornoCommit"}

InvoiceInv ==
  /\ TypeOK /\ InvoicedKept
  /\ \A c \in Client : Cancelling(c) => MayStorno(victim[c])

\* Steps that neither cancel an order nor put one on an invoice.
LEMMA InvoiceFrame ==
  ASSUME InvoiceInv, TypeOK', invoiced' = invoiced, orders \subseteq orders',
         \A x \in Client : Cancelling(x)' =>
           (Cancelling(x) /\ victim'[x] = victim[x]) \/ MayStorno(victim'[x])
  PROVE  InvoiceInv'
  <1>1. InvoicedKept'
    BY DEF InvoiceInv, InvoicedKept, Ids
  <1>2. \A x \in Client : Cancelling(x)' => MayStorno(victim[x])'
    BY DEF InvoiceInv, MayStorno
  <1> QED
    BY <1>1, <1>2 DEF InvoiceInv

LEMMA InvoiceStep ==
  ASSUME InvoiceInv, TypeOK', NEW c \in Client, Step(c) \/ Rollback(c)
  PROVE  InvoiceInv'
  <1>1. TypeOK
    BY DEF InvoiceInv
  <1>2. ASSUME Rollback(c) PROVE InvoiceInv'
    BY <1>1, <1>2, InvoiceFrame DEF Rollback, End, Forget, tables, Cancelling, TypeOK
  <1>3. CASE StornoCommit(c)
    <2>1. Cancelling(c) /\ End(c) /\ UNCHANGED invoiced
      BY <1>3 DEF StornoCommit, Cancelling
    <2>2. MayStorno(victim[c]) /\ orders' = {o \in orders : o.id # victim[c]}
      BY <1>3, <2>1 DEF InvoiceInv, StornoCommit
    <2>3. InvoicedKept'
      BY <2>1, <2>2 DEF InvoiceInv, InvoicedKept, Ids, MayStorno
    <2>4. \A x \in Client : Cancelling(x)' => MayStorno(victim[x])'
      BY <1>1, <2>1 DEF InvoiceInv, End, Forget, Cancelling, MayStorno, TypeOK
    <2> QED
      BY <2>3, <2>4 DEF InvoiceInv
  <1>4. CASE Commit(c)
    BY <1>1, <1>4, InvoiceFrame DEF Commit, End, Forget, Cancelling, TypeOK
  <1>5. CASE StornoRead(c)
    BY <1>1, <1>5, InvoiceFrame DEF StornoRead, tables, Cancelling, TypeOK
  <1>6. CASE StornoWrite(c)
    BY <1>1, <1>6, InvoiceFrame DEF StornoWrite, tables, Cancelling, TypeOK
  <1>7. CASE \/ PurchaseLock(c) \/ PurchaseWrite(c)
             \/ \E d \in Lot : BasketLockRow(c, d)
             \/ BasketStockOk(c) \/ BasketFifoLock(c) \/ BasketFifoOk(c)
             \/ \E d \in Lot : BasketWrite(c, d)
             \/ StornoLock(c)
    <2>1. UNCHANGED <<orders, invoiced, victim>>
      BY <1>7 DEF PurchaseLock, PurchaseWrite, WriteLine, NewRow, BasketLockRow, BasketStockOk,
                  BasketFifoLock, BasketFifoOk, BasketWrite, StornoLock, tables
    <2>2. \A x \in Client : Cancelling(x)' => Cancelling(x)
      BY <1>1, <1>7 DEF PurchaseLock, PurchaseWrite, BasketLockRow, BasketStockOk,
                  BasketFifoLock, BasketFifoOk, BasketWrite, StornoLock, Cancelling, TypeOK
    <2> QED
      BY <2>1, <2>2, InvoiceFrame
  <1> QED
    BY <1>2, <1>3, <1>4, <1>5, <1>6, <1>7
    DEF Step, PurchaseOutOfStock, BasketOutOfStock, BasketRefused, StornoGone, StornoRefused

LEMMA InvoiceInductive == Spec => []InvoiceInv
  <1>1. Init => InvoiceInv
    <2>1. Init => InvoicedKept /\ \A c \in Client : ~Cancelling(c)
      BY DEF Init, InvoicedKept, Ids, Cancelling
    <2> QED
      BY <2>1, InitTyped DEF InvoiceInv
  <1>2. InvoiceInv /\ [Next]_vars => InvoiceInv'
    <2> SUFFICES ASSUME InvoiceInv, [Next]_vars PROVE InvoiceInv'
      OBVIOUS
    <2>1. TypeOK /\ TypeOK'
      BY NextTyped DEF InvoiceInv
    <2>2. ASSUME NEW S \in SUBSET Ids(orders), InvoiceOrders(S)
          PROVE  InvoiceInv'
      <3>1. \A x \in Client : Cancelling(x) => victim[x] \notin S
        BY <2>2 DEF InvoiceOrders, Cancelling
      <3> QED
        BY <2>1, <2>2, <3>1 DEF InvoiceOrders, InvoiceInv, InvoicedKept, Ids, Cancelling, MayStorno
    <2>3. ASSUME NEW d \in Lot, NEW n \in 1 .. MaxSupply, AddStock(d, n)
          PROVE  InvoiceInv'
      BY <2>1, <2>3, InvoiceFrame DEF AddStock, Cancelling
    <2>4. ASSUME NEW c \in Client,
                 \/ \E d \in Lot : PurchaseBegin(c, d)
                 \/ \E r \in Baskets : BasketBegin(c, r)
                 \/ \E i \in Ids(orders) : StornoBegin(c, i)
          PROVE  InvoiceInv'
      <3>1. UNCHANGED <<orders, invoiced>> /\ pc'[c] \notin {"stornoWrite", "stornoCommit"}
        BY <2>1, <2>4 DEF PurchaseBegin, BasketBegin, StornoBegin, Begin, tables, TypeOK
      <3>2. \A x \in Client \ {c} : pc'[x] = pc[x] /\ victim'[x] = victim[x]
        BY <2>1, <2>4 DEF PurchaseBegin, BasketBegin, StornoBegin, Begin, TypeOK
      <3> QED
        BY <2>1, <3>1, <3>2, InvoiceFrame DEF Cancelling
    <2>5. CASE UNCHANGED vars
      BY <2>1, <2>5, InvoiceFrame DEF vars, Cancelling
    <2> QED
      BY <2>1, <2>2, <2>3, <2>4, <2>5, InvoiceStep DEF Next, Abort, DeadlockVictim
  <1> QED
    BY <1>1, <1>2, PTL DEF Spec

\* A cancelled order is never one that is, or is being put, on an invoice.
THEOREM InvoicedOrdersKept == Spec => []InvoicedKept
  <1>1. InvoiceInv => InvoicedKept
    BY DEF InvoiceInv
  <1> QED
    BY <1>1, InvoiceInductive, PTL

-----------------------------------------------------------------------------
\* A step of the transaction of c is no step of anybody else.
LEMMA StepAlone ==
  ASSUME TypeOK, NEW c \in Client, Step(c) \/ Rollback(c)
  PROVE  \A x \in Client \ {c} :
           pc'[x] = pc[x] /\ held'[x] = held[x] /\ made'[x] = made[x] /\ victim'[x] = victim[x]
  <1>1. ASSUME End(c) PROVE \A x \in Client \ {c} :
           pc'[x] = pc[x] /\ held'[x] = held[x] /\ made'[x] = made[x] /\ victim'[x] = victim[x]
    BY <1>1 DEF End, Forget, TypeOK
  <1>2. CASE \/ PurchaseLock(c) \/ \E d \in Lot : BasketLockRow(c, d)
             \/ BasketFifoLock(c) \/ StornoWrite(c)
    BY <1>2 DEF PurchaseLock, BasketLockRow, BasketFifoLock, StornoWrite, LockRow, TypeOK
  <1>3. CASE PurchaseWrite(c) \/ \E d \in Lot : BasketWrite(c, d)
    BY <1>3 DEF PurchaseWrite, BasketWrite, WriteLine, TypeOK
  <1>4. CASE BasketStockOk(c) \/ BasketFifoOk(c) \/ StornoLock(c) \/ StornoRead(c)
    BY <1>4 DEF BasketStockOk, BasketFifoOk, StornoLock, StornoRead, TypeOK
  <1> QED
    BY <1>1, <1>2, <1>3, <1>4
    DEF Step, Rollback, PurchaseOutOfStock, BasketOutOfStock, BasketRefused, Commit,
        StornoGone, StornoRefused, StornoCommit

-----------------------------------------------------------------------------
(* Deadlock: whoever waits is at one of four statements, and only a basket *)
(* holds row locks at one of them.                                         *)

Active == {c \in Client : pc[c] # "idle"}

\* A request that waits for a delivery row is at one of these.
AtLocks == {"purchaseLock", "basketLock", "basketFifo", "stornoWrite"}
IsBasket(c) == pc[c] \in {"basketLock", "basketFifo"}

LEMMA WantsAtLocks ==
  ASSUME NEW c \in Client, Wants(c) # {}
  PROVE  pc[c] \in AtLocks
  BY DEF Wants, AtLocks

\* In a circle, whoever is waited for is a basket, or leads on to one.
LEMMA HolderIsBasket ==
  ASSUME IInv, NEW c \in Client, NEW y \in Client, NEW z \in Client,
         Wants(c) \intersect held[y] # {}, WaitsFor(y, z)
  PROVE  IsBasket(y)
  <1>1. held[y] # {} /\ pc[y] \notin Before1st
    BY DEF IInv, Own
  <1>2. pc[y] \in AtLocks
    BY <1>1, WantsAtLocks DEF WaitsFor, Before1st
  <1> QED
    BY <1>1, <1>2 DEF AtLocks, Before1st, IsBasket

LEMMA CycleHasTwoBaskets ==
  ASSUME IInv, NEW S \in SUBSET Client, WaitCycle(S)
  PROVE  \E y, z \in S : y # z /\ IsBasket(y) /\ IsBasket(z)
  <1>1. \A c \in S : c \in Client /\ \E x \in S : WaitsFor(c, x)
    BY DEF WaitCycle
  <1>2. ASSUME NEW c \in S, Wants(c) # {}
        PROVE  \E y \in S : y # c /\ IsBasket(y)
    <2>1. PICK y \in S : WaitsFor(c, y)
      BY <1>1
    <2>2. y # c /\ Wants(c) \intersect held[y] # {}
      <3>1. pc[c] # "stornoLock"
        BY <1>1, <1>2, WantsAtLocks DEF AtLocks
      <3> QED
        BY <2>1, <3>1 DEF WaitsFor
    <2>3. PICK z \in S : WaitsFor(y, z)
      BY <1>1
    <2>4. IsBasket(y)
      BY <1>1, <2>2, <2>3, HolderIsBasket
    <2> QED
      BY <2>2, <2>4
  <1>3. PICK c \in S : TRUE
    BY DEF WaitCycle
  <1>4. \E d \in S : Wants(d) # {}
    <2>1. PICK x \in S : WaitsFor(c, x)
      BY <1>1
    <2>2. PICK z \in S : WaitsFor(x, z)
      BY <1>1
    <2>3. CASE Wants(c) # {}
      BY <2>3
    <2>4. CASE Wants(c) = {}
      <3>1. pc[x] # "stornoLock"
        BY <2>1, <2>4 DEF WaitsFor
      <3>2. Wants(x) # {}
        BY <2>2, <3>1 DEF WaitsFor
      <3> QED
        BY <3>2
    <2> QED
      BY <2>3, <2>4
  <1>5. PICK y \in S : IsBasket(y)
    BY <1>2, <1>4
  <1>6. PICK x \in S : WaitsFor(y, x)
    BY <1>1
  <1>7. Wants(y) # {}
    BY <1>5, <1>6 DEF WaitsFor, IsBasket
  <1> QED
    BY <1>2, <1>5, <1>7

\* One step begins at most one request.
LEMMA ActiveGrows ==
  ASSUME TypeOK, [Next]_vars
  PROVE  \E c : Active' \subseteq Active \union {c}
  <1>1. ASSUME NEW c \in Client, \A x \in Client \ {c} : pc'[x] = pc[x]
        PROVE  Active' \subseteq Active \union {c}
    BY <1>1 DEF Active
  <1>2. ASSUME NEW c \in Client,
               \/ \E d \in Lot : PurchaseBegin(c, d)
               \/ \E r \in Baskets : BasketBegin(c, r)
               \/ \E i \in Ids(orders) : StornoBegin(c, i)
        PROVE  \A x \in Client \ {c} : pc'[x] = pc[x]
    BY <1>2 DEF PurchaseBegin, BasketBegin, StornoBegin, Begin, TypeOK
  <1>3. ASSUME NEW c \in Client, Step(c) \/ Rollback(c)
        PROVE  \A x \in Client \ {c} : pc'[x] = pc[x]
    BY <1>3, StepAlone
  <1>4. CASE UNCHANGED pc
    BY <1>4 DEF Active
  <1> QED
    BY <1>1, <1>2, <1>3, <1>4
    DEF Next, Abort, DeadlockVictim, AddStock, InvoiceOrders, vars

LEMMA ActiveFinite == Spec => []IsFiniteSet(Active)
  <1>1. Init => IsFiniteSet(Active)
    <2>1. Init => Active = {}
      BY DEF Init, Active
    <2> QED
      BY <2>1, FS_EmptySet
  <1>2. TypeOK /\ IsFiniteSet(Active) /\ [Next]_vars => IsFiniteSet(Active)'
    <2> SUFFICES ASSUME TypeOK, IsFiniteSet(Active), [Next]_vars
                 PROVE  IsFiniteSet(Active')
      OBVIOUS
    <2>1. PICK c : Active' \subseteq Active \union {c}
      BY ActiveGrows
    <2>2. IsFiniteSet(Active \union {c})
      BY FS_AddElement
    <2> QED
      BY <2>1, <2>2, FS_Subset
  <1> QED
    BY <1>1, <1>2, TypeCorrect, PTL DEF Spec

\* Every circle of waiting requests has two baskets in it, however many
\* purchases and stornos wait with them.
THEOREM DeadlocksAreBaskets == Spec => []OnlyBasketsDeadlock
  <1>1. IInv /\ IsFiniteSet(Active) => OnlyBasketsDeadlock
    <2> SUFFICES ASSUME IInv, IsFiniteSet(Active), NEW S \in SUBSET Client, WaitCycle(S)
                 PROVE  Cardinality({c \in S : IsBasket(c)}) >= 2
      BY DEF OnlyBasketsDeadlock, IsBasket
    <2> DEFINE B == {c \in S : IsBasket(c)}
    <2>1. PICK y, z \in S : y # z /\ IsBasket(y) /\ IsBasket(z)
      BY CycleHasTwoBaskets
    <2>2. IsFiniteSet(B)
      <3>1. B \subseteq Active
        BY DEF Active, IsBasket
      <3> QED
        BY <3>1, FS_Subset
    <2>3. IsFiniteSet({y}) /\ Cardinality({y}) = 1
      BY FS_Singleton
    <2>4. Cardinality({y} \union {z}) = 2 /\ IsFiniteSet({y} \union {z})
      <3>1. z \notin {y}
        BY <2>1
      <3> DEFINE Y == {y}
      <3> HIDE DEF Y
      <3>2. IsFiniteSet(Y \union {z}) /\ Cardinality(Y \union {z}) = 2
        BY <2>3, <3>1, FS_AddElement DEF Y
      <3> QED
        BY <3>2 DEF Y
    <2>5. {y} \union {z} \subseteq B
      BY <2>1
    <2>6. Cardinality({y} \union {z}) <= Cardinality(B)
      BY <2>2, <2>5, FS_Subset
    <2>7. Cardinality(B) \in Nat
      BY <2>2, FS_CardinalityType
    <2> HIDE DEF B
    <2>8. Cardinality(B) >= 2
      BY <2>4, <2>6, <2>7
    <2> QED
      BY <2>8 DEF B
  <1> QED
    BY <1>1, Inductive, ActiveFinite, PTL

-----------------------------------------------------------------------------
(* Counting order rows. *)

OfLot(S, d) == {o \in S : o.lot = d}

LEMMA CountUnion ==
  ASSUME NEW S, NEW R, IsFiniteSet(S), IsFiniteSet(R), S \intersect R = {}, NEW d
  PROVE  /\ IsFiniteSet(S \union R)
         /\ Cardinality(OfLot(S \union R, d)) =
              Cardinality(OfLot(S, d)) + Cardinality(OfLot(R, d))
         /\ Cardinality(OfLot(S, d)) \in Nat /\ Cardinality(OfLot(R, d)) \in Nat
  <1>1. OfLot(S, d) \in SUBSET S /\ OfLot(R, d) \in SUBSET R
    BY DEF OfLot
  <1>2. IsFiniteSet(OfLot(S, d)) /\ IsFiniteSet(OfLot(R, d))
    BY <1>1, FS_Subset
  <1>3. OfLot(S, d) \intersect OfLot(R, d) = {}
    BY DEF OfLot
  <1>4. OfLot(S \union R, d) = OfLot(S, d) \union OfLot(R, d)
    BY DEF OfLot
  <1>5. /\ Cardinality(OfLot(S, d)) \in Nat /\ Cardinality(OfLot(R, d)) \in Nat
        /\ Cardinality({}) = 0
    BY <1>2, FS_CardinalityType, FS_EmptySet
  <1>6. Cardinality(OfLot(S, d) \union OfLot(R, d)) =
          Cardinality(OfLot(S, d)) + Cardinality(OfLot(R, d))
    <2> DEFINE A == OfLot(S, d)
               B == OfLot(R, d)
    <2>1. Cardinality(A \union B) = Cardinality(A) + Cardinality(B) - Cardinality(A \intersect B)
      BY <1>2, FS_Union
    <2>2. Cardinality(A \intersect B) = 0
      BY <1>3, <1>5
    <2>3. Cardinality(A) \in Nat /\ Cardinality(B) \in Nat
      BY <1>5
    <2> HIDE DEF A, B
    <2>4. Cardinality(A \union B) = Cardinality(A) + Cardinality(B)
      BY <2>1, <2>2, <2>3
    <2> QED
      BY <2>4 DEF A, B
  <1>7. IsFiniteSet(S \union R)
    BY FS_Union
  <1>8. Cardinality(OfLot(S \union R, d)) =
          Cardinality(OfLot(S, d)) + Cardinality(OfLot(R, d))
    BY <1>4, <1>6
  <1> QED
    BY <1>5, <1>7, <1>8

\* The order rows of one line: q rows of delivery d, with ids from n.
Line(n, q, d) == {[id |-> i, lot |-> d] : i \in n .. n + q - 1}

LEMMA CountLine ==
  ASSUME NEW n \in Nat, NEW q \in Nat, NEW d
  PROVE  /\ IsFiniteSet(Line(n, q, d))
         /\ Cardinality(OfLot(Line(n, q, d), d)) = q
         /\ \A e : e # d => OfLot(Line(n, q, d), e) = {}
  <1> DEFINE I == n .. n + q - 1
             R == {[id |-> i, lot |-> d] : i \in I}
             f == [i \in I |-> [id |-> i, lot |-> d]]
  <1>1. f \in Bijection(I, R)
    <2>1. f \in [I -> R]
      OBVIOUS
    <2>2. \A i, j \in I : f[i] = f[j] => i = j
      <3> SUFFICES ASSUME NEW i \in I, NEW j \in I, f[i] = f[j] PROVE i = j
        OBVIOUS
      <3>1. f[i].id = i /\ f[j].id = j
        OBVIOUS
      <3> QED
        BY <3>1
    <2>3. \A r \in R : \E i \in I : f[i] = r
      OBVIOUS
    <2> HIDE DEF f, I, R
    <2> QED
      BY <2>1, <2>2, <2>3 DEF Bijection, Injection, Surjection, IsInjective
  <1>2. IsFiniteSet(I) /\ Cardinality(I) = q
    BY FS_Interval
  <1>3. IsFiniteSet(R) /\ Cardinality(R) = q
    <2>1. ExistsBijection(I, R)
      BY <1>1 DEF ExistsBijection
    <2> HIDE DEF I, R
    <2> QED
      BY <1>2, <2>1, FS_Bijection
  <1>4. OfLot(R, d) = R /\ \A e : e # d => OfLot(R, e) = {}
    BY DEF OfLot
  <1> QED
    BY <1>3, <1>4 DEF Line

\* Taking one row out.
LEMMA CountRemove ==
  ASSUME NEW S, IsFiniteSet(S), NEW r \in S, NEW d
  PROVE  /\ IsFiniteSet(S \ {r})
         /\ Cardinality(OfLot(S \ {r}, d)) =
              IF r.lot = d THEN Cardinality(OfLot(S, d)) - 1
                           ELSE Cardinality(OfLot(S, d))
         /\ Cardinality(OfLot(S, d)) \in Nat
         /\ r.lot = d => Cardinality(OfLot(S, d)) > 0
  <1>1. OfLot(S, d) \in SUBSET S
    BY DEF OfLot
  <1>2. IsFiniteSet(OfLot(S, d))
    BY <1>1, FS_Subset
  <1>3. OfLot(S \ {r}, d) = OfLot(S, d) \ {r} /\ (r \in OfLot(S, d) <=> r.lot = d)
    BY DEF OfLot
  <1>4. Cardinality(OfLot(S, d)) \in Nat
    BY <1>2, FS_CardinalityType
  <1>5. r.lot = d => Cardinality(OfLot(S, d)) > 0
    BY <1>2, <1>3, <1>4, FS_EmptySet
  <1> QED
    BY <1>2, <1>3, <1>4, <1>5, FS_RemoveElement

-----------------------------------------------------------------------------
(* Order rows: their ids, how many of them a transaction has inserted, and *)
(* which of them a storno holds.                                           *)

\* No two order rows, committed or not, have the same id.
FreshIds ==
  /\ \A o \in orders : o.id < nextId
  /\ \A c \in Client : \A o \in made[c] : o.id < nextId
  /\ \A o, p \in orders : o.id = p.id => o = p
  /\ \A c \in Client : \A o \in made[c], p \in orders : o.id # p.id
  /\ \A c \in Client : \A o, p \in made[c] : o.id = p.id => o = p
  /\ \A c, x \in Client : c # x => \A o \in made[c], p \in made[x] : o.id # p.id

FiniteRows == IsFiniteSet(orders) /\ \A c \in Client : IsFiniteSet(made[c])

\* The units of delivery d for which the transaction of c has inserted rows.
Inserted(c, d) ==
  IF pc[c] = "commit" \/ (pc[c] = "basketWrite" /\ d \notin todo[c])
    THEN req[c][d] ELSE 0

MadeCount ==
  \A c \in Client, d \in Lot : Cardinality(OfLot(made[c], d)) = Inserted(c, d)

\* What a storno knows of the order it has locked.
StornoKnows(c) ==
  /\ pc[c] \in Stornoing => victim[c] \in Ids(orders)
  /\ pc[c] \in {"stornoWrite", "stornoCommit"} =>
       \E o \in orders : o.id = victim[c] /\ Requested(c) = {o.lot}

OrderLocks ==
  \A c, x \in Client :
    c # x /\ pc[c] \in Stornoing /\ pc[x] \in Stornoing => victim[c] # victim[x]

CInv ==
  /\ IInv
  /\ FreshIds /\ FiniteRows /\ MadeCount
  /\ \A c \in Client : StornoKnows(c)
  /\ OrderLocks

-----------------------------------------------------------------------------
SameStorno(x) == SameRequest(x) /\ victim'[x] = victim[x]

LEMMA SoldCount == \A d \in Lot : Sold(d) = Cardinality(OfLot(orders, d))
  BY DEF Sold, OfLot

\* The rows other requests have inserted do not change with a step of c.
LEMMA OthersCount ==
  ASSUME MadeCount, NEW x \in Client, SameRequest(x)
  PROVE  \A d \in Lot : Cardinality(OfLot(made'[x], d)) = Inserted(x, d)'
  BY DEF MadeCount, SameRequest, Inserted

LEMMA OthersStorno ==
  ASSUME NEW x \in Client, StornoKnows(x), SameStorno(x), orders \subseteq orders'
  PROVE  StornoKnows(x)'
  <1>1. Requested(x)' = Requested(x)
    BY DEF SameStorno, SameRequest, Requested
  <1> QED
    BY <1>1 DEF StornoKnows, SameStorno, SameRequest, Ids

\* A step of c that changes no order row and inserts none.
LEMMA CountedStep ==
  ASSUME CInv, IInv', NEW c \in Client,
         UNCHANGED <<orders, nextId, made>>,
         \A x \in Client \ {c} : SameStorno(x),
         \A d \in Lot : Inserted(c, d)' = Inserted(c, d),
         StornoKnows(c)', OrderLocks'
  PROVE  CInv'
  <1>1. FreshIds' /\ FiniteRows'
    BY DEF CInv, FreshIds, FiniteRows
  <1>2. MadeCount'
    <2> SUFFICES ASSUME NEW x \in Client, NEW d \in Lot
                 PROVE  Cardinality(OfLot(made'[x], d)) = Inserted(x, d)'
      BY DEF MadeCount, OfLot
    <2>1. CASE x = c
      BY <2>1 DEF CInv, MadeCount
    <2>2. CASE x # c
      BY <2>2, OthersCount DEF CInv, SameStorno
    <2> QED
      BY <2>1, <2>2
  <1>3. \A x \in Client : StornoKnows(x)'
    BY OthersStorno DEF CInv
  <1> QED
    BY <1>1, <1>2, <1>3 DEF CInv

\* The steps of c that neither insert a row nor lock an order.
LEMMA ReadingStep ==
  ASSUME CInv, IInv', NEW c \in Client,
         pc[c] \notin Stornoing, pc'[c] \notin Stornoing,
         UNCHANGED <<orders, nextId, made>>,
         \A x \in Client \ {c} : SameStorno(x),
         \A d \in Lot : Inserted(c, d)' = Inserted(c, d)
  PROVE  CInv'
  <1>1. StornoKnows(c)'
    BY DEF StornoKnows, Stornoing
  <1>2. OrderLocks'
    BY DEF CInv, OrderLocks, SameStorno, SameRequest
  <1> QED
    BY <1>1, <1>2, CountedStep

\* The steps that touch nothing but deliveries and invoices.
LEMMA FrameCounted ==
  ASSUME CInv, IInv',
         UNCHANGED <<orders, nextId, pc, req, held, seen, todo, made, victim>>
  PROVE  CInv'
  <1>1. \A x \in Client : SameStorno(x) /\ StornoKnows(x)'
    BY OthersStorno DEF CInv, SameStorno, SameRequest
  <1>2. FreshIds' /\ FiniteRows' /\ OrderLocks'
    BY DEF CInv, FreshIds, FiniteRows, OrderLocks
  <1>3. MadeCount'
    BY DEF CInv, MadeCount, Inserted
  <1> QED
    BY <1>1, <1>2, <1>3 DEF CInv

\* What the end of the transaction of c leaves of c.
LEMMA EndedRequest ==
  ASSUME TypeOK, NEW c \in Client, End(c)
  PROVE  /\ pc'[c] = "idle" /\ made'[c] = {}
         /\ \A x \in Client \ {c} : SameStorno(x)
         /\ StornoKnows(c)'
         /\ \A d \in Lot : Cardinality(OfLot(made'[c], d)) = Inserted(c, d)'
  <1>1. pc'[c] = "idle" /\ made'[c] = {}
    BY DEF End, Forget, TypeOK
  <1>2. \A x \in Client \ {c} : SameStorno(x)
    BY EndOthers DEF End, Forget, SameStorno, TypeOK
  <1>3. StornoKnows(c)'
    BY <1>1 DEF StornoKnows, Stornoing
  <1>4. ASSUME NEW d \in Lot PROVE Cardinality(OfLot(made'[c], d)) = Inserted(c, d)'
    <2>1. OfLot(made'[c], d) = {}
      BY <1>1 DEF OfLot
    <2> QED
      BY <1>1, <2>1, FS_EmptySet DEF Inserted
  <1> QED
    BY <1>1, <1>2, <1>3, <1>4

\* The end of a transaction, whatever it wrote: what is left to show is what
\* it did to the order rows.
LEMMA EndCounted ==
  ASSUME CInv, IInv', NEW c \in Client, End(c),
         nextId' = nextId, IsFiniteSet(orders'),
         orders' \subseteq orders \union made[c],
         \A x \in Client \ {c} : StornoKnows(x)'
  PROVE  CInv'
  <1>1. TypeOK
    BY DEF CInv, IInv
  <1>2. /\ pc'[c] = "idle" /\ made'[c] = {} /\ StornoKnows(c)'
        /\ \A x \in Client \ {c} : SameStorno(x)
    BY <1>1, EndedRequest
  <1>3. FreshIds'
    BY <1>2 DEF CInv, FreshIds, SameStorno, SameRequest
  <1>4. FiniteRows'
    BY <1>2, FS_EmptySet DEF CInv, FiniteRows, SameStorno, SameRequest
  <1>5. OrderLocks'
    BY <1>2 DEF CInv, OrderLocks, Stornoing, SameStorno, SameRequest
  <1>6. MadeCount'
    <2> SUFFICES ASSUME NEW x \in Client, NEW d \in Lot
                 PROVE  Cardinality(OfLot(made'[x], d)) = Inserted(x, d)'
      BY DEF MadeCount, OfLot
    <2>1. CASE x = c
      BY <1>1, <2>1, EndedRequest
    <2>2. CASE x # c
      BY <1>2, <2>2, OthersCount DEF CInv, SameStorno
    <2> QED
      BY <2>1, <2>2
  <1> QED
    BY <1>2, <1>3, <1>4, <1>5, <1>6 DEF CInv

LEMMA RollbackCounted ==
  ASSUME CInv, IInv', NEW c \in Client, Rollback(c)
  PROVE  CInv'
  <1>1. TypeOK /\ End(c) /\ UNCHANGED <<orders, nextId>>
    BY DEF CInv, IInv, Rollback, tables
  <1>2. IsFiniteSet(orders')
    BY <1>1 DEF CInv, FiniteRows
  <1>3. \A x \in Client \ {c} : StornoKnows(x)'
    BY <1>1, EndedRequest, OthersStorno DEF CInv
  <1> QED
    BY <1>1, <1>2, <1>3, EndCounted

-----------------------------------------------------------------------------
(* The steps that insert no row. *)

LEMMA BeginCounted ==
  ASSUME CInv, IInv', NEW c \in Client,
         \/ \E d \in Lot : PurchaseBegin(c, d)
         \/ \E r \in Baskets : BasketBegin(c, r)
         \/ \E i \in Ids(orders) : StornoBegin(c, i)
  PROVE  CInv'
  <1>1. TypeOK /\ pc[c] = "idle"
    BY DEF CInv, IInv, PurchaseBegin, BasketBegin, StornoBegin, Begin
  <1>2. /\ UNCHANGED <<orders, nextId, held, seen, made>>
        /\ pc'[c] \in {"purchaseLock", "basketLock", "stornoLock"}
    BY <1>1 DEF PurchaseBegin, BasketBegin, StornoBegin, Begin, tables, TypeOK
  <1>3. \A x \in Client \ {c} : SameStorno(x)
    BY <1>1 DEF PurchaseBegin, BasketBegin, StornoBegin, Begin, SameStorno,
               SameRequest, TypeOK
  <1>4. \A d \in Lot : Inserted(c, d)' = Inserted(c, d)
    BY <1>1, <1>2 DEF Inserted
  <1> QED
    BY <1>1, <1>2, <1>3, <1>4, ReadingStep DEF Stornoing

LEMMA LockingCounted ==
  ASSUME CInv, IInv', NEW c \in Client,
         \/ PurchaseLock(c)
         \/ \E d \in Lot : BasketLockRow(c, d)
         \/ BasketStockOk(c)
         \/ BasketFifoLock(c)
         \/ BasketFifoOk(c)
  PROVE  CInv'
  <1>1. TypeOK /\ pc[c] \in {"purchaseLock", "basketLock", "basketFifo"}
    BY DEF CInv, IInv, PurchaseLock, BasketLockRow, BasketStockOk, BasketFifoLock, BasketFifoOk
  <1>2. /\ UNCHANGED <<orders, nextId, req, made>>
        /\ pc'[c] \in {"purchaseWrite", "basketLock", "basketFifo", "basketWrite"}
    BY <1>1 DEF PurchaseLock, BasketLockRow, BasketStockOk, BasketFifoLock, BasketFifoOk,
               tables, TypeOK
  <1>3. \A x \in Client \ {c} : SameStorno(x)
    BY <1>1 DEF PurchaseLock, BasketLockRow, BasketStockOk, BasketFifoLock, BasketFifoOk,
               LockRow, SameStorno, SameRequest, TypeOK
  <1>4. pc'[c] = "basketWrite" => todo'[c] = Requested(c)
    BY <1>1 DEF PurchaseLock, BasketLockRow, BasketStockOk, BasketFifoLock, BasketFifoOk, TypeOK
  <1>5. \A d \in Lot : Inserted(c, d)' = Inserted(c, d)
    BY <1>1, <1>2, <1>4 DEF Inserted, Requested, TypeOK
  <1> QED
    BY <1>1, <1>2, <1>3, <1>5, ReadingStep DEF Stornoing

LEMMA StornoLockCounted ==
  ASSUME CInv, IInv', NEW c \in Client, StornoLock(c)
  PROVE  CInv'
  <1>1. TypeOK /\ pc[c] = "stornoLock" /\ victim[c] \in Ids(orders) /\ OrderFree(c, victim[c])
    BY DEF CInv, IInv, StornoLock
  <1>2. /\ UNCHANGED <<tables, req, held, seen, todo, made, victim>>
        /\ pc' = [pc EXCEPT ![c] = "stornoRead"]
    BY DEF StornoLock
  <1>3. pc'[c] = "stornoRead" /\ UNCHANGED <<orders, nextId, made>>
    BY <1>1, <1>2 DEF TypeOK, tables
  <1>4. \A x \in Client \ {c} : SameStorno(x)
    BY <1>1, <1>2 DEF SameStorno, SameRequest, TypeOK
  <1>5. StornoKnows(c)'
    BY <1>1, <1>2, <1>3 DEF StornoKnows, Ids
  <1>6. OrderLocks'
    BY <1>1, <1>2, <1>4 DEF CInv, OrderLocks, OrderFree, Stornoing, SameStorno, SameRequest
  <1>7. \A d \in Lot : Inserted(c, d)' = Inserted(c, d)
    BY <1>1, <1>3 DEF Inserted
  <1> QED
    BY <1>3, <1>4, <1>5, <1>6, <1>7, CountedStep

\* The two statements of a storno between its lock and its commit.
LEMMA StornoStepCounted ==
  ASSUME CInv, IInv', NEW c \in Client,
         pc[c] \in Stornoing, pc'[c] \in Stornoing,
         UNCHANGED <<tables, todo, made, victim>>,
         \A x \in Client \ {c} : SameStorno(x),
         StornoKnows(c)'
  PROVE  CInv'
  <1>1. OrderLocks'
    BY DEF CInv, OrderLocks, SameStorno, SameRequest
  <1>2. \A d \in Lot : Inserted(c, d)' = Inserted(c, d)
    BY DEF Inserted, Stornoing
  <1> QED
    BY <1>1, <1>2, CountedStep DEF tables

LEMMA StornoReadCounted ==
  ASSUME CInv, IInv', NEW c \in Client, StornoRead(c)
  PROVE  CInv'
  <1>1. TypeOK /\ Own(c) /\ pc[c] = "stornoRead" /\ StornoKnows(c)
    BY DEF CInv, IInv, StornoRead
  <1>2. PICK o \in orders :
          /\ o.id = victim[c]
          /\ req' = [req EXCEPT ![c][o.lot] = 1]
          /\ seen' = [seen EXCEPT ![c][o.lot] = stock[o.lot]]
    BY DEF StornoRead
  <1>3. /\ UNCHANGED <<tables, held, todo, made, victim>>
        /\ pc' = [pc EXCEPT ![c] = "stornoWrite"]
    BY DEF StornoRead
  <1>4. o.lot \in Lot /\ req[c] = None /\ pc'[c] = "stornoWrite" /\ orders' = orders
    BY <1>1, <1>3, OrderTyped DEF Own, TypeOK, tables
  <1>5. Requested(c)' = {o.lot}
    BY <1>1, <1>2, <1>4 DEF Requested, None, TypeOK
  <1>6. \A x \in Client \ {c} : SameStorno(x)
    BY <1>1, <1>2, <1>3 DEF SameStorno, SameRequest, TypeOK
  <1>7. StornoKnows(c)'
    BY <1>1, <1>2, <1>3, <1>4, <1>5 DEF StornoKnows, Ids, Stornoing
  <1> QED
    BY <1>1, <1>3, <1>4, <1>6, <1>7, StornoStepCounted DEF Stornoing

LEMMA StornoWriteCounted ==
  ASSUME CInv, IInv', NEW c \in Client, StornoWrite(c)
  PROVE  CInv'
  <1>1. TypeOK /\ Own(c) /\ pc[c] = "stornoWrite" /\ StornoKnows(c)
    BY DEF CInv, IInv, StornoWrite
  <1>2. PICK d \in Requested(c) : seen' = [seen EXCEPT ![c][d] = @ + 1]
    BY DEF StornoWrite
  <1>3. /\ UNCHANGED <<tables, req, todo, made, victim>>
        /\ pc' = [pc EXCEPT ![c] = "stornoCommit"]
    BY DEF StornoWrite
  <1>4. /\ d \in Lot /\ Requested(c) = {d} /\ Requested(c)' = {d}
        /\ pc'[c] = "stornoCommit" /\ orders' = orders
    BY <1>1, <1>3 DEF Own, Requested, TypeOK, tables
  <1>6. \A x \in Client \ {c} : SameStorno(x)
    BY <1>1, <1>2, <1>3 DEF SameStorno, SameRequest, TypeOK, StornoWrite
  <1>7. StornoKnows(c)'
    BY <1>1, <1>3, <1>4 DEF StornoKnows, Ids, Stornoing
  <1> QED
    BY <1>1, <1>3, <1>4, <1>6, <1>7, StornoStepCounted DEF Stornoing

-----------------------------------------------------------------------------
(* The steps that insert or delete rows. *)

\* The order rows of one line get ids that no other row has.
LEMMA LineCounted ==
  ASSUME CInv, IInv', NEW c \in Client, NEW d \in Lot,
         WriteLine(c, d), req' = req,
         pc[c] \notin Stornoing, pc'[c] \notin Stornoing,
         \A x \in Client \ {c} : SameStorno(x),
         Inserted(c, d) = 0, Inserted(c, d)' = req[c][d],
         \A e \in Lot \ {d} : Inserted(c, e)' = Inserted(c, e)
  PROVE  CInv'
  <1> DEFINE q == req[c][d]
             R == Line(nextId, q, d)
  <1>1. TypeOK /\ q \in Nat /\ nextId \in Nat
    BY DEF CInv, IInv, TypeOK
  <1>2. /\ UNCHANGED <<supplied, stock, orders>> /\ nextId' = nextId + q
        /\ made'[c] = made[c] \union R
    BY <1>1 DEF WriteLine, NewRow, Line, TypeOK
  <1>3. /\ \A o \in R : o.id >= nextId /\ o.id < nextId + q /\ o.lot = d
        /\ \A o, p \in R : o.id = p.id => o = p
    BY <1>1 DEF Line
  <1>4. /\ \A x \in Client \ {c} : made'[x] = made[x] /\ victim'[x] = victim[x]
        /\ \A x \in Client \ {c} : StornoKnows(x)'
    BY <1>2, OthersStorno DEF SameStorno, SameRequest, CInv
  <1>5. IsFiniteSet(R) /\ Cardinality(OfLot(R, d)) = q /\ \A e : e # d => OfLot(R, e) = {}
    BY <1>1, CountLine
  <1>6. /\ \A o \in orders : o.id \in Nat /\ o.id < nextId
        /\ \A x \in Client : \A o \in made[x] : o.id \in Nat /\ o.id < nextId
    BY <1>1 DEF CInv, FreshIds, TypeOK, Order
  <1> HIDE DEF R, q
  <1>7. FreshIds'
    <2>1. \A o \in orders' : o.id < nextId'
      BY <1>1, <1>2, <1>6
    <2>2. \A x \in Client : \A o \in made'[x] : o.id < nextId'
      BY <1>1, <1>2, <1>3, <1>4, <1>6
    <2>3. \A x \in Client : \A o \in made'[x], p \in orders' : o.id # p.id
      BY <1>1, <1>2, <1>3, <1>4, <1>6 DEF CInv, FreshIds
    <2>4. \A x \in Client : \A o, p \in made'[x] : o.id = p.id => o = p
      BY <1>1, <1>2, <1>3, <1>4, <1>6 DEF CInv, FreshIds
    <2>5. \A x, y \in Client : x # y => \A o \in made'[x], p \in made'[y] : o.id # p.id
      BY <1>1, <1>2, <1>3, <1>4, <1>6 DEF CInv, FreshIds
    <2>6. \A o, p \in orders' : o.id = p.id => o = p
      BY <1>2 DEF CInv, FreshIds
    <2> QED
      BY <2>1, <2>2, <2>3, <2>4, <2>5, <2>6 DEF FreshIds
  <1>8. /\ IsFiniteSet(made[c]) /\ made[c] \intersect R = {}
    BY <1>1, <1>3, <1>6 DEF CInv, FiniteRows
  <1>9. ASSUME NEW e \in Lot
        PROVE  /\ IsFiniteSet(made'[c])
               /\ Cardinality(OfLot(made'[c], e)) = Inserted(c, e)'
    <2>1. /\ IsFiniteSet(made'[c])
          /\ Cardinality(OfLot(made'[c], e)) =
               Cardinality(OfLot(made[c], e)) + Cardinality(OfLot(R, e))
      <3>1. /\ IsFiniteSet(made[c] \union R)
            /\ Cardinality(OfLot(made[c] \union R, e)) =
                 Cardinality(OfLot(made[c], e)) + Cardinality(OfLot(R, e))
        <4> DEFINE M == made[c]
        <4>1. IsFiniteSet(M) /\ IsFiniteSet(R) /\ M \intersect R = {}
          BY <1>5, <1>8
        <4> HIDE DEF M
        <4>2. /\ IsFiniteSet(M \union R)
              /\ Cardinality(OfLot(M \union R, e)) =
                   Cardinality(OfLot(M, e)) + Cardinality(OfLot(R, e))
          BY <4>1, CountUnion
        <4> QED
          BY <4>2 DEF M
      <3> QED
        BY <1>2, <3>1
    <2>2. Cardinality(OfLot(made[c], e)) = Inserted(c, e)
      BY DEF CInv, MadeCount
    <2>3. CASE e = d
      BY <1>1, <1>5, <2>1, <2>2, <2>3 DEF q
    <2>4. CASE e # d
      <3>1. Cardinality(OfLot(R, e)) = 0
        BY <1>5, <2>4, FS_EmptySet
      <3>2. Inserted(c, e) \in Nat
        BY <1>1 DEF Inserted, TypeOK
      <3> QED
        BY <2>1, <2>2, <2>4, <3>1, <3>2
    <2> QED
      BY <2>1, <2>3, <2>4
  <1>10. FiniteRows'
    <2>1. IsFiniteSet(made'[c])
      BY <1>9
    <2> QED
      BY <1>2, <1>4, <2>1 DEF CInv, FiniteRows
  <1>11. MadeCount'
    <2> SUFFICES ASSUME NEW x \in Client, NEW e \in Lot
                 PROVE  Cardinality(OfLot(made'[x], e)) = Inserted(x, e)'
      BY DEF MadeCount, OfLot
    <2>1. CASE x = c
      BY <1>9, <2>1
    <2>2. CASE x # c
      BY <2>2, OthersCount DEF CInv, SameStorno
    <2> QED
      BY <2>1, <2>2
  <1>12. StornoKnows(c)' /\ OrderLocks'
    BY <1>2, <1>4 DEF StornoKnows, CInv, OrderLocks, SameStorno, SameRequest, Stornoing
  <1>13. \A x \in Client : StornoKnows(x)'
    BY <1>4, <1>12
  <1> QED
    BY <1>7, <1>10, <1>11, <1>12, <1>13 DEF CInv

LEMMA PurchaseWriteCounted ==
  ASSUME CInv, IInv', NEW c \in Client, PurchaseWrite(c)
  PROVE  CInv'
  <1>1. PICK d \in held[c] : WriteLine(c, d)
    BY DEF PurchaseWrite
  <1>2. TypeOK /\ Own(c) /\ pc[c] = "purchaseWrite" /\ d \in Lot
    BY DEF CInv, IInv, PurchaseWrite, TypeOK
  <1>3. /\ UNCHANGED <<req, held, todo, victim>>
        /\ pc' = [pc EXCEPT ![c] = "commit"]
    BY DEF PurchaseWrite
  <1>4. pc'[c] = "commit" /\ Requested(c) = {d}
    BY <1>1, <1>2, <1>3 DEF Own, TypeOK
  <1>5. \A x \in Client \ {c} : SameStorno(x)
    BY <1>1, <1>2, <1>3, WriteLineSeen, WriteLineMade DEF SameStorno, SameRequest, TypeOK
  <1>6. \A e \in Lot \ {d} : req[c][e] = 0
    BY <1>2, <1>4 DEF Requested, TypeOK
  <1>7. /\ Inserted(c, d) = 0 /\ Inserted(c, d)' = req[c][d]
        /\ \A e \in Lot \ {d} : Inserted(c, e)' = Inserted(c, e)
    BY <1>2, <1>3, <1>4, <1>6 DEF Inserted
  <1> QED
    BY <1>1, <1>2, <1>3, <1>4, <1>5, <1>7, LineCounted DEF Stornoing

LEMMA BasketWriteCounted ==
  ASSUME CInv, IInv', NEW c \in Client, NEW d \in Lot,
         BasketWrite(c, d)
  PROVE  CInv'
  <1>1. /\ TypeOK /\ Own(c) /\ pc[c] = "basketWrite" /\ d \in todo[c] /\ WriteLine(c, d)
    BY DEF CInv, IInv, BasketWrite
  <1>2. /\ UNCHANGED <<req, held, victim>>
        /\ todo'[c] = todo[c] \ {d}
        /\ pc'[c] = IF todo[c] = {d} THEN "commit" ELSE "basketWrite"
    BY <1>1 DEF BasketWrite, TypeOK
  <1>3. \A x \in Client \ {c} : SameStorno(x)
    BY <1>1, WriteLineSeen, WriteLineMade
    DEF BasketWrite, SameStorno, SameRequest, TypeOK
  <1>4. /\ Inserted(c, d) = 0 /\ Inserted(c, d)' = req[c][d]
        /\ \A e \in Lot \ {d} : Inserted(c, e)' = Inserted(c, e)
    BY <1>1, <1>2 DEF Inserted
  <1> QED
    BY <1>1, <1>2, <1>3, <1>4, LineCounted DEF Stornoing

\* A commit adds to the orders the rows it has inserted, as many of each
\* delivery as it takes units off.
LEMMA CommitAdds ==
  ASSUME CInv, NEW c \in Client, Commit(c)
  PROVE  /\ IsFiniteSet(orders')
         /\ \A d \in Lot :
              /\ Cardinality(OfLot(orders', d)) = Cardinality(OfLot(orders, d)) + req[c][d]
              /\ Cardinality(OfLot(orders, d)) \in Nat
              /\ stock'[d] = stock[d] - req[c][d]
  <1>1. TypeOK /\ Own(c) /\ pc[c] = "commit"
    BY DEF CInv, IInv, Commit
  <1>2. /\ orders' = orders \union made[c]
        /\ stock' = [d \in Lot |-> IF d \in Requested(c) THEN seen[c][d] ELSE stock[d]]
    BY DEF Commit
  <1> DEFINE M == made[c]
  <1>3. IsFiniteSet(orders) /\ IsFiniteSet(M) /\ orders \intersect M = {}
    BY DEF CInv, FiniteRows, FreshIds
  <1>4. \A d \in Lot : Cardinality(OfLot(M, d)) = req[c][d]
    BY <1>1 DEF CInv, MadeCount, Inserted
  <1>5. orders' = orders \union M
    BY <1>2
  <1> HIDE DEF M
  <1>6. ASSUME NEW d \in Lot
        PROVE  /\ Cardinality(OfLot(orders', d)) = Cardinality(OfLot(orders, d)) + req[c][d]
               /\ Cardinality(OfLot(orders, d)) \in Nat
    <2>1. /\ Cardinality(OfLot(orders \union M, d)) =
               Cardinality(OfLot(orders, d)) + Cardinality(OfLot(M, d))
          /\ Cardinality(OfLot(orders, d)) \in Nat
      BY <1>3, CountUnion
    <2> QED
      BY <1>4, <1>5, <2>1
  <1>7. ASSUME NEW d \in Lot PROVE stock'[d] = stock[d] - req[c][d]
    <2>1. CASE d \in Requested(c)
      BY <1>1, <1>2, <2>1 DEF Own
    <2>2. CASE d \notin Requested(c)
      BY <1>1, <1>2, <2>2 DEF Requested, TypeOK
    <2> QED
      BY <2>1, <2>2
  <1>8. IsFiniteSet(orders')
    BY <1>3, <1>5, CountUnion
  <1> QED
    BY <1>6, <1>7, <1>8

LEMMA CommitCounted ==
  ASSUME CInv, IInv', NEW c \in Client, Commit(c)
  PROVE  CInv'
  <1>1. TypeOK /\ End(c)
    BY DEF CInv, IInv, Commit
  <1>2. nextId' = nextId /\ orders' = orders \union made[c]
    BY DEF Commit
  <1>3. IsFiniteSet(orders')
    BY CommitAdds
  <1>4. \A x \in Client \ {c} : StornoKnows(x)'
    BY <1>1, <1>2, EndedRequest, OthersStorno DEF CInv
  <1> QED
    BY <1>1, <1>2, <1>3, <1>4, EndCounted

\* A storno takes out one order row, and writes the delivery of that row.
LEMMA StornoTakes ==
  ASSUME CInv, NEW c \in Client, StornoCommit(c)
  PROVE  \E o \in orders :
           /\ o.id = victim[c] /\ o.lot \in Lot /\ Requested(c) = {o.lot}
           /\ orders' = orders \ {o}
           /\ stock' = [stock EXCEPT ![o.lot] = seen[c][o.lot]]
           /\ IsFiniteSet(orders')
           /\ \A d \in Lot :
                /\ Cardinality(OfLot(orders', d)) =
                     IF o.lot = d THEN Cardinality(OfLot(orders, d)) - 1
                                  ELSE Cardinality(OfLot(orders, d))
                /\ Cardinality(OfLot(orders, d)) \in Nat
           /\ Cardinality(OfLot(orders, o.lot)) > 0
  <1>1. TypeOK /\ pc[c] = "stornoCommit" /\ StornoKnows(c) /\ IsFiniteSet(orders)
    BY DEF CInv, IInv, FiniteRows, StornoCommit
  <1>2. PICK o \in orders : o.id = victim[c] /\ Requested(c) = {o.lot}
    BY <1>1 DEF StornoKnows
  <1>3. o.lot \in Lot /\ stock' = [stock EXCEPT ![o.lot] = seen[c][o.lot]]
    BY <1>1, <1>2, OrderTyped DEF StornoCommit
  <1>4. orders' = orders \ {o}
    BY <1>2 DEF StornoCommit, CInv, FreshIds
  <1>5. /\ IsFiniteSet(orders')
        /\ \A d \in Lot :
             /\ Cardinality(OfLot(orders', d)) =
                  IF o.lot = d THEN Cardinality(OfLot(orders, d)) - 1
                               ELSE Cardinality(OfLot(orders, d))
             /\ Cardinality(OfLot(orders, d)) \in Nat
        /\ Cardinality(OfLot(orders, o.lot)) > 0
    BY <1>1, <1>3, <1>4, CountRemove
  <1> QED
    BY <1>2, <1>3, <1>4, <1>5

LEMMA StornoCommitCounted ==
  ASSUME CInv, IInv', NEW c \in Client, StornoCommit(c)
  PROVE  CInv'
  <1>1. TypeOK /\ pc[c] = "stornoCommit" /\ End(c) /\ UNCHANGED nextId
    BY DEF CInv, IInv, StornoCommit
  <1>2. PICK o \in orders : o.id = victim[c] /\ orders' = orders \ {o} /\ IsFiniteSet(orders')
    BY StornoTakes
  <1>3. ASSUME NEW x \in Client \ {c} PROVE StornoKnows(x)'
    <2>1. SameStorno(x) /\ StornoKnows(x)
      BY <1>1, EndedRequest DEF CInv
    <2>2. pc[x] \in Stornoing => victim[x] # o.id
      BY <1>1, <1>2 DEF CInv, OrderLocks, Stornoing
    <2>3. Requested(x)' = Requested(x)
      BY <2>1 DEF SameStorno, SameRequest, Requested
    <2>4. pc'[x] \in Stornoing => victim'[x] \in Ids(orders')
      BY <1>2, <2>1, <2>2 DEF StornoKnows, SameStorno, SameRequest, Ids
    <2>5. pc'[x] \in {"stornoWrite", "stornoCommit"} =>
            \E p \in orders' : p.id = victim'[x] /\ Requested(x)' = {p.lot}
      BY <1>2, <2>1, <2>2, <2>3 DEF StornoKnows, SameStorno, SameRequest, Stornoing
    <2> QED
      BY <2>4, <2>5 DEF StornoKnows, Ids
  <1> QED
    BY <1>1, <1>2, <1>3, EndCounted

-----------------------------------------------------------------------------
LEMMA CountedInit == Init => CInv
  <1> SUFFICES ASSUME Init PROVE CInv
    OBVIOUS
  <1>1. IInv
    BY InitInv
  <1>2. FreshIds /\ FiniteRows /\ OrderLocks
    BY FS_EmptySet DEF Init, FreshIds, FiniteRows, OrderLocks, Stornoing
  <1>3. \A c \in Client : StornoKnows(c)
    BY DEF Init, StornoKnows, Stornoing
  <1>4. MadeCount
    <2>1. \A c \in Client, d \in Lot : OfLot(made[c], d) = {}
      BY DEF Init, OfLot
    <2> QED
      BY <2>1, FS_EmptySet DEF Init, MadeCount, Inserted
  <1> QED
    BY <1>1, <1>2, <1>3, <1>4 DEF CInv

LEMMA CountedNext == CInv /\ [Next]_vars => CInv'
  <1> SUFFICES ASSUME CInv, [Next]_vars PROVE CInv'
    OBVIOUS
  <1>0. IInv'
    BY NextInv DEF CInv
  <1>1. CASE UNCHANGED vars
    BY <1>0, <1>1, FrameCounted DEF vars
  <1>2. ASSUME NEW d \in Lot, NEW n \in 1 .. MaxSupply, AddStock(d, n)
        PROVE  CInv'
    BY <1>0, <1>2, FrameCounted DEF AddStock
  <1>3. ASSUME NEW S \in SUBSET Ids(orders), InvoiceOrders(S)
        PROVE  CInv'
    BY <1>0, <1>3, FrameCounted DEF InvoiceOrders
  <1>4. ASSUME NEW c \in Client,
               \/ \E d \in Lot : PurchaseBegin(c, d)
               \/ \E r \in Baskets : BasketBegin(c, r)
               \/ \E i \in Ids(orders) : StornoBegin(c, i)
        PROVE  CInv'
    BY <1>0, <1>4, BeginCounted
  <1>5. ASSUME NEW c \in Client, Rollback(c)
        PROVE  CInv'
    BY <1>0, <1>5, RollbackCounted
  <1>6. ASSUME NEW c \in Client, Step(c)
        PROVE  CInv'
    BY <1>0, <1>5, <1>6, LockingCounted, PurchaseWriteCounted,
       BasketWriteCounted, CommitCounted, StornoLockCounted, StornoReadCounted,
       StornoWriteCounted, StornoCommitCounted
    DEF Step, PurchaseOutOfStock, BasketOutOfStock, BasketRefused, StornoGone,
        StornoRefused
  <1> QED
    BY <1>1, <1>2, <1>3, <1>4, <1>5, <1>6 DEF Next, Abort, DeadlockVictim

LEMMA CountedInductive == Spec => []CInv
  BY CountedInit, CountedNext, PTL DEF Spec

-----------------------------------------------------------------------------
(* Every step but the commit of a storno with an old count is one of the   *)
(* abstract shelf.                                                         *)

LEMMA CommitSells ==
  ASSUME CInv, CInv', NEW c \in Client, Commit(c)
  PROVE  OnShelf!Sell
  <1>1. TypeOK /\ UNCHANGED supplied
    BY DEF CInv, IInv, Commit
  <1>2. stock' \in [Lot -> Nat]
    BY DEF CInv, IInv, RowsExist, TypeOK
  <1>3. \A d \in Lot : /\ stock'[d] = stock[d] - req[c][d] /\ req[c][d] \in Nat
                       /\ stock[d] \in Int
                       /\ Sold(d) \in Nat /\ Sold(d)' = Sold(d) + req[c][d]
    BY <1>1, CommitAdds DEF TypeOK, Sold, OfLot
  <1>4. \A d \in Lot : stock'[d] <= stock[d]
    BY <1>3
  <1>5. \A d \in Lot : Sold(d)' = Sold(d) + stock[d] - stock'[d]
    BY <1>3
  <1>6. SoldOf' = [d \in Lot |-> SoldOf[d] + stock[d] - stock'[d]]
    BY <1>5 DEF SoldOf
  <1> QED
    BY <1>1, <1>2, <1>4, <1>6 DEF OnShelf!Sell

LEMMA StornoPutsBack ==
  ASSUME CInv, NEW c \in Client, StornoCommit(c), ~CommitsOldCount(c)
  PROVE  \E d \in Lot : OnShelf!PutBack(d)
  <1>1. TypeOK /\ pc[c] = "stornoCommit" /\ UNCHANGED supplied
    BY DEF CInv, IInv, StornoCommit
  <1>2. PICK o \in orders :
          /\ o.lot \in Lot /\ Requested(c) = {o.lot}
          /\ stock' = [stock EXCEPT ![o.lot] = seen[c][o.lot]]
          /\ \A d \in Lot :
               /\ Cardinality(OfLot(orders', d)) =
                    IF o.lot = d THEN Cardinality(OfLot(orders, d)) - 1
                                 ELSE Cardinality(OfLot(orders, d))
               /\ Cardinality(OfLot(orders, d)) \in Nat
          /\ Cardinality(OfLot(orders, o.lot)) > 0
    BY StornoTakes
  <1>3. seen[c][o.lot] = stock[o.lot] + 1
    BY <1>1, <1>2 DEF CommitsOldCount
  <1>4. stock' = [stock EXCEPT ![o.lot] = @ + 1]
    BY <1>1, <1>2, <1>3 DEF TypeOK
  <1>5. /\ SoldOf[o.lot] > 0
        /\ \A d \in Lot : SoldOf'[d] = IF d = o.lot THEN SoldOf[d] - 1 ELSE SoldOf[d]
    BY <1>2 DEF SoldOf, Sold, OfLot
  <1>6. SoldOf' = [SoldOf EXCEPT ![o.lot] = @ - 1]
    BY <1>2, <1>5 DEF SoldOf
  <1> QED
    BY <1>1, <1>2, <1>4, <1>5, <1>6 DEF OnShelf!PutBack

LEMMA AddStockSupplies ==
  ASSUME CInv, NEW d \in Lot, NEW n \in 1 .. MaxSupply, AddStock(d, n)
  PROVE  OnShelf!Supply(d, n)
  <1>1. supplied[d] = 0
    BY DEF CInv, IInv, TypeOK, AddStock, Exists
  <1>2. SoldOf' = SoldOf
    BY DEF AddStock, SoldOf, Sold
  <1> QED
    BY <1>1, <1>2 DEF AddStock, OnShelf!Supply

\* Every other step is invisible on the shelf.
LEMMA Invisible ==
  ASSUME UNCHANGED <<supplied, stock, orders>>
  PROVE  UNCHANGED OnShelf!shelfVars
  BY DEF OnShelf!shelfVars, SoldOf, Sold

LEMMA ShelfStep ==
  ASSUME CInv, CInv', [Next]_vars, \A c \in Client : ~CommitsOldCount(c)
  PROVE  [OnShelf!ShelfNext]_(OnShelf!shelfVars)
  <1> SUFFICES OnShelf!ShelfNext \/ UNCHANGED OnShelf!shelfVars
    OBVIOUS
  <1>1. CASE UNCHANGED vars
    BY <1>1, Invisible DEF vars
  <1>2. ASSUME NEW d \in Lot, NEW n \in 1 .. MaxSupply, AddStock(d, n)
        PROVE  OnShelf!ShelfNext
    BY <1>2, AddStockSupplies DEF OnShelf!ShelfNext
  <1>3. ASSUME NEW S \in SUBSET Ids(orders), InvoiceOrders(S)
        PROVE  UNCHANGED OnShelf!shelfVars
    BY <1>3, Invisible DEF InvoiceOrders
  <1>4. ASSUME NEW c \in Client,
               \/ \E d \in Lot : PurchaseBegin(c, d)
               \/ \E r \in Baskets : BasketBegin(c, r)
               \/ \E i \in Ids(orders) : StornoBegin(c, i)
        PROVE  UNCHANGED OnShelf!shelfVars
    BY <1>4, Invisible DEF PurchaseBegin, BasketBegin, StornoBegin, tables
  <1>5. ASSUME NEW c \in Client, Rollback(c)
        PROVE  UNCHANGED OnShelf!shelfVars
    BY <1>5, Invisible DEF Rollback, tables
  <1>6. ASSUME NEW c \in Client, Commit(c)
        PROVE  OnShelf!ShelfNext
    BY <1>6, CommitSells DEF OnShelf!ShelfNext
  <1>7. ASSUME NEW c \in Client, StornoCommit(c)
        PROVE  OnShelf!ShelfNext
    BY <1>7, StornoPutsBack DEF OnShelf!ShelfNext
  <1>8. ASSUME NEW c \in Client,
               \/ PurchaseLock(c) \/ PurchaseWrite(c)
               \/ \E d \in Lot : BasketLockRow(c, d)
               \/ BasketStockOk(c) \/ BasketFifoLock(c) \/ BasketFifoOk(c)
               \/ \E d \in Lot : BasketWrite(c, d)
               \/ StornoLock(c) \/ StornoRead(c) \/ StornoWrite(c)
        PROVE  UNCHANGED OnShelf!shelfVars
    <2>1. UNCHANGED <<supplied, stock, orders>>
      BY <1>8 DEF PurchaseLock, PurchaseWrite, WriteLine, NewRow, BasketLockRow, BasketStockOk,
                  BasketFifoLock, BasketFifoOk, BasketWrite, StornoLock, StornoRead,
                  StornoWrite, tables
    <2> QED
      BY <2>1, Invisible
  <1>9. ASSUME NEW c \in Client, Step(c)
        PROVE  OnShelf!ShelfNext \/ UNCHANGED OnShelf!shelfVars
    BY <1>5, <1>6, <1>7, <1>8, <1>9
    DEF Step, PurchaseOutOfStock, BasketOutOfStock, BasketRefused, StornoGone, StornoRefused
  <1> QED
    BY <1>1, <1>2, <1>3, <1>4, <1>5, <1>9 DEF Next, Abort, DeadlockVictim

\* Purchase, basket, rollback and storno are operations of the shelf, step by step,
\* whatever stornos with an old count did before or are about to do: only the step in
\* which such a storno commits is something else.
THEOREM StepsImplemented == Spec => StepsOnShelf
  <1>1. CInv /\ CInv' /\ [Next]_vars =>
          [\/ \E c \in Client : CommitsOldCount(c)
           \/ [OnShelf!ShelfNext]_(OnShelf!shelfVars)]_vars
    BY ShelfStep
  <1> QED
    BY <1>1, CountedInductive, PTL DEF Spec, StepsOnShelf

-----------------------------------------------------------------------------
(* Where no delivery changes between the read and the write of a storno,   *)
(* every storno commits a current count.                                   *)

\* What c has locked is changed by no step of another request.
LEMMA LockedStays ==
  ASSUME CInv, [Next]_vars, NEW c \in Client, NEW d \in Lot,
         pc[c] = "stornoCommit", pc'[c] = "stornoCommit", d \in held[c]
  PROVE  stock'[d] = stock[d]
  <1>1. TypeOK /\ RowLocks /\ Own(c) /\ \A x \in Client : Own(x)
    BY DEF CInv, IInv
  <1>2. ASSUME NEW e \in Lot, NEW n \in 1 .. MaxSupply, AddStock(e, n)
        PROVE  stock'[d] = stock[d]
    BY <1>1, <1>2 DEF AddStock, Own, TypeOK
  <1>3. ASSUME NEW x \in Client, Commit(x)
        PROVE  stock'[d] = stock[d]
    <2>1. x # c /\ Own(x) /\ pc[x] = "commit"
      BY <1>1, <1>3 DEF Commit
    <2>2. d \notin Requested(x)
      BY <1>1, <2>1 DEF RowLocks, Own
    <2> QED
      BY <1>3, <2>2 DEF Commit
  <1>4. ASSUME NEW x \in Client, StornoCommit(x)
        PROVE  stock'[d] = stock[d]
    <2>1. x # c /\ Own(x) /\ pc[x] = "stornoCommit"
      BY <1>1, <1>4 DEF StornoCommit, End, Forget, TypeOK
    <2>2. d \notin Requested(x)
      BY <1>1, <2>1 DEF RowLocks, Own
    <2> QED
      BY <1>1, <1>4, <2>2 DEF StornoCommit, TypeOK
  <1>5. ASSUME UNCHANGED stock
        PROVE  stock'[d] = stock[d]
    BY <1>5
  <1>6. ASSUME NEW x \in Client, Step(x)
        PROVE  stock'[d] = stock[d]
    BY <1>3, <1>4, <1>5, <1>6
    DEF Step, PurchaseOutOfStock, PurchaseLock, PurchaseWrite, WriteLine, BasketLockRow,
        BasketOutOfStock, BasketStockOk, BasketFifoLock, BasketRefused, BasketFifoOk,
        BasketWrite, StornoGone, StornoLock, StornoRead, StornoRefused, StornoWrite,
        Rollback, tables
  <1> QED
    BY <1>2, <1>5, <1>6
    DEF Next, InvoiceOrders, PurchaseBegin, BasketBegin, StornoBegin, Abort, DeadlockVictim,
        Rollback, tables, vars

\* A request is at the commit of a storno because it was there or has just written.
LEMMA ReachesCommit ==
  ASSUME CInv, [Next]_vars, NEW c \in Client, pc'[c] = "stornoCommit"
  PROVE  (pc[c] = "stornoCommit" /\ req'[c] = req[c] /\ seen'[c] = seen[c]) \/ StornoWrite(c)
  <1> DEFINE Goal == (pc[c] = "stornoCommit" /\ req'[c] = req[c] /\ seen'[c] = seen[c])
                       \/ StornoWrite(c)
  <1>1. TypeOK
    BY DEF CInv, IInv
  <1>2. ASSUME UNCHANGED <<pc, req, seen>> PROVE Goal
    BY <1>2
  <1>3. ASSUME NEW x \in Client,
               \/ \E d \in Lot : PurchaseBegin(x, d)
               \/ \E r \in Baskets : BasketBegin(x, r)
               \/ \E i \in Ids(orders) : StornoBegin(x, i)
        PROVE  Goal
    BY <1>1, <1>3 DEF PurchaseBegin, BasketBegin, StornoBegin, Begin, TypeOK
  <1>4. ASSUME NEW x \in Client, End(x) PROVE Goal
    BY <1>1, <1>4 DEF End, Forget, TypeOK
  <1>5. ASSUME NEW x \in Client, Rollback(x) PROVE Goal
    BY <1>4, <1>5 DEF Rollback
  <1>6. ASSUME NEW x \in Client, PurchaseLock(x) \/ \E d \in Lot : BasketLockRow(x, d)
        PROVE  Goal
    BY <1>1, <1>6 DEF PurchaseLock, BasketLockRow, LockRow, TypeOK
  <1>7. ASSUME NEW x \in Client, PurchaseWrite(x) PROVE Goal
    BY <1>1, <1>7, WriteLineSeen DEF PurchaseWrite, TypeOK
  <1>8. ASSUME NEW x \in Client, NEW d \in Lot, BasketWrite(x, d) PROVE Goal
    BY <1>1, <1>8, WriteLineSeen DEF BasketWrite, TypeOK
  <1>9. ASSUME NEW x \in Client, BasketStockOk(x) \/ BasketFifoLock(x) \/ BasketFifoOk(x)
        PROVE  Goal
    BY <1>1, <1>9 DEF BasketStockOk, BasketFifoLock, BasketFifoOk, LockRow, TypeOK
  <1>10. ASSUME NEW x \in Client, StornoLock(x) \/ StornoRead(x) \/ StornoWrite(x)
         PROVE  Goal
    BY <1>1, <1>10 DEF StornoLock, StornoRead, StornoWrite, TypeOK
  <1> HIDE DEF Goal
  <1>11. ASSUME NEW x \in Client, Step(x) PROVE Goal
    BY <1>4, <1>5, <1>6, <1>7, <1>8, <1>9, <1>10, <1>11
    DEF Step, Commit, StornoCommit, PurchaseOutOfStock, BasketOutOfStock, BasketRefused,
        StornoGone, StornoRefused
  <1>12. Goal
    BY <1>2, <1>3, <1>5, <1>11
    DEF Next, AddStock, InvoiceOrders, Abort, DeadlockVictim, vars
  <1> QED
    BY <1>12 DEF Goal

\* No storno that is about to commit holds an old count.
CommitsCurrentCount ==
  \A c \in Client :
    pc[c] = "stornoCommit" => \A d \in Requested(c) : seen[c][d] = stock[d] + 1

LEMMA CurrentNext ==
  ASSUME CInv, StornoReadIsCurrent, CommitsCurrentCount, [Next]_vars
  PROVE  CommitsCurrentCount'
  <1> SUFFICES ASSUME NEW c \in Client, pc'[c] = "stornoCommit", NEW d \in Requested(c)'
               PROVE  seen'[c][d] = stock'[d] + 1
    BY DEF CommitsCurrentCount
  <1>1. TypeOK /\ Own(c) /\ d \in Lot
    BY DEF CInv, IInv, Requested
  <1>2. CASE pc[c] = "stornoCommit" /\ req'[c] = req[c] /\ seen'[c] = seen[c]
    <2>1. d \in Requested(c) /\ d \in held[c]
      BY <1>1, <1>2 DEF Requested, Own
    <2>2. stock'[d] = stock[d]
      BY <1>1, <1>2, <2>1, LockedStays
    <2>3. seen[c][d] = stock[d] + 1
      BY <1>2, <2>1 DEF CommitsCurrentCount
    <2> QED
      BY <1>2, <2>2, <2>3
  <1>3. CASE StornoWrite(c)
    <2>1. PICK e \in Requested(c) : seen' = [seen EXCEPT ![c][e] = @ + 1]
      BY <1>3 DEF StornoWrite
    <2>2. pc[c] = "stornoWrite" /\ UNCHANGED <<stock, req>>
      BY <1>3 DEF StornoWrite, tables
    <2>3. d \in Requested(c) /\ d = e /\ seen[c][d] = stock[d]
      BY <1>1, <2>1, <2>2 DEF Requested, Own, StornoReadIsCurrent
    <2> QED
      BY <1>1, <2>1, <2>2, <2>3 DEF TypeOK
  <1> QED
    BY <1>2, <1>3, ReachesCommit

LEMMA QuietInductive == QuietSpec => [](CInv /\ StornoReadIsCurrent /\ CommitsCurrentCount)
  <1>1. Init => CInv /\ StornoReadIsCurrent /\ CommitsCurrentCount
    BY CountedInit DEF Init, StornoReadIsCurrent, CommitsCurrentCount
  <1>2. CInv /\ StornoReadIsCurrent /\ CommitsCurrentCount /\ [QuietNext]_vars =>
          CInv' /\ StornoReadIsCurrent' /\ CommitsCurrentCount'
    <2> SUFFICES ASSUME CInv, StornoReadIsCurrent, CommitsCurrentCount, [QuietNext]_vars
                 PROVE  CInv' /\ StornoReadIsCurrent' /\ CommitsCurrentCount'
      OBVIOUS
    <2>1. [Next]_vars
      BY DEF QuietNext
    <2>2. StornoReadIsCurrent'
      BY DEF QuietNext, StornoReadIsCurrent, Requested, vars
    <2> QED
      BY <2>1, <2>2, CountedNext, CurrentNext
  <1> QED
    BY <1>1, <1>2, PTL DEF QuietSpec

LEMMA ShelfStart == Init => OnShelf!ShelfInit
  <1> SUFFICES ASSUME Init PROVE OnShelf!ShelfInit
    OBVIOUS
  <1>1. \A d \in Lot : {o \in orders : o.lot = d} = {}
    BY DEF Init
  <1>2. SoldOf = [d \in Lot |-> 0]
    BY <1>1, FS_EmptySet DEF SoldOf, Sold
  <1> QED
    BY <1>2 DEF Init, OnShelf!ShelfInit, None

\* A step of the shelf moves units, and supplies what had none.
LEMMA ShelfConserves ==
  ASSUME TypeOK, FiniteRows, NoOversell, Conservation,
         [OnShelf!ShelfNext]_(OnShelf!shelfVars)
  PROVE  Conservation'
  <1>1. \A d \in Lot : SoldOf[d] = Sold(d) /\ SoldOf'[d] = Sold(d)'
    BY DEF SoldOf
  <1>2. \A d \in Lot : Sold(d) \in Nat
    <2>1. \A d \in Lot : {o \in orders : o.lot = d} \in SUBSET orders
      OBVIOUS
    <2> QED
      BY <2>1, FS_Subset, FS_CardinalityType DEF FiniteRows, Sold
  <1> SUFFICES ASSUME NEW d \in Lot PROVE stock'[d] + SoldOf'[d] = supplied'[d]
    BY <1>1 DEF Conservation
  <1>3. /\ stock[d] + SoldOf[d] = supplied[d] /\ SoldOf[d] \in Nat
        /\ stock[d] \in Int /\ stock[d] >= 0 /\ supplied[d] \in Nat
        /\ stock \in [Lot -> Int] /\ supplied \in [Lot -> Nat]
    BY <1>1, <1>2 DEF Conservation, NoOversell, TypeOK
  <1>4. CASE UNCHANGED OnShelf!shelfVars
    BY <1>3, <1>4 DEF OnShelf!shelfVars
  <1>5. ASSUME NEW e \in Lot, NEW n \in 1 .. MaxSupply, OnShelf!Supply(e, n)
        PROVE  stock'[d] + SoldOf'[d] = supplied'[d]
    <2>1. /\ supplied' = [supplied EXCEPT ![e] = n] /\ stock' = [stock EXCEPT ![e] = n]
          /\ SoldOf' = SoldOf /\ supplied[e] = 0
      BY <1>5 DEF OnShelf!Supply
    <2>2. CASE d # e
      BY <1>3, <2>1, <2>2
    <2>3. CASE d = e
      BY <1>3, <2>1, <2>3
    <2> QED
      BY <2>2, <2>3
  <1>6. CASE OnShelf!Sell
    <2>1. SoldOf'[d] = SoldOf[d] + stock[d] - stock'[d] /\ stock'[d] \in Nat /\ UNCHANGED supplied
      BY <1>6 DEF OnShelf!Sell
    <2> QED
      BY <1>3, <2>1
  <1>7. ASSUME NEW e \in Lot, OnShelf!PutBack(e)
        PROVE  stock'[d] + SoldOf'[d] = supplied'[d]
    <2>1. /\ stock' = [stock EXCEPT ![e] = @ + 1] /\ UNCHANGED supplied
          /\ SoldOf' = [SoldOf EXCEPT ![e] = @ - 1]
      BY <1>7 DEF OnShelf!PutBack
    <2>2. DOMAIN SoldOf = Lot
      BY DEF SoldOf
    <2> HIDE DEF SoldOf
    <2>3. CASE d # e
      BY <1>3, <2>1, <2>2, <2>3
    <2>4. CASE d = e
      BY <1>3, <2>1, <2>2, <2>4
    <2> QED
      BY <2>3, <2>4
  <1> QED
    BY <1>4, <1>5, <1>6, <1>7 DEF OnShelf!ShelfNext

\* In those behaviours purchase, purchaseBasket and stornoOrder are the
\* atomic operations of the abstract shelf: each takes effect at its commit,
\* whole, and the rest of it cannot be seen.
THEOREM ShelfImplemented == QuietSpec => ImplementsShelf
  <1>1. CInv /\ CInv' /\ CommitsCurrentCount /\ [QuietNext]_vars =>
          [OnShelf!ShelfNext]_(OnShelf!shelfVars)
    BY ShelfStep DEF QuietNext, CommitsCurrentCount, CommitsOldCount, StornoCommit
  <1> QED
    BY <1>1, ShelfStart, QuietInductive, PTL DEF QuietSpec, ImplementsShelf, OnShelf!ShelfSpec

\* The shelf keeps count of its units, so there purchases, baskets, rollbacks and
\* stornos neither lose nor invent one.
THEOREM StockConserved == QuietSpec => []Conservation
  <1> DEFINE T == TypeOK /\ FiniteRows /\ NoOversell
  <1>1. Init => Conservation
    <2>1. ASSUME Init PROVE Conservation
      <3>1. \A d \in Lot : SoldOf[d] = 0
        BY <2>1, ShelfStart DEF OnShelf!ShelfInit
      <3> QED
        BY <2>1, <3>1 DEF Init, Conservation, SoldOf, None
    <2> QED
      BY <2>1
  <1>2. T /\ Conservation /\ [OnShelf!ShelfNext]_(OnShelf!shelfVars) => Conservation'
    BY ShelfConserves
  <1>3. CInv => T
    BY DEF CInv, IInv, RowsExist, NoOversell
  <1>4. OnShelf!ShelfSpec => [][OnShelf!ShelfNext]_(OnShelf!shelfVars)
    BY PTL DEF OnShelf!ShelfSpec
  <1> HIDE DEF T
  <1> QED
    BY <1>1, <1>2, <1>3, <1>4, ShelfImplemented, QuietInductive, PTL DEF QuietSpec, ImplementsShelf

-----------------------------------------------------------------------------
(* The book of orders, which invoicing keeps as well: here an invoice is   *)
(* a step of somebody else.                                                *)

LEMMA BookStep ==
  ASSUME CInv, InvoiceInv, [Next]_vars
  PROVE  [OnBook!BookNext]_(OnBook!bookVars)
  <1>1. ASSUME NEW c \in Client, Commit(c) PROVE OnBook!BookNext
    <2> DEFINE S == Ids(made[c])
    <2>1. orders' = orders \union made[c] /\ UNCHANGED invoiced
      BY <1>1 DEF Commit
    <2>2. Ids(orders') = Ids(orders) \union S
      BY <2>1 DEF Ids
    <2>3. S \intersect Ids(orders) = {} /\ invoiced \subseteq Ids(orders)
      BY DEF CInv, FreshIds, InvoiceInv, InvoicedKept, Ids
    <2> HIDE DEF S
    <2>4. OnBook!Sell(S) /\ S \in SUBSET Ids(orders')
      BY <2>1, <2>2, <2>3 DEF OnBook!Sell, Ids
    <2> QED
      BY <2>4 DEF OnBook!BookNext, OnBook!Sell, Ids
  <1>2. ASSUME NEW c \in Client, StornoCommit(c) PROVE OnBook!BookNext
    <2>1. pc[c] = "stornoCommit" /\ UNCHANGED invoiced
      BY <1>2 DEF StornoCommit
    <2>2. PICK o \in orders : o.id = victim[c] /\ orders' = orders \ {o}
      BY <1>2, StornoTakes
    <2>3. Ids(orders') = Ids(orders) \ {o.id} /\ o.id \in Ids(orders)
      BY <2>2 DEF CInv, FreshIds, Ids
    <2>4. o.id \notin invoiced
      BY <2>1, <2>2 DEF InvoiceInv, Cancelling, MayStorno
    <2>5. OnBook!Cancel(o.id)
      BY <2>1, <2>3, <2>4 DEF OnBook!Cancel, Ids
    <2> QED
      BY <2>3, <2>5 DEF OnBook!BookNext, Ids
  <1>3. ASSUME NEW S \in SUBSET Ids(orders), InvoiceOrders(S) PROVE OnBook!BookNext
    <2>1. OnBook!Bill(S)
      BY <1>3 DEF InvoiceOrders, OnBook!Bill, Ids
    <2> QED
      BY <2>1 DEF OnBook!BookNext, Ids
  <1>4. ASSUME UNCHANGED <<orders, invoiced>> PROVE UNCHANGED OnBook!bookVars
    BY <1>4 DEF OnBook!bookVars, Ids
  <1>5. ASSUME NEW c \in Client, Step(c), ~Commit(c), ~StornoCommit(c)
        PROVE  UNCHANGED OnBook!bookVars
    BY <1>4, <1>5
    DEF Step, PurchaseOutOfStock, PurchaseLock, PurchaseWrite, WriteLine, BasketLockRow,
        BasketOutOfStock, BasketStockOk, BasketFifoLock, BasketRefused, BasketFifoOk,
        BasketWrite, StornoGone, StornoLock, StornoRead, StornoRefused, StornoWrite,
        Rollback, tables
  <1>6. ASSUME \/ \E d \in Lot, n \in 1 .. MaxSupply : AddStock(d, n)
               \/ \E c \in Client : \/ \E d \in Lot : PurchaseBegin(c, d)
                                    \/ \E r \in Baskets : BasketBegin(c, r)
                                    \/ \E i \in Ids(orders) : StornoBegin(c, i)
                                    \/ Rollback(c)
               \/ UNCHANGED vars
        PROVE  UNCHANGED OnBook!bookVars
    BY <1>4, <1>6 DEF AddStock, PurchaseBegin, BasketBegin, StornoBegin, Rollback, tables, vars
  <1> QED
    BY <1>1, <1>2, <1>3, <1>5, <1>6 DEF Next, Abort, DeadlockVictim

\* Whatever interleaves, the order rows are the book that Invoicing keeps too: orders
\* appear at once under ids not in use, and none that is on an invoice is cancelled.
THEOREM BookKept == Spec => KeepsBook
  <1>1. Init => OnBook!BookInit
    BY DEF Init, OnBook!BookInit, Ids
  <1> QED
    BY <1>1, BookStep, CountedInductive, InvoiceInductive, PTL DEF Spec, KeepsBook, OnBook!BookSpec

-----------------------------------------------------------------------------
(* The pool only slows the transactions down.                              *)

LEMMA PoolStepIsStep == [PoolNext]_poolVars => [Next]_vars
  <1> SUFFICES ASSUME [PoolNext]_poolVars PROVE [Next]_vars
    OBVIOUS
  <1>1. CASE Outside
    BY <1>1 DEF Outside, Arrive, Next
  <1>2. ASSUME NEW c \in Client, Acquire(c) PROVE [Next]_vars
    BY <1>2 DEF Acquire, Connect, ConnectTimeout, InFlight, Next, Abort
  <1>3. ASSUME NEW c \in Client, Statement(c) \/ Fail(c) PROVE [Next]_vars
    BY <1>3 DEF Statement, Fail, Next
  <1>4. ASSUME NEW c \in Client, Log(c) PROVE [Next]_vars
    BY <1>4 DEF Log, LogConnect, LogInsert, LogFails, LogTimeout
  <1>5. CASE UNCHANGED poolVars
    BY <1>5 DEF poolVars
  <1> QED
    BY <1>1, <1>2, <1>3, <1>4, <1>5 DEF PoolNext

\* Whatever holds of the transactions holds of them on the pool.
THEOREM PoolImplementsStock == PoolSpec => Spec
  <1>1. PoolInit => Init
    BY DEF PoolInit
  <1> QED
    BY <1>1, PoolStepIsStep, PTL DEF PoolSpec, Spec

LEMMA PoolInductive == PoolSpec => []IInv
  BY PoolImplementsStock, Inductive, PTL

-----------------------------------------------------------------------------
(* The inductive invariant.                                                *)

\* Statements a request can be at before it has a connection.
First == {"idle", "purchaseLock", "basketLock", "stornoLock"}

\* Without a connection a transaction has done nothing.
NothingWithout ==
  \A c \in Client \ conn : pc[c] \in First /\ held[c] = {}

\* Ids start at 1, so that 0 in victim stands for no order.
NumberedFromOne ==
  /\ nextId >= 1
  /\ \A o \in orders : o.id >= 1 /\ o.id < nextId
  /\ \A c \in Client : \A o \in made[c] : o.id >= 1 /\ o.id < nextId
  /\ \A c \in Client : pc[c] \in {"idle", "purchaseLock", "basketLock"} => victim[c] = 0
  /\ \A c \in Client : pc[c] = "stornoLock" => victim[c] >= 1

\* The finite sets behind the count of connections.
Counted == IsFiniteSet(conn) /\ IsFiniteSet(logging)

PInv == PoolTypeOK /\ Counted /\ NothingWithout /\ NumberedFromOne

-----------------------------------------------------------------------------
\* Rows of orders get ids from nextId on.
LEMMA LineNumbered ==
  ASSUME TypeOK, NumberedFromOne, NEW c \in Client, NEW d \in Lot, WriteLine(c, d)
  PROVE  /\ nextId' >= nextId /\ nextId' \in Nat
         /\ \A x \in Client : \A o \in made'[x] : o.id >= 1 /\ o.id < nextId'
  <1>1. req[c][d] \in Nat /\ nextId \in Nat /\ nextId' = nextId + req[c][d]
    BY DEF TypeOK, WriteLine
  <1>2. ASSUME NEW x \in Client, NEW o \in made'[x]
        PROVE  o.id >= 1 /\ o.id < nextId'
    <2>1. CASE o \in made[x]
      <3>1. o.id \in Nat
        BY <2>1 DEF TypeOK, Order
      <3> QED
        BY <1>1, <2>1, <3>1 DEF NumberedFromOne
    <2>2. CASE o \notin made[x]
      <3>1. o \in {NewRow(i, d) : i \in nextId .. nextId + req[c][d] - 1}
        BY <1>2, <2>2 DEF WriteLine, TypeOK
      <3>2. PICK i \in nextId .. nextId + req[c][d] - 1 : o = NewRow(i, d)
        BY <3>1
      <3>3. o.id = i
        BY <3>2 DEF NewRow
      <3> QED
        BY <1>1, <3>3 DEF NumberedFromOne
    <2> QED
      BY <2>1, <2>2
  <1> QED
    BY <1>1, <1>2

\* Steps that insert no order row, and change pc and victim as they may.
LEMMA NumberedFrame ==
  ASSUME NumberedFromOne, nextId' = nextId,
         \A o \in orders' : o \in orders \/ \E x \in Client : o \in made[x],
         \A x \in Client : made'[x] \subseteq made[x],
         \A x \in Client : pc'[x] \in {"idle", "purchaseLock", "basketLock"} =>
           victim'[x] = 0,
         \A x \in Client : pc'[x] = "stornoLock" => victim'[x] >= 1
  PROVE  NumberedFromOne'
  BY DEF NumberedFromOne

LEMMA NumberedEnd ==
  ASSUME TypeOK, NumberedFromOne, NEW c \in Client, End(c), nextId' = nextId,
         \A o \in orders' : o \in orders \/ \E x \in Client : o \in made[x]
  PROVE  NumberedFromOne'
  <1>1. \A x \in Client : made'[x] \subseteq made[x]
    BY DEF End, Forget, TypeOK
  <1>2. \A x \in Client :
          /\ pc'[x] \in {"idle", "purchaseLock", "basketLock"} => victim'[x] = 0
          /\ pc'[x] = "stornoLock" => victim'[x] >= 1
    BY DEF End, Forget, TypeOK, NumberedFromOne
  <1> QED
    BY <1>1, <1>2, NumberedFrame

LEMMA NumberedStep ==
  ASSUME TypeOK, NumberedFromOne, NEW c \in Client, Step(c) \/ Rollback(c)
  PROVE  NumberedFromOne'
  <1>1. ASSUME Rollback(c) PROVE NumberedFromOne'
    BY <1>1, NumberedEnd DEF Rollback, tables
  <1>2. CASE Commit(c) \/ StornoCommit(c)
    BY <1>2, NumberedEnd DEF Commit, StornoCommit
  <1>3. ASSUME NEW d \in Lot, WriteLine(c, d), UNCHANGED victim,
               PurchaseWrite(c) \/ BasketWrite(c, d)
        PROVE  NumberedFromOne'
    <2>1. \A x \in Client : pc'[x] = pc[x] \/ pc'[x] = "commit"
      BY <1>3 DEF PurchaseWrite, BasketWrite, TypeOK
    <2>2. UNCHANGED orders /\ \A o \in orders : o.id \in Nat
      BY <1>3, OrderTyped DEF WriteLine
    <2>3. nextId \in Nat
      BY DEF TypeOK
    <2>4. /\ nextId' >= nextId /\ nextId' \in Nat
          /\ \A x \in Client : \A o \in made'[x] : o.id >= 1 /\ o.id < nextId'
      BY <1>3, LineNumbered
    <2>5. \A o \in orders : o.id >= 1 /\ o.id < nextId'
      BY <2>2, <2>3, <2>4 DEF NumberedFromOne
    <2>6. nextId' >= 1
      BY <2>3, <2>4 DEF NumberedFromOne
    <2>7. \A x \in Client :
            /\ pc'[x] \in {"idle", "purchaseLock", "basketLock"} => victim'[x] = 0
            /\ pc'[x] = "stornoLock" => victim'[x] >= 1
      BY <1>3, <2>1 DEF NumberedFromOne
    <2> QED
      BY <2>2, <2>4, <2>5, <2>6, <2>7 DEF NumberedFromOne
  <1>4. CASE PurchaseWrite(c)
    <2>1. PICK d \in held[c] : WriteLine(c, d)
      BY <1>4 DEF PurchaseWrite
    <2>2. d \in Lot /\ UNCHANGED victim
      BY <1>4, <2>1 DEF PurchaseWrite, TypeOK
    <2> QED
      BY <1>3, <1>4, <2>1, <2>2
  <1>5. CASE \E d \in Lot : BasketWrite(c, d)
    BY <1>3, <1>5 DEF BasketWrite
  <1>6. CASE \/ PurchaseLock(c) \/ \E d \in Lot : BasketLockRow(c, d)
             \/ BasketStockOk(c) \/ BasketFifoLock(c) \/ BasketFifoOk(c)
             \/ StornoLock(c) \/ StornoRead(c) \/ StornoWrite(c)
    <2>1. UNCHANGED <<orders, made, victim, nextId>>
      BY <1>6 DEF PurchaseLock, BasketLockRow, BasketStockOk, BasketFifoLock,
                  BasketFifoOk, StornoLock, StornoRead, StornoWrite, tables
    <2>2. \A x \in Client : pc'[x] = pc[x] \/ pc'[x] \notin First
      BY <1>6 DEF PurchaseLock, BasketLockRow, BasketStockOk, BasketFifoLock,
                  BasketFifoOk, StornoLock, StornoRead, StornoWrite, First, TypeOK
    <2>3. \A x \in Client :
            /\ pc'[x] \in {"idle", "purchaseLock", "basketLock"} => victim'[x] = 0
            /\ pc'[x] = "stornoLock" => victim'[x] >= 1
      BY <2>1, <2>2 DEF NumberedFromOne, First
    <2> QED
      BY <2>1, <2>3, NumberedFrame
  <1> QED
    BY <1>1, <1>2, <1>4, <1>5, <1>6
    DEF Step, PurchaseOutOfStock, BasketOutOfStock, BasketRefused, StornoGone, StornoRefused

LEMMA NumberedBegin ==
  ASSUME TypeOK, NumberedFromOne, NEW c \in Client, Arrive(c)
  PROVE  NumberedFromOne'
  <1>1. UNCHANGED <<orders, made, nextId>>
    BY DEF Arrive, PurchaseBegin, BasketBegin, StornoBegin, tables
  <1>2. \A x \in Client \ {c} : pc'[x] = pc[x] /\ victim'[x] = victim[x]
    BY DEF Arrive, PurchaseBegin, BasketBegin, StornoBegin, Begin, TypeOK
  <1>3. /\ pc'[c] \in {"idle", "purchaseLock", "basketLock"} => victim'[c] = 0
        /\ pc'[c] = "stornoLock" => victim'[c] >= 1
    <2>1. CASE \E i \in Ids(orders) : StornoBegin(c, i)
      <3>1. PICK i \in Ids(orders) : StornoBegin(c, i)
        BY <2>1
      <3>2. i >= 1 /\ victim'[c] = i /\ pc'[c] = "stornoLock"
        BY <3>1 DEF StornoBegin, Begin, TypeOK, Ids, NumberedFromOne
      <3> QED
        BY <3>2
    <2>2. CASE \/ \E d \in Lot : PurchaseBegin(c, d)
               \/ \E r \in Baskets : BasketBegin(c, r)
      <3>1. victim[c] = 0 /\ victim' = victim
        BY <2>2 DEF PurchaseBegin, BasketBegin, Begin, NumberedFromOne
      <3>2. pc'[c] # "stornoLock"
        BY <2>2 DEF PurchaseBegin, BasketBegin, Begin, TypeOK
      <3> QED
        BY <3>1, <3>2
    <2> QED
      BY <2>1, <2>2 DEF Arrive
  <1>4. \A x \in Client :
          /\ pc'[x] \in {"idle", "purchaseLock", "basketLock"} => victim'[x] = 0
          /\ pc'[x] = "stornoLock" => victim'[x] >= 1
    BY <1>2, <1>3 DEF NumberedFromOne
  <1> QED
    BY <1>1, <1>4, NumberedFrame

LEMMA NumberedNext ==
  ASSUME TypeOK, NumberedFromOne, [Next]_vars
  PROVE  NumberedFromOne'
  <1>1. ASSUME UNCHANGED <<orders, made, nextId, pc, victim>>
        PROVE  NumberedFromOne'
    BY <1>1 DEF NumberedFromOne
  <1> QED
    BY <1>1, NumberedStep, NumberedBegin
    DEF Next, Arrive, AddStock, InvoiceOrders, Abort, DeadlockVictim, vars

\* The sequence of the order ids only grows.
LEMMA NextIdGrows ==
  ASSUME TypeOK, [Next]_vars
  PROVE  nextId' >= nextId
  <1>1. nextId \in Nat
    BY DEF TypeOK
  <1>2. ASSUME NEW c \in Client, NEW d \in Lot, WriteLine(c, d)
        PROVE  nextId' >= nextId
    BY <1>1, <1>2 DEF WriteLine, TypeOK
  <1>3. ASSUME NEW c \in Client, PurchaseWrite(c) PROVE nextId' >= nextId
    BY <1>2, <1>3 DEF PurchaseWrite, TypeOK
  <1>4. ASSUME NEW c \in Client, NEW d \in Lot, BasketWrite(c, d) PROVE nextId' >= nextId
    BY <1>2, <1>4 DEF BasketWrite
  <1>5. ASSUME NEW c \in Client, Step(c) \/ Rollback(c) PROVE nextId' >= nextId
    BY <1>1, <1>3, <1>4, <1>5
    DEF Step, Rollback, tables, PurchaseOutOfStock, BasketOutOfStock, BasketRefused,
        StornoGone, StornoRefused, Commit, StornoCommit, PurchaseLock, BasketLockRow,
        BasketStockOk, BasketFifoLock, BasketFifoOk, StornoLock, StornoRead, StornoWrite
  <1> QED
    BY <1>1, <1>5
    DEF Next, Abort, DeadlockVictim, AddStock, InvoiceOrders, PurchaseBegin, BasketBegin,
        StornoBegin, tables, vars

LEMMA CountsTyped ==
  ASSUME Counted
  PROVE  Cardinality(conn) \in Nat /\ Cardinality(logging) \in Nat
  BY FS_CardinalityType DEF Counted

LEMMA UnloggedTyped ==
  ASSUME TypeOK, NumberedFromOne, NEW c \in Client
  PROVE  Unlogged(c) \subseteq 1 .. nextId - 1
  BY DEF Unlogged, Ids, TypeOK, Order, NumberedFromOne

LEMMA IntervalGrows ==
  ASSUME NEW m \in Nat, NEW n \in Nat, m <= n
  PROVE  1 .. m - 1 \subseteq 1 .. n - 1
  OBVIOUS

\* Ids that are known stay known as the sequence goes on.
LEMMA KnownIds ==
  ASSUME TypeOK, TypeOK', [Next]_vars, NEW S \in SUBSET (1 .. nextId - 1)
  PROVE  S \subseteq 1 .. nextId' - 1
  <1>1. nextId \in Nat /\ nextId' \in Nat /\ nextId' >= nextId
    BY NextIdGrows DEF TypeOK
  <1>2. 1 .. nextId - 1 \subseteq 1 .. nextId' - 1
    BY <1>1, IntervalGrows
  <1> QED
    BY <1>2

\* A transaction with a connection goes on, or ends and gives it back.
LEMMA ReturnedInv ==
  ASSUME IInv, IInv', PInv, [Next]_vars, NEW c \in conn, c \notin logging,
         Step(c) \/ Rollback(c),
         conn' = Returned(c), UNCHANGED <<logging, audited, dropped>>
  PROVE  PInv'
  <1>1. TypeOK /\ TypeOK' /\ c \in Client
    BY DEF IInv, PInv, PoolTypeOK, InFlight
  <1>2. \A x \in Client \ {c} :
          pc'[x] = pc[x] /\ held'[x] = held[x]
    BY <1>1, StepAlone
  <1>3. conn' \subseteq conn /\ conn' \subseteq InFlight' /\ logging' \subseteq conn'
    BY <1>1, <1>2 DEF Returned, PInv, PoolTypeOK, InFlight
  <1>4. /\ IsFiniteSet(conn') /\ Cardinality(conn') <= Cardinality(conn)
        /\ Cardinality(conn') \in Nat
    BY <1>3, FS_Subset, FS_CardinalityType DEF PInv, Counted
  <1>5. Cardinality(conn') + Cardinality(logging') <= PoolSize
    BY <1>4, CountsTyped, PoolAssumption DEF PInv, PoolTypeOK
  <1>6. audited' \subseteq 1 .. nextId' - 1 /\ dropped' \subseteq 1 .. nextId' - 1
    BY <1>1, KnownIds DEF PInv, PoolTypeOK
  <1>7. NothingWithout'
    <2>1. ASSUME NEW x \in Client \ conn'
          PROVE  pc'[x] \in First /\ held'[x] = {}
      <3>1. CASE x = c
        <4>1. pc'[c] = "idle"
          BY <2>1, <3>1 DEF Returned
        <4>2. held'[c] = {}
          BY <1>1, <4>1 DEF IInv, Own, Before1st
        <4> QED
          BY <3>1, <4>1, <4>2 DEF First
      <3>2. CASE x # c
        BY <1>2, <2>1, <3>2 DEF PInv, NothingWithout, Returned
      <3> QED
        BY <3>1, <3>2
    <2> QED
      BY <2>1 DEF NothingWithout
  <1>8. NumberedFromOne'
    BY <1>1, NumberedNext DEF PInv
  <1> QED
    BY <1>3, <1>4, <1>5, <1>6, <1>7, <1>8 DEF PInv, PoolTypeOK, Counted

\* Steps that leave the transactions alone.
LEMMA PoolOnlyInv ==
  ASSUME IInv, PInv, NEW c \in conn, UNCHANGED vars, UNCHANGED conn,
         \/ logging' = logging \union {c} /\ c \notin logging /\ Free
         \/ logging' = logging \ {c}
         \/ logging' = logging,
         \/ UNCHANGED <<audited, dropped>>
         \/ \E i \in Unlogged(c) :
              \/ audited' = audited \union {i} /\ UNCHANGED dropped
              \/ dropped' = dropped \union {i} /\ UNCHANGED audited
  PROVE  PInv'
  <1>1. TypeOK /\ c \in Client /\ UNCHANGED <<nextId, pc, held, made, orders, victim>>
    BY DEF IInv, PInv, PoolTypeOK, InFlight, vars
  <1>2. conn' \subseteq InFlight' /\ logging' \subseteq conn'
    BY <1>1 DEF PInv, PoolTypeOK, InFlight
  <1>3. /\ IsFiniteSet(logging')
        /\ Cardinality(conn) + Cardinality(logging') <= PoolSize
    <2>1. CASE logging' = logging \union {c} /\ c \notin logging /\ Free
      <3>1. IsFiniteSet(logging') /\ Cardinality(logging') = Cardinality(logging) + 1
        BY <2>1, FS_AddElement DEF PInv, Counted
      <3> QED
        BY <2>1, <3>1, CountsTyped, PoolAssumption DEF Free, PInv
    <2>2. CASE logging' = logging \ {c} \/ logging' = logging
      <3>1. logging' \subseteq logging
        BY <2>2
      <3>2. IsFiniteSet(logging') /\ Cardinality(logging') <= Cardinality(logging)
        BY <3>1, FS_Subset DEF PInv, Counted
      <3>3. Cardinality(logging') \in Nat
        BY <3>2, FS_CardinalityType
      <3> QED
        BY <3>2, <3>3, CountsTyped, PoolAssumption DEF PInv, PoolTypeOK
    <2> QED
      BY <2>1, <2>2
  <1>4. audited' \subseteq 1 .. nextId - 1 /\ dropped' \subseteq 1 .. nextId - 1
    BY <1>1, UnloggedTyped DEF PInv, PoolTypeOK
  <1>5. NothingWithout' /\ NumberedFromOne'
    BY <1>1 DEF PInv, NothingWithout, NumberedFromOne
  <1> QED
    BY <1>1, <1>2, <1>3, <1>4, <1>5 DEF PInv, PoolTypeOK, Counted

\* A request that comes in has done nothing yet.
LEMMA OutsideInv ==
  ASSUME IInv, IInv', PInv, [Next]_vars, Outside,
         UNCHANGED <<conn, logging, audited, dropped>>
  PROVE  PInv'
  <1>1. TypeOK /\ TypeOK'
    BY DEF IInv
  <1>2. UNCHANGED held
    BY DEF Outside, Arrive, AddStock, InvoiceOrders, PurchaseBegin, BasketBegin, StornoBegin
  <1>3. \A x \in Client : pc'[x] = pc[x] \/ (pc[x] = "idle" /\ pc'[x] \in First \ {"idle"})
    BY <1>1 DEF Outside, Arrive, AddStock, InvoiceOrders, PurchaseBegin, BasketBegin,
                StornoBegin, Begin, TypeOK, First
  <1>4. conn \subseteq InFlight'
    BY <1>3 DEF PInv, PoolTypeOK, InFlight
  <1>5. audited \subseteq 1 .. nextId' - 1 /\ dropped \subseteq 1 .. nextId' - 1
    BY <1>1, KnownIds DEF PInv, PoolTypeOK
  <1>6. NothingWithout'
    BY <1>2, <1>3 DEF PInv, NothingWithout
  <1>7. NumberedFromOne'
    BY <1>1, NumberedNext DEF PInv
  <1> QED
    BY <1>4, <1>5, <1>6, <1>7 DEF PInv, PoolTypeOK, Counted

LEMMA AcquireInv ==
  ASSUME IInv, IInv', PInv, [Next]_vars, NEW c \in Client, Acquire(c)
  PROVE  PInv'
  <1>1. TypeOK /\ TypeOK'
    BY DEF IInv
  <1>2. CASE Connect(c)
    <2>1. conn' = conn \union {c} /\ c \notin conn /\ Free /\ c \in InFlight
      BY <1>2 DEF Connect
    <2>2. UNCHANGED <<pc, held, made, orders, victim, nextId, logging, audited, dropped>>
      BY <1>2 DEF Connect, vars
    <2>3. IsFiniteSet(conn') /\ Cardinality(conn') = Cardinality(conn) + 1
      BY <2>1, FS_AddElement DEF PInv, Counted
    <2>4. Cardinality(conn') + Cardinality(logging) <= PoolSize
      BY <2>1, <2>3, CountsTyped, PoolAssumption DEF Free, PInv
    <2>5. conn' \subseteq InFlight' /\ logging \subseteq conn'
      BY <2>1, <2>2 DEF PInv, PoolTypeOK, InFlight
    <2>6. NothingWithout' /\ NumberedFromOne'
      BY <2>1, <2>2 DEF PInv, NothingWithout, NumberedFromOne
    <2> QED
      BY <2>2, <2>3, <2>4, <2>5, <2>6 DEF PInv, PoolTypeOK, Counted
  <1>3. CASE ConnectTimeout(c)
    <2>1. Rollback(c) /\ c \notin conn /\ UNCHANGED <<conn, logging, audited, dropped>>
      BY <1>3 DEF ConnectTimeout
    <2>2. \A x \in Client \ {c} : pc'[x] = pc[x] /\ held'[x] = held[x]
      BY <1>1, <2>1, StepAlone
    <2>3. pc'[c] = "idle" /\ held'[c] = {}
      BY <1>1, <2>1 DEF Rollback, End, Forget, TypeOK
    <2>4. conn \subseteq InFlight'
      BY <2>1, <2>2 DEF PInv, PoolTypeOK, InFlight
    <2>5. audited \subseteq 1 .. nextId' - 1 /\ dropped \subseteq 1 .. nextId' - 1
      BY <1>1, KnownIds DEF PInv, PoolTypeOK
    <2>6. NothingWithout'
      BY <2>1, <2>2, <2>3 DEF PInv, NothingWithout, First
    <2>7. NumberedFromOne'
      BY <1>1, NumberedNext DEF PInv
    <2> QED
      BY <2>1, <2>4, <2>5, <2>6, <2>7 DEF PInv, PoolTypeOK, Counted
  <1> QED
    BY <1>2, <1>3 DEF Acquire

LEMMA PoolNextInv ==
  ASSUME IInv, IInv', PInv, [PoolNext]_poolVars
  PROVE  PInv'
  <1>0. [Next]_vars
    BY PoolStepIsStep
  <1>1. CASE Outside /\ UNCHANGED <<conn, logging, audited, dropped>>
    BY <1>0, <1>1, OutsideInv
  <1>2. ASSUME NEW c \in Client, Acquire(c) PROVE PInv'
    BY <1>0, <1>2, AcquireInv
  <1>3. ASSUME NEW c \in Client, Statement(c) PROVE PInv'
    BY <1>0, <1>3, ReturnedInv DEF Statement, Logged
  <1>4. ASSUME NEW c \in Client, Fail(c) PROVE PInv'
    BY <1>0, <1>4, ReturnedInv DEF Fail, Abort, DeadlockVictim
  <1>5. ASSUME NEW c \in Client, Log(c) PROVE PInv'
    <2>1. CASE LogConnect(c)
      BY <2>1, PoolOnlyInv DEF LogConnect, AwaitsLog
    <2>2. CASE LogInsert(c)
      <3>1. c \in conn
        BY <2>2 DEF LogInsert, PInv, PoolTypeOK
      <3> QED
        BY <2>2, <3>1, PoolOnlyInv DEF LogInsert
    <2>3. CASE LogFails(c)
      <3>1. c \in conn
        BY <2>3 DEF LogFails, PInv, PoolTypeOK
      <3> QED
        BY <2>3, <3>1, PoolOnlyInv DEF LogFails
    <2>4. CASE LogTimeout(c)
      BY <2>4, PoolOnlyInv DEF LogTimeout, AwaitsLog
    <2> QED
      BY <1>5, <2>1, <2>2, <2>3, <2>4 DEF Log
  <1>6. CASE UNCHANGED poolVars
    BY <1>6 DEF poolVars, vars, PInv, PoolTypeOK, Counted, NothingWithout,
                NumberedFromOne, InFlight
  <1> QED
    BY <1>1, <1>2, <1>3, <1>4, <1>5, <1>6 DEF PoolNext

LEMMA PoolInvariant == PoolSpec => []PInv
  <1>1. PoolInit => PInv
    <2> SUFFICES ASSUME PoolInit PROVE PInv
      OBVIOUS
    <2>1. IsFiniteSet(conn) /\ IsFiniteSet(logging)
          /\ Cardinality(conn) = 0 /\ Cardinality(logging) = 0
      BY FS_EmptySet DEF PoolInit
    <2>2. NothingWithout /\ NumberedFromOne
      BY DEF PoolInit, Init, NothingWithout, NumberedFromOne, First
    <2> QED
      BY <2>1, <2>2, PoolAssumption DEF PoolInit, PInv, PoolTypeOK, Counted
  <1>2. IInv /\ IInv' /\ PInv /\ [PoolNext]_poolVars => PInv'
    BY PoolNextInv
  <1> QED
    BY <1>1, <1>2, PoolInductive, PTL DEF PoolSpec

-----------------------------------------------------------------------------
(* What follows from it.                                                   *)

\* However many requests come, the pool is never overdrawn, and connections
\* belong to requests in flight.
THEOREM PoolTyped == PoolSpec => []PoolTypeOK
  <1>1. PInv => PoolTypeOK
    BY DEF PInv
  <1> QED
    BY <1>1, PoolInvariant, PTL

\* No order is committed before its log call has come back: every order on
\* the books has an audit row, or one whose loss was an error.
THEOREM AuditComplete == PoolSpec => []OrdersAudited
  <1>1. PoolInit => OrdersAudited
    BY DEF PoolInit, Init, OrdersAudited, Ids
  <1>2. OrdersAudited /\ [PoolNext]_poolVars => OrdersAudited'
    <2> SUFFICES ASSUME OrdersAudited, [PoolNext]_poolVars PROVE OrdersAudited'
      OBVIOUS
    <2>1. ASSUME orders' \subseteq orders, audited \subseteq audited', dropped \subseteq dropped'
          PROVE  OrdersAudited'
      BY <2>1 DEF OrdersAudited, Ids
    <2>2. ASSUME NEW c \in Client, Commit(c), Logged(c), UNCHANGED <<audited, dropped>>
          PROVE  OrdersAudited'
      <3>1. Ids(made[c]) \subseteq audited \union dropped
        BY <2>2 DEF Logged, Unlogged
      <3>2. orders' = orders \union made[c]
        BY <2>2 DEF Commit
      <3> QED
        BY <2>2, <3>1, <3>2 DEF OrdersAudited, Ids
    <2>3. ASSUME NEW c \in Client, Step(c) \/ Rollback(c), ~Commit(c)
          PROVE  orders' \subseteq orders
      BY <2>3
      DEF Step, Rollback, tables, PurchaseOutOfStock, BasketOutOfStock, BasketRefused,
          StornoGone, StornoRefused, StornoCommit, PurchaseLock, PurchaseWrite,
          BasketLockRow, BasketStockOk, BasketFifoLock, BasketFifoOk, BasketWrite,
          WriteLine, StornoLock, StornoRead, StornoWrite
    <2>4. CASE Outside /\ UNCHANGED <<conn, logging, audited, dropped>>
      BY <2>1, <2>4 DEF Outside, Arrive, AddStock, InvoiceOrders, PurchaseBegin, BasketBegin,
                        StornoBegin, tables
    <2>5. ASSUME NEW c \in Client, Acquire(c) PROVE OrdersAudited'
      BY <2>1, <2>5 DEF Acquire, Connect, ConnectTimeout, Rollback, tables, vars
    <2>6. ASSUME NEW c \in Client, Statement(c) PROVE OrdersAudited'
      BY <2>1, <2>2, <2>3, <2>6 DEF Statement
    <2>7. ASSUME NEW c \in Client, Fail(c) PROVE OrdersAudited'
      BY <2>1, <2>7 DEF Fail, Abort, DeadlockVictim, Rollback, tables
    <2>8. ASSUME NEW c \in Client, Log(c) PROVE OrdersAudited'
      BY <2>1, <2>8 DEF Log, LogConnect, LogInsert, LogFails, LogTimeout, vars
    <2>9. CASE UNCHANGED poolVars
      BY <2>1, <2>9 DEF poolVars, vars
    <2> QED
      BY <2>4, <2>5, <2>6, <2>7, <2>8, <2>9 DEF PoolNext
  <1> QED
    BY <1>1, <1>2, PTL DEF PoolSpec

\* When everybody waits, it is for row locks in a circle, or the pool is
\* spent and a transaction wants a second connection - in any pool.
THEOREM OnlySpentPoolsHang == PoolSpec => []HangsOnlyWhenSpent
  <1>1. IInv /\ PInv => HangsOnlyWhenSpent
    <2> SUFFICES ASSUME IInv, PInv, InFlight # {}, \A c \in InFlight : Blocked(c),
                        ~(Cardinality(conn) = PoolSize /\ \E c \in conn : AwaitsLog(c))
                 PROVE  \E S \in SUBSET InFlight : WaitCycle(S)
      BY DEF HangsOnlyWhenSpent
    <2>1. conn \subseteq InFlight /\ logging \subseteq conn /\ InFlight \subseteq Client
      BY DEF PInv, PoolTypeOK, InFlight
    <2>2. logging = {}
      <3>1. ASSUME NEW c \in logging PROVE FALSE
        <4>1. Blocked(c) /\ c \in conn
          BY <2>1, <3>1
        <4> QED
          BY <3>1, <4>1 DEF Blocked, AwaitsLog, Logged
      <3> QED
        BY <3>1
    <2>3. ~Free => Cardinality(conn) = PoolSize
      <3>1. Cardinality(logging) = 0
        BY <2>2, FS_EmptySet
      <3> QED
        BY <3>1, CountsTyped, PoolAssumption DEF Free, PInv, PoolTypeOK
    <2>4. \A c \in conn : ~(AwaitsLog(c) /\ ~Free)
      BY <2>3
    <2>5. \A c \in conn : \E x \in Client : WaitsFor(c, x)
      BY <2>1, <2>4 DEF Blocked
    <2>6. conn # {}
      <3>1. SUFFICES ASSUME conn = {} PROVE FALSE
        OBVIOUS
      <3>2. ~Free
        BY <2>1, <3>1 DEF Blocked, AwaitsLog
      <3>3. Cardinality(conn) = 0
        BY <3>1, FS_EmptySet
      <3> QED
        BY <2>3, <3>2, <3>3, PoolAssumption
    <2>7. ASSUME NEW c \in conn, NEW x \in Client, WaitsFor(c, x)
          PROVE  x \in conn
      <3>1. SUFFICES ASSUME x \notin conn PROVE FALSE
        OBVIOUS
      <3>2. pc[x] \in First /\ held[x] = {}
        BY <3>1 DEF PInv, NothingWithout
      <3>3. /\ pc[c] = "stornoLock" /\ victim[x] = victim[c]
            /\ pc[x] \notin {"idle", "stornoLock"}
        BY <2>7, <3>2 DEF WaitsFor
      <3>4. victim[x] = 0 /\ victim[c] >= 1
        BY <2>1, <3>2, <3>3 DEF PInv, NumberedFromOne, First
      <3> QED
        BY <3>3, <3>4
    <2>8. WaitCycle(conn)
      BY <2>5, <2>6, <2>7 DEF WaitCycle
    <2> QED
      BY <2>1, <2>8
  <1> QED
    BY <1>1, PoolInductive, PoolInvariant, PTL

=============================================================================
