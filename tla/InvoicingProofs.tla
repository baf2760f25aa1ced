-------------------------- MODULE InvoicingProofs --------------------------
(* Type correctness of Invoicing, and its invariants: an order is only     *)
(* ever on an invoice that counts it, and invoiced orders are kept.        *)
EXTENDS Invoicing, TLAPS

LEMMA NoLinkTyped == NoLink \in [Order -> Nat]
  BY DEF NoLink

LEMMA GroupTyped ==
  ASSUME TypeOK, NEW c \in Client, NEW s, NEW b
  PROVE  Group(c, s, b) \subseteq read[c] /\ Group(c, s, b) \subseteq Order
  BY DEF TypeOK, Group

LEMMA EndTyped ==
  ASSUME TypeOK, NEW c \in Client, End(c)
  PROVE  /\ pc' \in [Client -> PC]
         /\ read' \in [Client -> SUBSET Order]
         /\ current' \in [Client -> Nat]
         /\ todo' \in [Client -> SUBSET Order]
         /\ made' \in [Client -> SUBSET Invoice]
         /\ linked' \in [Client -> [Order -> Nat]]
         /\ locked' \in [Client -> SUBSET Order]
  BY NoLinkTyped DEF TypeOK, End, PC

LEMMA CreateTyped ==
  ASSUME TypeOK, NEW c \in Client, NEW s \in Supplier, NEW b \in Buyer,
         CreateInvoice(c, s, b)
  PROVE  TypeOK'
  <1>1. NewInvoice(c, s, b) \in Invoice
    BY GroupTyped DEF NewInvoice, Invoice, TypeOK
  <1>2. made' \in [Client -> SUBSET Invoice]
    BY <1>1 DEF CreateInvoice, TypeOK
  <1>3. todo' \in [Client -> SUBSET Order] /\ read' \in [Client -> SUBSET Order]
    BY GroupTyped DEF CreateInvoice, ToLink, TypeOK
  <1> QED
    BY <1>2, <1>3 DEF CreateInvoice, TypeOK, PC, tables

LEMMA CommitTyped ==
  ASSUME TypeOK, NEW c \in Client, CommitInvoices(c)
  PROVE  TypeOK'
  <1>1. invoiceOf' \in [Order -> Nat] /\ invoices' \subseteq Invoice
    BY DEF CommitInvoices, TypeOK
  <1> QED
    BY <1>1, EndTyped DEF CommitInvoices, TypeOK

\* The actions of one transaction.
Step(c) ==
  \/ \E S \in SUBSET Supplier, B \in SUBSET Buyer : Generate(c, S, B)
  \/ \E s \in Supplier, b \in Buyer : CreateInvoice(c, s, b)
  \/ \E o \in Order : LinkOrder(c, o)
  \/ NextGroup(c)
  \/ CommitInvoices(c)
  \/ \E o \in Order : StornoLock(c, o)
  \/ StornoCommit(c)
  \/ Abort(c)

LEMMA NextSteps ==
  Next => (\E o \in Order : Place(o)) \/ (\E c \in Client : Step(c))
  BY DEF Next, Step, generateInvoices, generateInvoiceForBuyer, generateInvoicesForUser

LEMMA StepTyped ==
  ASSUME TypeOK, NEW c \in Client, Step(c)
  PROVE  TypeOK'
  <1>1. ASSUME NEW S, NEW B, Generate(c, S, B) PROVE TypeOK'
    BY <1>1 DEF Generate, Uninvoiced, TypeOK, PC, tables
  <1>2. ASSUME NEW o \in Order, LinkOrder(c, o) PROVE TypeOK'
    <2>1. linked' \in [Client -> [Order -> Nat]] /\ locked' \in [Client -> SUBSET Order]
      <3>1. CASE o \in orders
        <4>1. /\ linked' = [linked EXCEPT ![c][o] = current[c]]
              /\ locked' = [locked EXCEPT ![c] = @ \union {o}]
          BY <1>2, <3>1 DEF LinkOrder
        <4>2. linked' \in [Client -> [Order -> Nat]]
          BY <4>1 DEF TypeOK
        <4>3. locked' \in [Client -> SUBSET Order]
          BY <4>1 DEF TypeOK
        <4> QED
          BY <4>2, <4>3
      <3>2. CASE o \notin orders
        BY <1>2, <3>2 DEF LinkOrder, TypeOK
      <3> QED
        BY <3>1, <3>2
    <2> QED
      BY <1>2, <2>1 DEF LinkOrder, TypeOK, tables
  <1>3. CASE NextGroup(c)
    BY <1>3 DEF NextGroup, TypeOK, PC, tables
  <1>4. ASSUME NEW o \in Order, StornoLock(c, o) PROVE TypeOK'
    BY <1>4 DEF StornoLock, TypeOK, PC, tables
  <1>5. CASE StornoCommit(c)
    BY <1>5, EndTyped DEF StornoCommit, TypeOK
  <1>6. CASE Abort(c)
    BY <1>6, EndTyped DEF Abort, TypeOK, tables
  <1> QED
    BY <1>1, <1>2, <1>3, <1>4, <1>5, <1>6, CreateTyped, CommitTyped DEF Step

LEMMA TypedInit == Init => TypeOK
  BY NoLinkTyped DEF Init, TypeOK, PC

LEMMA TypedNext == TypeOK /\ [Next]_vars => TypeOK'
  <1> SUFFICES ASSUME TypeOK, [Next]_vars PROVE TypeOK'
    OBVIOUS
  <1>1. ASSUME NEW o \in Order, Place(o) PROVE TypeOK'
    BY <1>1 DEF Place, TypeOK
  <1>2. CASE UNCHANGED vars
    BY <1>2 DEF vars, TypeOK
  <1> QED
    BY <1>1, <1>2, StepTyped, NextSteps

\* The tables and what the transactions keep have their types.
THEOREM TypeCorrect == Spec => []TypeOK
  BY TypedInit, TypedNext, PTL DEF Spec

-----------------------------------------------------------------------------
(* What each transaction knows about the orders it has locked.             *)

Matches(i) == \A o \in i.counted : BuyerOf[o] = i.buyer /\ SupplierOf[o] = i.supplier

\* A row lock has one holder.
Locks == \A c, x \in Client : c # x => locked[c] \intersect locked[x] = {}

Own(c) ==
  /\ pc[c] = "idle" => locked[c] = {}
  /\ pc[c] \in {"idle", "storno"} => linked[c] = NoLink /\ made[c] = {}
  /\ pc[c] = "storno" => \A o \in locked[c] : invoiceOf[o] = 0
  /\ pc[c] = "link" => \E i \in made[c] : i.id = current[c] /\ todo[c] \subseteq i.counted
  /\ \A i \in made[c] : Matches(i)
  /\ \A o \in Order : linked[c][o] # 0 =>
       /\ o \in locked[c] /\ o \in orders
       /\ \E i \in made[c] : i.id = linked[c][o] /\ o \in i.counted

LInv ==
  /\ TypeOK /\ Locks
  /\ \A c \in Client : Own(c)
  /\ LinkedIsCounted /\ InvoicedKept

SameTx(x) ==
  /\ pc'[x] = pc[x] /\ current'[x] = current[x] /\ todo'[x] = todo[x]
  /\ made'[x] = made[x] /\ linked'[x] = linked[x] /\ locked'[x] = locked[x]

\* A transaction keeps what it knows while the rows it has locked stay.
LEMMA OwnKept ==
  ASSUME NEW x \in Client, Own(x), SameTx(x),
         \A o \in locked[x] : invoiceOf'[o] = invoiceOf[o] /\ (o \in orders => o \in orders')
  PROVE  Own(x)'
  BY DEF Own, SameTx, Matches

LEMMA EndOthers ==
  ASSUME TypeOK, NEW c \in Client, End(c)
  PROVE  /\ \A x \in Client \ {c} : SameTx(x)
         /\ Own(c)'
  <1>1. \A x \in Client \ {c} : SameTx(x)
    BY DEF TypeOK, End, SameTx
  <1>2. /\ pc'[c] = "idle" /\ locked'[c] = {} /\ linked'[c] = NoLink /\ made'[c] = {}
    BY DEF TypeOK, End
  <1>3. Own(c)'
    BY <1>2 DEF Own, NoLink
  <1> QED
    BY <1>1, <1>3

\* A step of c that writes no table.
LEMMA PrivateStep ==
  ASSUME LInv, TypeOK', NEW c \in Client, Locks', Own(c)',
         UNCHANGED <<orders, invoiceOf, invoices>>,
         \A x \in Client \ {c} : SameTx(x)
  PROVE  LInv'
  <1>1. \A x \in Client : Own(x)'
    BY OwnKept DEF LInv
  <1>2. LinkedIsCounted' /\ InvoicedKept'
    BY DEF LInv, LinkedIsCounted, InvoicedKept
  <1> QED
    BY <1>1, <1>2 DEF LInv

\* The end of a transaction: what is left to show is what it did to the tables.
LEMMA EndStep ==
  ASSUME LInv, TypeOK', NEW c \in Client, End(c),
         LinkedIsCounted', InvoicedKept',
         \A o \in Order \ locked[c] :
           invoiceOf'[o] = invoiceOf[o] /\ (o \in orders => o \in orders')
  PROVE  LInv'
  <1>1. TypeOK /\ Own(c)' /\ \A x \in Client \ {c} : SameTx(x)
    BY EndOthers DEF LInv
  <1>2. locked'[c] = {}
    BY <1>1 DEF End, TypeOK
  <1>3. Locks'
    BY <1>1, <1>2 DEF LInv, Locks, SameTx
  <1>4. ASSUME NEW x \in Client \ {c} PROVE Own(x)'
    <2>1. \A o \in locked[x] : o \in Order \ locked[c]
      BY <1>1 DEF LInv, Locks, TypeOK
    <2> QED
      BY <1>1, <2>1, OwnKept DEF LInv
  <1> QED
    BY <1>1, <1>3, <1>4 DEF LInv

LEMMA PlaceInv ==
  ASSUME LInv, TypeOK', NEW o \in Order, Place(o)
  PROVE  LInv'
  <1>1. \A x \in Client : SameTx(x)
    BY DEF Place, SameTx
  <1>2. \A x \in Client : Own(x)'
    BY <1>1, OwnKept DEF LInv, Place
  <1>3. Locks' /\ LinkedIsCounted' /\ InvoicedKept'
    BY DEF LInv, Place, Locks, LinkedIsCounted, InvoicedKept
  <1> QED
    BY <1>2, <1>3 DEF LInv

LEMMA GenerateInv ==
  ASSUME LInv, TypeOK', NEW c \in Client, NEW S, NEW B, Generate(c, S, B)
  PROVE  LInv'
  <1>1. /\ TypeOK /\ pc[c] = "idle" /\ Own(c)
        /\ UNCHANGED <<orders, invoiceOf, invoices, current, todo, made, linked, locked>>
        /\ pc' = [pc EXCEPT ![c] = "create"]
    BY DEF LInv, Generate, tables
  <1>2. pc'[c] = "create" /\ \A x \in Client \ {c} : SameTx(x)
    BY <1>1 DEF TypeOK, SameTx
  <1>3. Own(c)' /\ Locks'
    BY <1>1, <1>2 DEF Own, LInv, Locks, Matches
  <1> QED
    BY <1>1, <1>2, <1>3, PrivateStep

LEMMA CreateInv ==
  ASSUME LInv, TypeOK', NEW c \in Client, NEW s \in Supplier, NEW b \in Buyer,
         CreateInvoice(c, s, b)
  PROVE  LInv'
  <1> DEFINE i == NewInvoice(c, s, b)
  <1>1. /\ TypeOK /\ pc[c] = "create" /\ Own(c)
        /\ UNCHANGED <<orders, invoiceOf, invoices, linked, locked>>
        /\ pc' = [pc EXCEPT ![c] = "link"]
        /\ made' = [made EXCEPT ![c] = @ \union {i}]
        /\ current' = [current EXCEPT ![c] = nextId]
        /\ todo' = [todo EXCEPT ![c] = Group(c, s, b)]
    BY DEF LInv, CreateInvoice, ToLink, tables
  <1>2. /\ pc'[c] = "link" /\ made'[c] = made[c] \union {i}
        /\ current'[c] = nextId /\ todo'[c] = Group(c, s, b)
        /\ \A x \in Client \ {c} : SameTx(x)
    BY <1>1 DEF TypeOK, SameTx
  <1>3. i.id = nextId /\ i.counted = Group(c, s, b) /\ Matches(i)
    BY DEF NewInvoice, Matches, Group
  <1> HIDE DEF i
  <1>4. Own(c)'
    <2>1. \E j \in made'[c] : j.id = current'[c] /\ todo'[c] \subseteq j.counted
      BY <1>2, <1>3
    <2>2. \A j \in made'[c] : Matches(j)
      BY <1>1, <1>2, <1>3 DEF Own
    <2>3. \A o \in Order : linked'[c][o] # 0 =>
            /\ o \in locked'[c] /\ o \in orders'
            /\ \E j \in made'[c] : j.id = linked'[c][o] /\ o \in j.counted
      BY <1>1, <1>2 DEF Own
    <2> QED
      BY <1>2, <2>1, <2>2, <2>3 DEF Own, Matches
  <1>5. Locks'
    BY <1>1 DEF LInv, Locks
  <1> QED
    BY <1>1, <1>2, <1>4, <1>5, PrivateStep

LEMMA LinkInv ==
  ASSUME LInv, TypeOK', NEW c \in Client, NEW o \in Order, LinkOrder(c, o)
  PROVE  LInv'
  <1>1. /\ TypeOK /\ pc[c] = "link" /\ Own(c) /\ o \in todo[c] /\ Free(c, o)
        /\ UNCHANGED <<orders, invoiceOf, invoices, pc, current, made>>
        /\ todo' = [todo EXCEPT ![c] = @ \ {o}]
    BY DEF LInv, LinkOrder, tables
  <1>2. todo'[c] = todo[c] \ {o} /\ \A x \in Client \ {c} : todo'[x] = todo[x]
    BY <1>1 DEF TypeOK
  <1>3. PICK i \in made[c] : i.id = current[c] /\ todo[c] \subseteq i.counted
    BY <1>1 DEF Own
  <1>4. CASE o \notin orders
    <2>1. UNCHANGED <<linked, locked>>
      BY <1>4 DEF LinkOrder
    <2>2. Own(c)' /\ Locks' /\ \A x \in Client \ {c} : SameTx(x)
      BY <1>1, <1>2, <2>1 DEF Own, LInv, Locks, SameTx, Matches
    <2> QED
      BY <1>1, <2>2, PrivateStep
  <1>5. CASE o \in orders
    <2>1. /\ locked' = [locked EXCEPT ![c] = @ \union {o}]
          /\ linked' = [linked EXCEPT ![c][o] = current[c]]
      BY <1>5 DEF LinkOrder
    <2>2. /\ locked'[c] = locked[c] \union {o}
          /\ \A x \in Client \ {c} : locked'[x] = locked[x] /\ linked'[x] = linked[x]
          /\ linked'[c][o] = current[c]
          /\ \A p \in Order \ {o} : linked'[c][p] = linked[c][p]
      BY <1>1, <2>1 DEF TypeOK
    <2>3. Locks'
      BY <1>1, <2>2 DEF LInv, Locks, Free
    <2>4. \A x \in Client \ {c} : SameTx(x)
      BY <1>1, <1>2, <2>2 DEF SameTx
    <2>5. ASSUME NEW p \in Order, linked'[c][p] # 0
          PROVE  /\ p \in locked'[c] /\ p \in orders'
                 /\ \E j \in made'[c] : j.id = linked'[c][p] /\ p \in j.counted
      <3>1. CASE p = o
        BY <1>1, <1>3, <1>5, <2>2, <3>1
      <3>2. CASE p # o
        BY <1>1, <2>2, <2>5, <3>2 DEF Own
      <3> QED
        BY <3>1, <3>2
    <2>6. Own(c)'
      <3>1. pc'[c] = "link" /\ \E j \in made'[c] : j.id = current'[c] /\ todo'[c] \subseteq j.counted
        BY <1>1, <1>2, <1>3
      <3>2. \A j \in made'[c] : Matches(j)
        BY <1>1 DEF Own
      <3> QED
        BY <2>5, <3>1, <3>2 DEF Own, Matches
    <2> QED
      BY <1>1, <2>3, <2>4, <2>6, PrivateStep
  <1> QED
    BY <1>4, <1>5

LEMMA CommitInv ==
  ASSUME LInv, TypeOK', NEW c \in Client, CommitInvoices(c)
  PROVE  LInv'
  <1>1. /\ TypeOK /\ Own(c) /\ End(c) /\ orders' = orders
        /\ invoices' = invoices \union made[c]
        /\ invoiceOf' = [o \in Order |-> IF linked[c][o] # 0 THEN linked[c][o] ELSE invoiceOf[o]]
    BY DEF LInv, CommitInvoices
  <1>2. ASSUME NEW o \in Order, invoiceOf'[o] # 0
        PROVE  /\ o \in orders
               /\ \E i \in invoices' :
                    /\ i.id = invoiceOf'[o] /\ o \in i.counted
                    /\ i.buyer = BuyerOf[o] /\ i.supplier = SupplierOf[o]
    <2>1. CASE linked[c][o] # 0
      <3>1. PICK i \in made[c] : i.id = linked[c][o] /\ o \in i.counted
        BY <1>1, <2>1 DEF Own
      <3>2. o \in orders /\ Matches(i)
        BY <1>1, <2>1 DEF Own
      <3> QED
        BY <1>1, <2>1, <3>1, <3>2 DEF Matches
    <2>2. CASE linked[c][o] = 0
      BY <1>1, <1>2, <2>2 DEF LInv, LinkedIsCounted, InvoicedKept
    <2> QED
      BY <2>1, <2>2
  <1>3. \A o \in Order \ locked[c] : invoiceOf'[o] = invoiceOf[o]
    BY <1>1 DEF Own
  <1>4. LinkedIsCounted' /\ InvoicedKept'
    BY <1>1, <1>2 DEF LinkedIsCounted, InvoicedKept
  <1> QED
    BY <1>1, <1>3, <1>4, EndStep

LEMMA StornoLockInv ==
  ASSUME LInv, TypeOK', NEW c \in Client, NEW o \in Order, StornoLock(c, o)
  PROVE  LInv'
  <1>1. /\ TypeOK /\ pc[c] = "idle" /\ Own(c) /\ Free(c, o) /\ MayStorno(o)
        /\ UNCHANGED <<orders, invoiceOf, invoices, current, todo, made, linked>>
        /\ pc' = [pc EXCEPT ![c] = "storno"] /\ locked' = [locked EXCEPT ![c] = {o}]
    BY DEF LInv, StornoLock, tables
  <1>2. pc'[c] = "storno" /\ locked'[c] = {o} /\ \A x \in Client \ {c} : SameTx(x)
    BY <1>1 DEF TypeOK, SameTx
  <1>3. Locks'
    BY <1>1, <1>2 DEF LInv, Locks, Free, SameTx
  <1>4. Own(c)'
    BY <1>1, <1>2 DEF Own, MayStorno, NoLink
  <1> QED
    BY <1>1, <1>2, <1>3, <1>4, PrivateStep

LEMMA StornoCommitInv ==
  ASSUME LInv, TypeOK', NEW c \in Client, StornoCommit(c)
  PROVE  LInv'
  <1>1. /\ TypeOK /\ Own(c) /\ End(c) /\ orders' = orders \ locked[c]
        /\ UNCHANGED <<invoiceOf, invoices>>
        /\ \A o \in locked[c] : invoiceOf[o] = 0
    BY DEF LInv, StornoCommit, Own
  <1>2. LinkedIsCounted' /\ InvoicedKept'
    BY <1>1 DEF LInv, LinkedIsCounted, InvoicedKept
  <1> QED
    BY <1>1, <1>2, EndStep

LEMMA NextGroupInv ==
  ASSUME LInv, TypeOK', NEW c \in Client, NextGroup(c)
  PROVE  LInv'
  <1>1. /\ TypeOK /\ Own(c)
        /\ UNCHANGED <<orders, invoiceOf, invoices, current, todo, made, linked, locked>>
        /\ pc' = [pc EXCEPT ![c] = "create"]
    BY DEF LInv, NextGroup, tables
  <1>2. pc'[c] = "create" /\ \A x \in Client \ {c} : SameTx(x)
    BY <1>1 DEF TypeOK, SameTx
  <1>3. Own(c)' /\ Locks'
    BY <1>1, <1>2 DEF Own, LInv, Locks, Matches
  <1> QED
    BY <1>1, <1>2, <1>3, PrivateStep

LEMMA AbortInv ==
  ASSUME LInv, TypeOK', NEW c \in Client, Abort(c)
  PROVE  LInv'
  <1>1. End(c) /\ UNCHANGED <<orders, invoiceOf, invoices>>
    BY DEF Abort, tables
  <1>2. LinkedIsCounted' /\ InvoicedKept'
    BY <1>1 DEF LInv, LinkedIsCounted, InvoicedKept
  <1> QED
    BY <1>1, <1>2, EndStep

LEMMA LInvInit == Init => LInv
  <1> SUFFICES ASSUME Init PROVE LInv
    OBVIOUS
  <1>1. Locks /\ \A c \in Client : Own(c)
    BY DEF Init, Locks, Own, NoLink
  <1>2. LinkedIsCounted /\ InvoicedKept
    BY DEF Init, LinkedIsCounted, InvoicedKept, NoLink
  <1> QED
    BY <1>1, <1>2, TypedInit DEF LInv

LEMMA LInvNext == LInv /\ [Next]_vars => LInv'
  <1> SUFFICES ASSUME LInv, [Next]_vars PROVE LInv'
    OBVIOUS
  <1>1. TypeOK'
    BY TypedNext DEF LInv
  <1>2. ASSUME NEW c \in Client, Step(c) PROVE LInv'
    BY <1>1, <1>2, GenerateInv, CreateInv, LinkInv, NextGroupInv, CommitInv,
       StornoLockInv, StornoCommitInv, AbortInv DEF Step
  <1>3. CASE UNCHANGED vars
    BY <1>3 DEF vars, LInv, TypeOK, Locks, Own, LinkedIsCounted, InvoicedKept
  <1> QED
    BY <1>1, <1>2, <1>3, PlaceInv, NextSteps

LEMMA LInvAlways == Spec => []LInv
  BY LInvInit, LInvNext, PTL DEF Spec

\* However generations and stornos race, an order is only ever put on an
\* invoice of its own buyer and supplier whose total counts it.
THEOREM OrdersOnTheirInvoice == Spec => []LinkedIsCounted
  <1>1. LInv => LinkedIsCounted
    BY DEF LInv
  <1> QED
    BY <1>1, LInvAlways, PTL

\* ... and no order that is on an invoice is cancelled.
THEOREM InvoicedOrdersKept == Spec => []InvoicedKept
  <1>1. LInv => InvoicedKept
    BY DEF LInv
  <1> QED
    BY <1>1, LInvAlways, PTL

-----------------------------------------------------------------------------
(* What becomes of the orders that were counted, whoever races; and where  *)
(* totals are exact.                                                       *)

FreshIds ==
  /\ \A i \in invoices : 0 < i.id /\ i.id < nextId
  /\ \A c \in Client : \A i \in made[c] : 0 < i.id /\ i.id < nextId
  /\ \A c \in Client : \A i \in made[c], j \in invoices : i.id # j.id
  /\ \A c \in Client : \A i, j \in made[c] : i.id = j.id => i = j
  /\ \A c, x \in Client : c # x => \A i \in made[c], j \in made[x] : i.id # j.id
  /\ nextId > 0

\* What was read has been there.
KnowsPlaced ==
  /\ orders \subseteq placed
  /\ \A c \in Client : read[c] \subseteq placed /\ \A i \in made[c] : i.counted \subseteq placed

\* An order is counted once by a transaction, and linked to the invoice that
\* counts it unless the UPDATE has not reached it yet or found it gone.
Linking(c) ==
  /\ \A i \in made[c] : i.counted \intersect read[c] = {}
  /\ \A i, j \in made[c] : i # j => i.counted \intersect j.counted = {}
  /\ \A i \in made[c] : \A o \in i.counted :
       \/ linked[c][o] = i.id
       \/ pc[c] = "link" /\ i.id = current[c] /\ o \in todo[c]
       \/ o \notin orders

QInv ==
  /\ LInv /\ FreshIds /\ KnowsPlaced
  /\ \A c \in Client : Linking(c)

\* Orders that a transaction has counted and does not find are gone for good.
LEMMA LinkingKept ==
  ASSUME KnowsPlaced, NEW x \in Client, Linking(x), SameTx(x), read'[x] = read[x],
         orders' \intersect placed \subseteq orders
  PROVE  Linking(x)'
  <1>1. \A i \in made[x] : \A o \in i.counted : o \notin orders => o \notin orders'
    BY DEF KnowsPlaced
  <1> QED
    BY <1>1 DEF Linking, SameTx

\* The steps of c that write no table, and draw no invoice id.
LEMMA QuietStep ==
  ASSUME QInv, LInv', NEW c \in Client, Linking(c)', read'[c] \subseteq placed,
         UNCHANGED <<placed, orders, invoiceOf, invoices, nextId, made>>,
         \A x \in Client \ {c} : SameTx(x) /\ read'[x] = read[x]
  PROVE  QInv'
  <1>1. FreshIds' /\ KnowsPlaced'
    BY DEF QInv, FreshIds, KnowsPlaced
  <1>2. \A x \in Client : Linking(x)'
    BY LinkingKept DEF QInv
  <1> QED
    BY <1>1, <1>2 DEF QInv

\* The end of the transaction of c.
LEMMA QuietEnd ==
  ASSUME QInv, LInv', NEW c \in Client, End(c), nextId' = nextId, placed' = placed,
         orders' \subseteq orders, invoices' \subseteq invoices \union made[c]
  PROVE  QInv'
  <1>1. TypeOK /\ \A x \in Client \ {c} : SameTx(x)
    BY EndOthers DEF QInv, LInv
  <1>2. made'[c] = {} /\ read'[c] = {} /\ \A x \in Client \ {c} : read'[x] = read[x]
    BY <1>1 DEF End, TypeOK
  <1>3. FreshIds'
    BY <1>1, <1>2 DEF QInv, FreshIds, SameTx
  <1>4. KnowsPlaced'
    BY <1>1, <1>2 DEF QInv, KnowsPlaced, SameTx
  <1>5. Linking(c)'
    BY <1>2 DEF Linking
  <1>6. \A x \in Client : Linking(x)'
    BY <1>1, <1>2, <1>5, LinkingKept DEF QInv
  <1> QED
    BY <1>3, <1>4, <1>6 DEF QInv

LEMMA QuietPlace ==
  ASSUME QInv, LInv', NEW o \in Order, Place(o)
  PROVE  QInv'
  <1>1. UNCHANGED <<invoiceOf, invoices, nextId, pc, read, current, todo, made, linked, locked>>
        /\ orders' = orders \union {o} /\ placed' = placed \union {o} /\ o \notin placed
    BY DEF Place
  <1>2. FreshIds' /\ KnowsPlaced'
    BY <1>1 DEF QInv, FreshIds, KnowsPlaced
  <1>3. \A x \in Client : Linking(x)'
    BY <1>1, LinkingKept DEF QInv, SameTx
  <1> QED
    BY <1>2, <1>3 DEF QInv

LEMMA QuietGenerate ==
  ASSUME QInv, LInv', NEW c \in Client, NEW S, NEW B, Generate(c, S, B)
  PROVE  QInv'
  <1>1. /\ TypeOK /\ Own(c) /\ pc[c] = "idle"
        /\ UNCHANGED <<placed, orders, invoiceOf, invoices, nextId, current, todo, made,
                       linked, locked>>
        /\ \A x \in Client \ {c} : pc'[x] = pc[x] /\ read'[x] = read[x]
    BY DEF QInv, LInv, Generate, tables, TypeOK
  <1>2. made'[c] = {} /\ read'[c] \subseteq placed
    <2>1. read'[c] \subseteq orders
      BY <1>1 DEF Generate, Uninvoiced, Billable, TypeOK
    <2> QED
      BY <1>1, <2>1 DEF Own, QInv, KnowsPlaced
  <1>3. Linking(c)' /\ \A x \in Client \ {c} : SameTx(x)
    BY <1>1, <1>2 DEF Linking, SameTx
  <1> QED
    BY <1>1, <1>2, <1>3, QuietStep

LEMMA QuietCreate ==
  ASSUME QInv, LInv', NEW c \in Client,
         NEW s \in Supplier, NEW b \in Buyer, CreateInvoice(c, s, b)
  PROVE  QInv'
  <1> DEFINE i == NewInvoice(c, s, b)
  <1>1. /\ TypeOK /\ pc[c] = "create" /\ Linking(c) /\ nextId \in Nat /\ nextId > 0
        /\ UNCHANGED <<placed, orders, invoiceOf, invoices, linked>>
        /\ nextId' = nextId + 1
    BY DEF QInv, LInv, FreshIds, CreateInvoice, tables, TypeOK
  <1>2. /\ pc'[c] = "link" /\ made'[c] = made[c] \union {i}
        /\ current'[c] = nextId /\ todo'[c] = Group(c, s, b)
        /\ read'[c] = read[c] \ Group(c, s, b)
    BY <1>1 DEF TypeOK, CreateInvoice, ToLink
  <1>3. \A x \in Client \ {c} : SameTx(x) /\ read'[x] = read[x]
    BY <1>1 DEF TypeOK, CreateInvoice, SameTx
  <1>4. i.id = nextId /\ i.counted = Group(c, s, b) /\ Group(c, s, b) \subseteq read[c]
    BY DEF NewInvoice, Group
  <1>5. /\ \A j \in invoices : j.id \in Nat /\ j.id < nextId /\ j.id > 0
        /\ \A x \in Client : \A j \in made[x] : j.id \in Nat /\ j.id < nextId /\ j.id > 0
    BY <1>1 DEF QInv, FreshIds, TypeOK, Invoice
  <1> HIDE DEF i
  <1>6. FreshIds'
    <2>1. \A j \in invoices' : 0 < j.id /\ j.id < nextId'
      BY <1>1, <1>5
    <2>2. \A x \in Client : \A j \in made'[x] : 0 < j.id /\ j.id < nextId'
      BY <1>1, <1>2, <1>3, <1>4, <1>5 DEF SameTx
    <2>3. \A x \in Client : \A j \in made'[x], k \in invoices' : j.id # k.id
      BY <1>1, <1>2, <1>3, <1>4, <1>5 DEF SameTx, QInv, FreshIds
    <2>4. \A x \in Client : \A j, k \in made'[x] : j.id = k.id => j = k
      BY <1>1, <1>2, <1>3, <1>4, <1>5 DEF SameTx, QInv, FreshIds
    <2>5. \A x, y \in Client : x # y => \A j \in made'[x], k \in made'[y] : j.id # k.id
      BY <1>1, <1>2, <1>3, <1>4, <1>5 DEF SameTx, QInv, FreshIds
    <2> QED
      BY <1>1, <2>1, <2>2, <2>3, <2>4, <2>5 DEF FreshIds
  <1>7. Linking(c)'
    <2>1. \A j \in made[c] : j.counted \intersect read[c] = {}
      BY <1>1 DEF Linking
    <2>2. \A j \in made'[c] : j.counted \intersect read'[c] = {}
      BY <1>2, <1>4, <2>1
    <2>3. \A j, k \in made'[c] : j # k => j.counted \intersect k.counted = {}
      BY <1>1, <1>2, <1>4, <2>1 DEF Linking
    <2>4. ASSUME NEW j \in made'[c], NEW o \in j.counted
          PROVE  \/ linked'[c][o] = j.id
                 \/ pc'[c] = "link" /\ j.id = current'[c] /\ o \in todo'[c]
                 \/ o \notin orders
      BY <1>1, <1>2, <1>4 DEF Linking
    <2> QED
      BY <1>1, <2>2, <2>3, <2>4 DEF Linking
  <1>8. \A x \in Client : Linking(x)'
    BY <1>1, <1>3, <1>7, LinkingKept DEF QInv
  <1>9. KnowsPlaced'
    <2>1. read'[c] \subseteq placed /\ \A j \in made'[c] : j.counted \subseteq placed
      BY <1>2, <1>4 DEF QInv, KnowsPlaced
    <2> QED
      BY <1>1, <1>3, <2>1 DEF QInv, KnowsPlaced, SameTx
  <1> QED
    BY <1>6, <1>8, <1>9 DEF QInv

LEMMA QuietLink ==
  ASSUME QInv, LInv', NEW c \in Client, NEW o \in Order, LinkOrder(c, o)
  PROVE  QInv'
  <1>1. /\ TypeOK /\ Own(c) /\ pc[c] = "link" /\ o \in todo[c] /\ Linking(c)
        /\ UNCHANGED <<placed, orders, invoiceOf, invoices, nextId, pc, read, current, made>>
        /\ \A x \in Client \ {c} : todo'[x] = todo[x]
        /\ todo'[c] = todo[c] \ {o}
    BY DEF QInv, LInv, LinkOrder, tables, TypeOK
  <1>2. PICK i \in made[c] : i.id = current[c] /\ todo[c] \subseteq i.counted
    BY <1>1 DEF Own
  <1>3. /\ \A x \in Client \ {c} : locked'[x] = locked[x] /\ linked'[x] = linked[x]
        /\ o \in orders => linked'[c][o] = current[c]
        /\ \A p \in Order \ {o} : linked'[c][p] = linked[c][p]
    <2>1. CASE o \in orders
      <3>1. /\ locked' = [locked EXCEPT ![c] = @ \union {o}]
            /\ linked' = [linked EXCEPT ![c][o] = current[c]]
        BY <2>1 DEF LinkOrder
      <3> QED
        BY <1>1, <3>1 DEF TypeOK
    <2>2. CASE o \notin orders
      BY <2>2 DEF LinkOrder
    <2> QED
      BY <2>1, <2>2
  <1>4. Linking(c)'
    <2>1. ASSUME NEW j \in made[c], NEW p \in j.counted
          PROVE  \/ linked'[c][p] = j.id
                 \/ pc'[c] = "link" /\ j.id = current'[c] /\ p \in todo'[c]
                 \/ p \notin orders
      <3>1. p \in Order
        BY <1>1 DEF TypeOK, Invoice
      <3>2. CASE p = o
        BY <1>1, <1>2, <1>3, <3>2 DEF Linking
      <3>3. CASE p # o
        BY <1>1, <1>3, <3>1, <3>3 DEF Linking
      <3> QED
        BY <3>2, <3>3
    <2> QED
      BY <1>1, <2>1 DEF Linking
  <1>5. \A x \in Client \ {c} : SameTx(x) /\ read'[x] = read[x]
    BY <1>1, <1>3 DEF SameTx
  <1>6. read'[c] \subseteq placed
    BY <1>1 DEF QInv, KnowsPlaced
  <1> QED
    BY <1>1, <1>4, <1>5, <1>6, QuietStep

LEMMA CommitTotals ==
  ASSUME QInv, TotalIsLinked, NEW c \in Client, CommitInvoices(c),
         \A o \in Snapshot(c) : Billable(o)
  PROVE  TotalIsLinked'
  <1>1. /\ TypeOK /\ Own(c) /\ Linking(c) /\ todo[c] = {} /\ End(c) /\ nextId' = nextId
        /\ orders' = orders /\ invoices' = invoices \union made[c]
        /\ invoiceOf' = [o \in Order |-> IF linked[c][o] # 0 THEN linked[c][o] ELSE invoiceOf[o]]
    BY DEF QInv, LInv, CommitInvoices
  <1>2. ASSUME NEW o \in Order, linked[c][o] # 0
        PROVE  /\ o \in orders /\ invoiceOf[o] = 0
               /\ \E j \in made[c] : j.id = linked[c][o] /\ o \in j.counted
    <2>1. o \in orders /\ \E j \in made[c] : j.id = linked[c][o] /\ o \in j.counted
      BY <1>1, <1>2 DEF Own
    <2> QED
      BY <2>1 DEF Snapshot, Billable
  <1>3. orders \subseteq Order
    BY <1>1 DEF TypeOK
  <1>4. ASSUME NEW i \in made[c]
        PROVE  i.counted = {o \in orders : invoiceOf'[o] = i.id}
    <2>1. ASSUME NEW o \in i.counted PROVE o \in orders /\ invoiceOf'[o] = i.id
      <3>1. o \in orders
        BY DEF Snapshot, Billable
      <3>2. linked[c][o] = i.id /\ i.id # 0 /\ o \in Order
        BY <1>1, <3>1 DEF Linking, QInv, FreshIds, TypeOK, Invoice
      <3> QED
        BY <1>1, <1>2, <3>2
    <2>2. ASSUME NEW o \in orders, invoiceOf'[o] = i.id PROVE o \in i.counted
      <3>1. CASE linked[c][o] # 0
        <4>1. PICK j \in made[c] : j.id = linked[c][o] /\ o \in j.counted
          BY <1>2, <1>3, <3>1
        <4>2. j.id = i.id
          BY <1>1, <1>3, <2>2, <3>1, <4>1
        <4> QED
          BY <4>1, <4>2 DEF QInv, FreshIds
      <3>2. CASE linked[c][o] = 0
        <4>1. invoiceOf[o] = i.id /\ i.id # 0
          BY <1>1, <1>3, <2>2, <3>2 DEF QInv, FreshIds
        <4>2. \E j \in invoices : j.id = i.id
          BY <1>3, <4>1 DEF QInv, LInv, LinkedIsCounted
        <4> QED
          BY <4>2 DEF QInv, FreshIds
      <3> QED
        BY <3>1, <3>2
    <2> QED
      BY <2>1, <2>2
  <1>5. ASSUME NEW i \in invoices
        PROVE  i.counted = {o \in orders : invoiceOf'[o] = i.id}
    <2>1. i.counted = {o \in orders : invoiceOf[o] = i.id} /\ i.id > 0
      BY DEF TotalIsLinked, QInv, FreshIds
    <2>2. ASSUME NEW o \in orders PROVE invoiceOf'[o] = i.id <=> invoiceOf[o] = i.id
      <3>1. CASE linked[c][o] # 0
        <4>1. invoiceOf'[o] = linked[c][o] /\ invoiceOf[o] = 0
          BY <1>1, <1>2, <1>3, <3>1
        <4>2. linked[c][o] # i.id
          BY <1>2, <1>3, <3>1 DEF QInv, FreshIds
        <4> QED
          BY <2>1, <4>1, <4>2
      <3>2. CASE linked[c][o] = 0
        BY <1>1, <1>3, <3>2
      <3> QED
        BY <3>1, <3>2
    <2> QED
      BY <2>1, <2>2
  <1> QED
    BY <1>1, <1>4, <1>5 DEF TotalIsLinked

\* A commit is an end of a generation, which finds its orders as it has read them.
LEMMA CommitEnds ==
  ASSUME TypeOK, NEW c \in Client, CommitInvoices(c), EndsAsRead
  PROVE  \A o \in Snapshot(c) : Billable(o)
  <1>1. pc[c] = "link" /\ pc'[c] = "idle"
    BY DEF CommitInvoices, End, TypeOK
  <1> QED
    BY <1>1 DEF EndsAsRead

LEMMA QuietCommit ==
  ASSUME QInv, LInv', NEW c \in Client, CommitInvoices(c)
  PROVE  QInv'
  <1>1. /\ End(c) /\ nextId' = nextId /\ placed' = placed /\ orders' = orders
        /\ invoices' = invoices \union made[c]
    BY DEF CommitInvoices
  <1> QED
    BY <1>1, QuietEnd

LEMMA QuietStorno ==
  ASSUME QInv, LInv', NEW c \in Client, StornoCommit(c)
  PROVE  QInv'
  <1>1. End(c) /\ orders' = orders \ locked[c] /\ UNCHANGED <<placed, invoices, nextId>>
    BY DEF StornoCommit
  <1> QED
    BY <1>1, QuietEnd

LEMMA QuietOther ==
  ASSUME QInv, LInv', NEW c \in Client,
         NextGroup(c) \/ Abort(c) \/ \E o \in Order : StornoLock(c, o)
  PROVE  QInv'
  <1>1. TypeOK /\ Own(c) /\ Linking(c)
    BY DEF QInv, LInv
  <1>2. CASE Abort(c)
    <2>1. End(c) /\ UNCHANGED <<placed, orders, invoices, nextId>>
      BY <1>2 DEF Abort, tables
    <2> QED
      BY <2>1, QuietEnd
  <1>3. CASE NextGroup(c) \/ \E o \in Order : StornoLock(c, o)
    <2>1. /\ UNCHANGED <<placed, orders, invoiceOf, invoices, nextId, read, current, todo,
                         made, linked>>
          /\ \A x \in Client \ {c} : pc'[x] = pc[x] /\ locked'[x] = locked[x]
      BY <1>1, <1>3 DEF NextGroup, StornoLock, tables, TypeOK
    <2>2. \A x \in Client \ {c} : SameTx(x) /\ read'[x] = read[x]
      BY <2>1 DEF SameTx
    <2>3. pc[c] = "link" => todo[c] = {}
      BY <1>3 DEF NextGroup, StornoLock
    <2>4. Linking(c)' /\ read'[c] \subseteq placed
      BY <1>1, <2>1, <2>3 DEF Linking, QInv, KnowsPlaced
    <2> QED
      BY <2>1, <2>2, <2>4, QuietStep
  <1> QED
    BY <1>2, <1>3

LEMMA QInvInit == Init => QInv
  <1> SUFFICES ASSUME Init PROVE QInv
    OBVIOUS
  <1>1. FreshIds /\ KnowsPlaced /\ \A c \in Client : Linking(c)
    BY DEF Init, FreshIds, KnowsPlaced, Linking
  <1> QED
    BY <1>1, LInvInit DEF QInv

LEMMA QInvNext == QInv /\ [Next]_vars => QInv'
  <1> SUFFICES ASSUME QInv, [Next]_vars PROVE QInv'
    OBVIOUS
  <1>1. LInv'
    BY LInvNext DEF QInv
  <1>2. CASE UNCHANGED vars
    <2>1. FreshIds' /\ KnowsPlaced'
      BY <1>2 DEF vars, QInv, FreshIds, KnowsPlaced
    <2>2. \A c \in Client : Linking(c)'
      BY <1>2 DEF vars, QInv, Linking
    <2> QED
      BY <1>1, <2>1, <2>2 DEF QInv
  <1>3. ASSUME NEW c \in Client, Step(c)
        PROVE  QInv'
    BY <1>1, <1>3, QuietGenerate, QuietCreate, QuietLink, QuietCommit, QuietStorno,
       QuietOther DEF Step
  <1> QED
    BY <1>1, <1>2, <1>3, QuietPlace, NextSteps

\* The steps other than a commit leave every order on an invoice alone.
LEMMA TotalsKept ==
  ASSUME QInv, EndsAsRead, TotalIsLinked, [Next]_vars
  PROVE  TotalIsLinked'
  <1>1. ASSUME NEW o \in Order, Place(o) PROVE TotalIsLinked'
    <2>1. UNCHANGED <<invoiceOf, invoices>> /\ orders' = orders \union {o}
      BY <1>1 DEF Place
    <2>2. o \in orders \/ invoiceOf[o] = 0
      BY DEF QInv, LInv, InvoicedKept
    <2>3. \A i \in invoices : i.id > 0
      BY DEF QInv, FreshIds
    <2> QED
      BY <2>1, <2>2, <2>3 DEF TotalIsLinked
  <1>2. ASSUME NEW c \in Client, StornoCommit(c) PROVE TotalIsLinked'
    <2>1. /\ orders' = orders \ locked[c] /\ UNCHANGED <<invoiceOf, invoices>>
          /\ \A o \in locked[c] : invoiceOf[o] = 0
      BY <1>2 DEF QInv, LInv, StornoCommit, Own
    <2>2. \A i \in invoices : i.id > 0
      BY DEF QInv, FreshIds
    <2> QED
      BY <2>1, <2>2 DEF TotalIsLinked
  <1>3. CASE UNCHANGED <<orders, invoiceOf, invoices>>
    BY <1>3 DEF TotalIsLinked
  <1>4. ASSUME NEW c \in Client, Step(c) PROVE TotalIsLinked'
    BY <1>2, <1>3, <1>4, CommitTotals, CommitEnds
       DEF QInv, LInv, Step, Generate, CreateInvoice, LinkOrder, NextGroup, StornoLock, Abort, tables
  <1>5. CASE UNCHANGED vars
    BY <1>3, <1>5 DEF vars
  <1> QED
    BY <1>1, <1>4, <1>5, NextSteps

\* Totals that are right stay right, but for the commit of a generation one
\* of whose orders was billed or cancelled after it had read them.
THEOREM RightTotalsStay == Spec => TotalsStayRight
  <1>1. QInv /\ [Next]_vars => (TotalIsLinked /\ EndsAsRead => TotalIsLinked')
    BY TotalsKept
  <1> QED
    BY <1>1, QInvInit, QInvNext, PTL DEF Spec, TotalsStayRight

\* As long as no order changes under a generation that has read it, every
\* invoice asks for exactly the orders that are on it: no order is billed
\* twice, and no cancelled order is billed.
THEOREM TotalsExact == QuietSpec => []TotalIsLinked
  <1> DEFINE J == QInv /\ ReadsAreCurrent /\ TotalIsLinked
  <1>1. Init => J
    BY QInvInit DEF Init, ReadsAreCurrent, Snapshot, TotalIsLinked
  <1>2. J /\ [QuietNext]_vars => J'
    <2> SUFFICES ASSUME J, [QuietNext]_vars PROVE J'
      OBVIOUS
    <2>1. EndsAsRead
      BY DEF ReadsAreCurrent, EndsAsRead
    <2>3. QInv' /\ TotalIsLinked'
      BY <2>1, QInvNext, TotalsKept DEF QuietNext
    <2>2. ReadsAreCurrent'
      <3>1. CASE UNCHANGED vars
        BY <3>1 DEF vars, ReadsAreCurrent, Snapshot, Billable
      <3> QED
        BY <3>1 DEF QuietNext
    <2> QED
      BY <2>2, <2>3
  <1> QED
    BY <1>1, <1>2, PTL DEF QuietSpec

-----------------------------------------------------------------------------
(* The ledger: a generation that ends as it has read is one step of it.    *)

\* The invoices of a generation are of different pairs and ask for something;
\* the orders still read are of other pairs; one side of them all is the same.
Apart(c) ==
  /\ \A i \in made[c] : i.counted # {}
  /\ \A i \in made[c], o \in read[c] : BuyerOf[o] # i.buyer \/ SupplierOf[o] # i.supplier
  /\ \A i, j \in made[c] : i # j => i.buyer # j.buyer \/ i.supplier # j.supplier
OneSided(c) ==
  \/ \A o, p \in Snapshot(c) : SupplierOf[o] = SupplierOf[p]
  \/ \A o, p \in Snapshot(c) : BuyerOf[o] = BuyerOf[p]

\* A storno has locked one order, and that is still there.
Cancels(c) == pc[c] = "storno" => \E o \in orders : locked[c] = {o}

Atomic(c) == Apart(c) /\ OneSided(c) /\ Cancels(c)
RInv == QInv /\ \A c \in Client : Atomic(c)

LEMMA AtomicKept ==
  ASSUME NEW x \in Client, Atomic(x), SameTx(x), read'[x] = read[x],
         pc[x] = "storno" => \A o \in locked[x] : o \in orders => o \in orders'
  PROVE  Atomic(x)'
  <1>1. Apart(x)' /\ Cancels(x)'
    BY DEF Atomic, Apart, Cancels, SameTx
  <1>2. OneSided(x)'
    BY DEF Atomic, OneSided, Snapshot, SameTx
  <1> QED
    BY <1>1, <1>2 DEF Atomic

\* Steps of c after which only c is to be looked at.
LEMMA AtomicStep ==
  ASSUME RInv, QInv', NEW c \in Client, Atomic(c)',
         \A x \in Client \ {c} : SameTx(x) /\ read'[x] = read[x],
         \A x \in Client \ {c} : \A o \in locked[x] : o \in orders => o \in orders'
  PROVE  RInv'
  <1>1. \A x \in Client \ {c} : Atomic(x)'
    BY AtomicKept DEF RInv
  <1> QED
    BY <1>1 DEF RInv

LEMMA AtomicEnd ==
  ASSUME RInv, QInv', NEW c \in Client, End(c), orders \ locked[c] \subseteq orders'
  PROVE  RInv'
  <1>1. TypeOK /\ Locks
    BY DEF RInv, QInv, LInv
  <1>2. /\ pc'[c] = "idle" /\ made'[c] = {} /\ read'[c] = {}
        /\ \A x \in Client \ {c} : read'[x] = read[x]
    BY <1>1 DEF End, TypeOK
  <1>3. \A x \in Client \ {c} : SameTx(x)
    BY <1>1, EndOthers
  <1>4. Atomic(c)'
    BY <1>2 DEF Atomic, Apart, OneSided, Cancels, Snapshot
  <1>5. \A x \in Client \ {c} : locked[x] \intersect locked[c] = {}
    BY <1>1 DEF Locks
  <1> QED
    BY <1>2, <1>3, <1>4, <1>5, AtomicStep

LEMMA AtomicGenerate ==
  ASSUME RInv, QInv', NEW c \in Client, NEW S, NEW B, Generate(c, S, B),
         (\A s, t \in S : s = t) \/ (\A b, d \in B : b = d)
  PROVE  RInv'
  <1>1. /\ TypeOK /\ pc[c] = "idle" /\ Own(c)
        /\ UNCHANGED <<orders, current, todo, made, linked, locked>>
        /\ pc' = [pc EXCEPT ![c] = "create"] /\ read' = [read EXCEPT ![c] = Uninvoiced(S, B)]
    BY DEF RInv, QInv, LInv, Generate, tables
  <1>2. /\ pc'[c] = "create" /\ read'[c] = Uninvoiced(S, B) /\ made'[c] = {}
        /\ \A x \in Client \ {c} : SameTx(x) /\ read'[x] = read[x]
    BY <1>1 DEF TypeOK, SameTx, Own
  <1>3. OneSided(c)'
    BY <1>2 DEF OneSided, Snapshot, Uninvoiced
  <1>4. Apart(c)' /\ Cancels(c)'
    BY <1>2 DEF Apart, Cancels
  <1> QED
    BY <1>1, <1>2, <1>3, <1>4, AtomicStep DEF Atomic

LEMMA AtomicCreate ==
  ASSUME RInv, QInv', NEW c \in Client, NEW s \in Supplier, NEW b \in Buyer, CreateInvoice(c, s, b)
  PROVE  RInv'
  <1> DEFINE i == NewInvoice(c, s, b)
  <1>1. /\ TypeOK /\ Atomic(c) /\ pc'[c] = "link" /\ orders' = orders
        /\ made'[c] = made[c] \union {i} /\ read'[c] = read[c] \ Group(c, s, b)
        /\ \A x \in Client \ {c} : SameTx(x) /\ read'[x] = read[x]
    BY DEF RInv, QInv, LInv, CreateInvoice, tables, TypeOK, SameTx
  <1>2. /\ i.buyer = b /\ i.supplier = s /\ i.counted = Group(c, s, b)
        /\ Group(c, s, b) # {} /\ Group(c, s, b) \subseteq read[c]
        /\ \A o \in read[c] : o \in Group(c, s, b) <=> SupplierOf[o] = s /\ BuyerOf[o] = b
    BY DEF NewInvoice, CreateInvoice, Group
  <1> HIDE DEF i
  <1>3. Apart(c)'
    <2>1. \A j \in made[c] : j.buyer # b \/ j.supplier # s
      BY <1>1, <1>2 DEF Atomic, Apart
    <2> QED
      BY <1>1, <1>2, <2>1 DEF Atomic, Apart
  <1>4. Snapshot(c)' = Snapshot(c)
    BY <1>1, <1>2 DEF Snapshot
  <1>5. OneSided(c)' /\ Cancels(c)'
    BY <1>1, <1>4 DEF Atomic, OneSided, Cancels
  <1> QED
    BY <1>1, <1>3, <1>5, AtomicStep DEF Atomic

LEMMA AtomicOther ==
  ASSUME RInv, QInv', NEW c \in Client,
         NextGroup(c) \/ (\E o \in Order : LinkOrder(c, o)) \/ (\E o \in Order : StornoLock(c, o))
  PROVE  RInv'
  <1>1. /\ TypeOK /\ Atomic(c) /\ UNCHANGED <<orders, made, read>>
        /\ \A x \in Client \ {c} : SameTx(x)
    <2>1. TypeOK /\ Atomic(c)
      BY DEF RInv, QInv, LInv
    <2>2. CASE NextGroup(c) \/ \E o \in Order : StornoLock(c, o)
      BY <2>1, <2>2 DEF NextGroup, StornoLock, tables, TypeOK, SameTx
    <2>3. CASE \E o \in Order : LinkOrder(c, o)
      <3>1. PICK o \in Order : LinkOrder(c, o)
        BY <2>3
      <3>2. UNCHANGED <<orders, made, read, pc, current>> /\ \A x \in Client \ {c} : todo'[x] = todo[x]
        BY <2>1, <3>1 DEF LinkOrder, tables, TypeOK
      <3>3. \A x \in Client \ {c} : locked'[x] = locked[x] /\ linked'[x] = linked[x]
        <4>1. CASE o \in orders
          <5>1. /\ locked' = [locked EXCEPT ![c] = @ \union {o}]
                /\ linked' = [linked EXCEPT ![c][o] = current[c]]
            BY <3>1, <4>1 DEF LinkOrder
          <5> QED
            BY <2>1, <5>1 DEF TypeOK
        <4>2. CASE o \notin orders
          BY <3>1, <4>2 DEF LinkOrder
        <4> QED
          BY <4>1, <4>2
      <3> QED
        BY <2>1, <3>2, <3>3 DEF SameTx
    <2> QED
      BY <2>1, <2>2, <2>3
  <1>2. Apart(c)' /\ OneSided(c)'
    BY <1>1 DEF Atomic, Apart, OneSided, Snapshot
  <1>3. Cancels(c)'
    BY <1>1 DEF NextGroup, LinkOrder, StornoLock, MayStorno, TypeOK, Cancels
  <1> QED
    BY <1>1, <1>2, <1>3, AtomicStep DEF Atomic

LEMMA RInvInit == Init => RInv
  <1> SUFFICES ASSUME Init PROVE RInv
    OBVIOUS
  <1>1. \A c \in Client : Atomic(c)
    BY DEF Init, Atomic, Apart, OneSided, Cancels, Snapshot
  <1> QED
    BY <1>1, QInvInit DEF RInv

LEMMA RInvNext == RInv /\ [Next]_vars => RInv'
  <1> SUFFICES ASSUME RInv, [Next]_vars PROVE RInv'
    OBVIOUS
  <1>1. QInv'
    BY QInvNext DEF RInv
  <1>2. ASSUME NEW o \in Order, Place(o) PROVE RInv'
    <2>1. \A c \in Client : SameTx(c) /\ read'[c] = read[c] /\ orders \subseteq orders'
      BY <1>2 DEF Place, SameTx
    <2> QED
      BY <1>1, <2>1, AtomicKept DEF RInv
  <1>3. CASE UNCHANGED vars
    <2>1. \A c \in Client : SameTx(c) /\ read'[c] = read[c] /\ orders = orders'
      BY <1>3 DEF vars, SameTx
    <2> QED
      BY <1>1, <2>1, AtomicKept DEF RInv
  <1>4. ASSUME NEW c \in Client,
               \/ \E s \in Supplier : generateInvoices(c, s)
               \/ \E s \in Supplier, b \in Buyer : generateInvoiceForBuyer(c, s, b)
               \/ \E b \in Buyer : generateInvoicesForUser(c, b)
        PROVE  RInv'
    BY <1>1, <1>4, AtomicGenerate
       DEF generateInvoices, generateInvoiceForBuyer, generateInvoicesForUser
  <1>5. ASSUME NEW c \in Client, CommitInvoices(c) \/ StornoCommit(c) \/ Abort(c) PROVE RInv'
    BY <1>1, <1>5, AtomicEnd DEF CommitInvoices, StornoCommit, Abort, tables
  <1> QED
    BY <1>1, <1>2, <1>3, <1>4, <1>5, AtomicCreate, AtomicOther DEF Next

\* The commit of a generation that finds its orders as it has read them.
LEMMA CommitBills ==
  ASSUME RInv, NEW c \in Client, CommitInvoices(c), \A o \in Snapshot(c) : Billable(o)
  PROVE  OnLedger!Bill
  <1>1. /\ TypeOK /\ Own(c) /\ Linking(c) /\ todo[c] = {} /\ pc[c] = "link" /\ Atomic(c)
        /\ UNCHANGED <<placed, orders>> /\ invoices' = invoices \union made[c]
        /\ invoiceOf' = [o \in Order |-> IF linked[c][o] # 0 THEN linked[c][o] ELSE invoiceOf[o]]
    BY DEF RInv, QInv, LInv, CommitInvoices
  <1>2. invoices' \ invoices = made[c]
    BY <1>1 DEF RInv, QInv, FreshIds
  <1>3. made[c] # {} /\ invoices \subseteq invoices'
    BY <1>1 DEF Own
  <1>4. ASSUME NEW i \in made[c]
        PROVE  /\ i.id # 0 /\ \A j \in invoices : j.id # i.id
               /\ i.counted # {} /\ i.counted \subseteq OnLedger!Unbilled
               /\ \A o \in i.counted :
                    BuyerOf[o] = i.buyer /\ SupplierOf[o] = i.supplier /\ invoiceOf'[o] = i.id
    <2>1. i.id # 0 /\ \A j \in invoices : j.id # i.id
      BY DEF RInv, QInv, FreshIds
    <2>2. i.counted # {} /\ Matches(i) /\ i.counted \subseteq Order
      BY <1>1 DEF Atomic, Apart, Own, TypeOK, Invoice
    <2>3. i.counted \subseteq OnLedger!Unbilled
      BY DEF Snapshot, Billable, OnLedger!Unbilled
    <2>4. ASSUME NEW o \in i.counted PROVE invoiceOf'[o] = i.id
      <3>1. linked[c][o] = i.id
        BY <1>1, <2>3 DEF Linking, OnLedger!Unbilled
      <3> QED
        BY <1>1, <2>1, <2>2, <3>1
    <2> QED
      BY <2>1, <2>2, <2>3, <2>4 DEF Matches
  <1>5. \A i, j \in made[c] : i # j => i.id # j.id /\ <<i.buyer, i.supplier>> # <<j.buyer, j.supplier>>
    BY <1>1 DEF Atomic, Apart, RInv, QInv, FreshIds
  <1>6. \/ \A i, j \in made[c] : i.supplier = j.supplier
        \/ \A i, j \in made[c] : i.buyer = j.buyer
    <2>1. \A i \in made[c] : i.counted # {} /\ i.counted \subseteq Snapshot(c)
      BY <1>4 DEF Snapshot
    <2>2. CASE \A o, p \in Snapshot(c) : SupplierOf[o] = SupplierOf[p]
      <3>1. ASSUME NEW i \in made[c], NEW j \in made[c] PROVE i.supplier = j.supplier
        <4>1. PICK o \in i.counted, p \in j.counted : TRUE
          BY <2>1
        <4> QED
          BY <1>4, <2>1, <2>2, <4>1
      <3> QED
        BY <3>1
    <2>3. CASE \A o, p \in Snapshot(c) : BuyerOf[o] = BuyerOf[p]
      <3>1. ASSUME NEW i \in made[c], NEW j \in made[c] PROVE i.buyer = j.buyer
        <4>1. PICK o \in i.counted, p \in j.counted : TRUE
          BY <2>1
        <4> QED
          BY <1>4, <2>1, <2>3, <4>1
      <3> QED
        BY <3>1
    <2> QED
      BY <1>1, <2>2, <2>3 DEF Atomic, OneSided
  <1>7. DOMAIN invoiceOf' = Order /\ \A o \in Order : invoiceOf'[o] = invoiceOf[o] \/ \E i \in made[c] : o \in i.counted
    BY <1>1 DEF Own
  <1> QED
    BY <1>1, <1>2, <1>3, <1>4, <1>5, <1>6, <1>7 DEF OnLedger!Bill

LEMMA LedgerSteps ==
  ASSUME RInv, EndsAsRead, [Next]_vars
  PROVE  [OnLedger!LedgerNext]_(OnLedger!ledgerVars)
  <1>1. ASSUME NEW o \in Order, Place(o) PROVE OnLedger!Sale(o)
    BY <1>1 DEF Place, OnLedger!Sale
  <1>2. ASSUME NEW c \in Client, StornoCommit(c) PROVE \E o \in Order : OnLedger!Cancel(o)
    <2>1. /\ TypeOK /\ pc[c] = "storno" /\ orders' = orders \ locked[c]
          /\ UNCHANGED <<placed, invoiceOf, invoices>> /\ \A o \in locked[c] : invoiceOf[o] = 0
      BY <1>2 DEF RInv, QInv, LInv, Own, StornoCommit
    <2>2. PICK o \in orders : locked[c] = {o}
      BY <2>1 DEF RInv, Atomic, Cancels
    <2>3. OnLedger!Cancel(o) /\ o \in Order
      BY <2>1, <2>2 DEF OnLedger!Cancel, OnLedger!Unbilled, TypeOK
    <2> QED
      BY <2>3
  <1>3. ASSUME NEW c \in Client, CommitInvoices(c) PROVE OnLedger!Bill
    BY <1>3, CommitEnds, CommitBills DEF RInv, QInv, LInv
  <1>4. ASSUME NEW c \in Client, Step(c), ~CommitInvoices(c), ~StornoCommit(c)
        PROVE  UNCHANGED OnLedger!ledgerVars
    BY <1>4 DEF Step, Generate, CreateInvoice, LinkOrder, NextGroup, StornoLock, Abort, tables,
         OnLedger!ledgerVars
  <1>5. CASE UNCHANGED vars
    BY <1>5 DEF vars, OnLedger!ledgerVars
  <1> QED
    BY <1>1, <1>2, <1>3, <1>4, <1>5, NextSteps DEF OnLedger!LedgerNext

\* Whatever races, each step is one of the ledger, but for the commit of a
\* generation one of whose orders was billed or cancelled after it had read them.
THEOREM StepsImplemented == Spec => StepsOnLedger
  <1>1. RInv /\ [Next]_vars => (EndsAsRead => [OnLedger!LedgerNext]_(OnLedger!ledgerVars))
    BY LedgerSteps
  <1> QED
    BY <1>1, RInvInit, RInvNext, PTL DEF Spec, StepsOnLedger

\* And as long as no order changes under a generation that has read it,
\* transactions that overlap implement the ledger.
THEOREM LedgerImplemented == QuietSpec => OnLedger!LedgerSpec
  <1> DEFINE J == RInv /\ ReadsAreCurrent
  <1>1. Init => J /\ OnLedger!LedgerInit
    BY RInvInit DEF Init, ReadsAreCurrent, Snapshot, OnLedger!LedgerInit, NoLink
  <1>2. J /\ [QuietNext]_vars => J' /\ [OnLedger!LedgerNext]_(OnLedger!ledgerVars)
    <2> SUFFICES ASSUME J, [QuietNext]_vars
                 PROVE  J' /\ [OnLedger!LedgerNext]_(OnLedger!ledgerVars)
      OBVIOUS
    <2>1. EndsAsRead /\ [Next]_vars
      BY DEF ReadsAreCurrent, EndsAsRead, QuietNext
    <2>2. ReadsAreCurrent'
      <3>1. CASE UNCHANGED vars
        BY <3>1 DEF vars, ReadsAreCurrent, Snapshot, Billable
      <3> QED
        BY <3>1 DEF QuietNext
    <2> QED
      BY <2>1, <2>2, RInvNext, LedgerSteps
  <1> QED
    BY <1>1, <1>2, PTL DEF QuietSpec, OnLedger!LedgerSpec

-----------------------------------------------------------------------------
(* The book of orders, which the transactions of FridgeStock keep as well: *)
(* here no order changes but by a commit, either.                          *)

InvoicedIds == {o \in Order : invoiceOf[o] # 0}

LEMMA BookStep ==
  ASSUME RInv, [Next]_vars
  PROVE  [OnBook!BookNext]_(OnBook!bookVars)
  <1>0. TypeOK /\ InvoicedIds \subseteq orders /\ orders \subseteq placed
    BY DEF RInv, QInv, LInv, KnowsPlaced, InvoicedKept, InvoicedIds
  <1>1. ASSUME NEW o \in Order, Place(o) PROVE OnBook!Sell({o})
    <2>1. /\ o \notin orders /\ o \notin InvoicedIds
          /\ orders' = orders \union {o} /\ UNCHANGED invoiceOf
      BY <1>0, <1>1 DEF Place
    <2> QED
      BY <2>1 DEF OnBook!Sell, InvoicedIds
  <1>2. ASSUME NEW c \in Client, StornoCommit(c) PROVE \E o \in orders : OnBook!Cancel(o)
    <2>1. /\ pc[c] = "storno" /\ orders' = orders \ locked[c] /\ UNCHANGED invoiceOf
          /\ \A o \in locked[c] : invoiceOf[o] = 0
      BY <1>2 DEF RInv, QInv, LInv, Own, StornoCommit
    <2>2. PICK o \in orders : locked[c] = {o}
      BY <2>1 DEF RInv, Atomic, Cancels
    <2> QED
      BY <2>1, <2>2 DEF OnBook!Cancel
  <1>3. ASSUME NEW c \in Client, CommitInvoices(c)
        PROVE  \E S \in SUBSET orders : OnBook!Bill(S)
    <2> DEFINE S == {o \in Order : linked[c][o] # 0}
    <2>1. S \subseteq orders
      BY DEF RInv, QInv, LInv, Own
    <2>2. /\ invoiceOf' = [o \in Order |-> IF linked[c][o] # 0 THEN linked[c][o] ELSE invoiceOf[o]]
          /\ UNCHANGED orders
      BY <1>3 DEF CommitInvoices
    <2>3. InvoicedIds' = InvoicedIds \union S
      BY <2>2 DEF InvoicedIds
    <2> HIDE DEF S
    <2>4. OnBook!Bill(S)
      BY <2>1, <2>2, <2>3 DEF OnBook!Bill, InvoicedIds
    <2> QED
      BY <2>1, <2>4 DEF OnBook!Bill
  <1>4. ASSUME UNCHANGED <<orders, invoiceOf>> PROVE UNCHANGED OnBook!bookVars
    BY <1>4 DEF OnBook!bookVars
  <1>5. ASSUME NEW c \in Client, Step(c), ~CommitInvoices(c), ~StornoCommit(c)
        PROVE  UNCHANGED OnBook!bookVars
    BY <1>4, <1>5 DEF Step, Generate, CreateInvoice, LinkOrder, NextGroup, StornoLock, Abort, tables
  <1>6. ASSUME NEW o \in Order, OnBook!Sell({o}) PROVE OnBook!BookNext
    <2>1. {o} \in SUBSET orders'
      BY <1>6 DEF OnBook!Sell
    <2> QED
      BY <1>6, <2>1 DEF OnBook!BookNext
  <1>7. CASE UNCHANGED vars
    BY <1>4, <1>7 DEF vars
  <1> QED
    BY <1>1, <1>2, <1>3, <1>5, <1>6, <1>7, NextSteps DEF OnBook!BookNext

\* However generations, stornos and purchases race, the order rows are the book that
\* FridgeStock keeps too: orders are marked at once, and only orders that stand.
THEOREM BookKept == Spec => KeepsBook
  <1>1. Init => OnBook!BookInit
    BY DEF Init, OnBook!BookInit, NoLink
  <1> QED
    BY <1>1, BookStep, RInvInit, RInvNext, PTL DEF Spec, KeepsBook, OnBook!BookSpec

=============================================================================
