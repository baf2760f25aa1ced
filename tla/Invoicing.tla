----------------------------- MODULE Invoicing -----------------------------
(***************************************************************************)
(* Orders and the invoices made of them.  An invoice generation is one     *)
(* transaction: it reads the orders without an invoice, creates an invoice *)
(* per buyer and supplier, and sets invoice_id of the orders it has read.  *)
(*                                                                         *)
(*   InvoiceService.generateInvoices         a supplier, all buyers        *)
(*   InvoiceService.generateInvoiceForBuyer  a supplier and one buyer      *)
(*   InvoiceService.generateInvoicesForUser  an admin, a buyer, all        *)
(*                                           suppliers                     *)
(*   AdminService.stornoOrder                deletes an order              *)
(*                                                                         *)
(* The read takes no lock; the UPDATE locks the orders one after the other *)
(* and waits for locks of others.  The total of an invoice is the sum of   *)
(* the prices of the orders that were read, kept here as the set of those  *)
(* orders (counted).  What a transaction has written is private to it      *)
(* until it commits.                                                       *)
(***************************************************************************)
EXTENDS Integers, FiniteSets

CONSTANTS
  Client,       \* transactions that can be open together
  Order,        \* ids of order rows
  Buyer, Supplier,
  BuyerOf,      \* who ordered
  SupplierOf,   \* whose delivery the order was taken from
  MaxInvoices   \* bound: ids drawn from the sequence of invoices

ASSUME InvoicingAssumption ==
  /\ BuyerOf \in [Order -> Buyer]
  /\ SupplierOf \in [Order -> Supplier]
  /\ MaxInvoices \in Nat

VARIABLES
  placed,     \* orders ever inserted
  orders,     \* rows of orders
  invoiceOf,  \* orders.invoice_id, 0 for NULL
  invoices,   \* rows of invoices: [id, buyer, supplier, counted]
  nextId,     \* the sequence behind invoices.id
  pc,         \* per transaction: what it does next
  read,       \* per transaction: orders read and not on an invoice yet
  current,    \* per transaction: id of the invoice it has created last
  todo,       \* per transaction: orders its UPDATE still has to visit
  made,       \* per transaction: invoices created
  linked,     \* per transaction: invoice_id as it has set it, 0 if not
  locked      \* per transaction: order rows it has locked

tables == <<placed, orders, invoiceOf, invoices>>
vars == <<placed, orders, invoiceOf, invoices, nextId, pc, read, current, todo, made,
          linked, locked>>

NoLink == [o \in Order |-> 0]
PC == {"idle", "create", "link", "storno"}
Invoice == [id : Nat, buyer : Buyer, supplier : Supplier, counted : SUBSET Order]

Init ==
  /\ placed = {} /\ orders = {} /\ invoiceOf = NoLink /\ invoices = {} /\ nextId = 1
  /\ pc = [c \in Client |-> "idle"]
  /\ read = [c \in Client |-> {}]
  /\ current = [c \in Client |-> 0]
  /\ todo = [c \in Client |-> {}]
  /\ made = [c \in Client |-> {}]
  /\ linked = [c \in Client |-> NoLink]
  /\ locked = [c \in Client |-> {}]

-----------------------------------------------------------------------------
\* No other transaction holds the lock of order row o.
Free(c, o) == \A x \in Client \ {c} : o \notin locked[x]

\* The transaction of c is over.
End(c) ==
  /\ pc' = [pc EXCEPT ![c] = "idle"]
  /\ read' = [read EXCEPT ![c] = {}]
  /\ current' = [current EXCEPT ![c] = 0]
  /\ todo' = [todo EXCEPT ![c] = {}]
  /\ made' = [made EXCEPT ![c] = {}]
  /\ linked' = [linked EXCEPT ![c] = NoLink]
  /\ locked' = [locked EXCEPT ![c] = {}]

\* A failed statement, a lost connection or the deadlock detector: ROLLBACK.
Abort(c) ==
  /\ pc[c] # "idle"
  /\ End(c)
  /\ UNCHANGED <<tables, nextId>>

\* A purchase commits an order.
Place(o) ==
  /\ o \notin placed
  /\ placed' = placed \union {o}
  /\ orders' = orders \union {o}
  /\ UNCHANGED <<invoiceOf, invoices, nextId, pc, read, current, todo, made, linked, locked>>

-----------------------------------------------------------------------------
(* Generating invoices. *)

Billable(o) == o \in orders /\ invoiceOf[o] = 0

\* The orders a generation for suppliers S and buyers B reads.
Uninvoiced(S, B) == {o \in Order : Billable(o) /\ SupplierOf[o] \in S /\ BuyerOf[o] \in B}

\* With nothing to invoice the transaction ends at once.
Generate(c, S, B) ==
  /\ pc[c] = "idle"
  /\ Uninvoiced(S, B) # {}
  /\ pc' = [pc EXCEPT ![c] = "create"]
  /\ read' = [read EXCEPT ![c] = Uninvoiced(S, B)]
  /\ UNCHANGED <<tables, nextId, current, todo, made, linked, locked>>

generateInvoices(c, s) == Generate(c, {s}, Buyer)
generateInvoiceForBuyer(c, s, b) == Generate(c, {s}, {b})
generateInvoicesForUser(c, b) == Generate(c, Supplier, {b})

\* The orders of one buyer and one supplier among those read.
Group(c, s, b) == {o \in read[c] : SupplierOf[o] = s /\ BuyerOf[o] = b}

\* Mutant: the UPDATE repeats the conditions of the read instead of its ids.
LinkedByCondition(c, s, b) == Uninvoiced({s}, {b})
\* The orders the UPDATE is about: the ids that were read.
ToLink(c, s, b) == Group(c, s, b)

NewInvoice(c, s, b) ==
  [id |-> nextId, buyer |-> b, supplier |-> s, counted |-> Group(c, s, b)]

\* Mutant: Invoice.create is not given the transaction.
CreateOutside(c, s, b) ==
  /\ pc[c] = "create"
  /\ nextId <= MaxInvoices
  /\ Group(c, s, b) # {}
  /\ invoices' = invoices \union {NewInvoice(c, s, b)}
  /\ made' = [made EXCEPT ![c] = @ \union {NewInvoice(c, s, b)}]
  /\ current' = [current EXCEPT ![c] = nextId]
  /\ nextId' = nextId + 1
  /\ todo' = [todo EXCEPT ![c] = ToLink(c, s, b)]
  /\ read' = [read EXCEPT ![c] = @ \ Group(c, s, b)]
  /\ pc' = [pc EXCEPT ![c] = "link"]
  /\ UNCHANGED <<placed, orders, invoiceOf, linked, locked>>

\* Invoice.create for one group.
CreateInvoice(c, s, b) ==
  /\ pc[c] = "create"
  /\ nextId <= MaxInvoices
  /\ Group(c, s, b) # {}
  /\ made' = [made EXCEPT ![c] = @ \union {NewInvoice(c, s, b)}]
  /\ current' = [current EXCEPT ![c] = nextId]
  /\ nextId' = nextId + 1
  /\ todo' = [todo EXCEPT ![c] = ToLink(c, s, b)]
  /\ read' = [read EXCEPT ![c] = @ \ Group(c, s, b)]
  /\ pc' = [pc EXCEPT ![c] = "link"]
  /\ UNCHANGED <<tables, linked, locked>>

\* The UPDATE reaches one of the orders: it waits for the row lock, and finds
\* the row gone if a storno has committed meanwhile.
LinkOrder(c, o) ==
  /\ pc[c] = "link" /\ o \in todo[c]
  /\ Free(c, o)
  /\ IF o \in orders
       THEN /\ locked' = [locked EXCEPT ![c] = @ \union {o}]
            /\ linked' = [linked EXCEPT ![c][o] = current[c]]
       ELSE UNCHANGED <<locked, linked>>
  /\ todo' = [todo EXCEPT ![c] = @ \ {o}]
  /\ UNCHANGED <<tables, nextId, pc, read, current, made>>

\* The next group of the same transaction.
NextGroup(c) ==
  /\ pc[c] = "link" /\ todo[c] = {} /\ read[c] # {}
  /\ pc' = [pc EXCEPT ![c] = "create"]
  /\ UNCHANGED <<tables, nextId, read, current, todo, made, linked, locked>>

CommitInvoices(c) ==
  /\ pc[c] = "link" /\ todo[c] = {} /\ read[c] = {}
  /\ invoices' = invoices \union made[c]
  /\ invoiceOf' = [o \in Order |-> IF linked[c][o] # 0 THEN linked[c][o] ELSE invoiceOf[o]]
  /\ End(c)
  /\ UNCHANGED <<placed, orders, nextId>>

-----------------------------------------------------------------------------
(* Cancelling an order. *)

MayStorno(o) == o \in orders /\ invoiceOf[o] = 0

\* SELECT ... FOR UPDATE, and the check of invoice_id on the locked row; an
\* order that is gone or has an invoice ends the transaction at once.
StornoLock(c, o) ==
  /\ pc[c] = "idle"
  /\ Free(c, o) /\ MayStorno(o)
  /\ locked' = [locked EXCEPT ![c] = {o}]
  /\ pc' = [pc EXCEPT ![c] = "storno"]
  /\ UNCHANGED <<tables, nextId, read, current, todo, made, linked>>

\* DELETE and COMMIT.
StornoCommit(c) ==
  /\ pc[c] = "storno"
  /\ orders' = orders \ locked[c]
  /\ End(c)
  /\ UNCHANGED <<placed, invoiceOf, invoices, nextId>>

-----------------------------------------------------------------------------
Next ==
  \/ \E o \in Order : Place(o)
  \/ \E c \in Client :
       \/ \E s \in Supplier : generateInvoices(c, s)
       \/ \E s \in Supplier, b \in Buyer : generateInvoiceForBuyer(c, s, b)
       \/ \E b \in Buyer : generateInvoicesForUser(c, b)
       \/ \E s \in Supplier, b \in Buyer : CreateInvoice(c, s, b)
       \/ \E o \in Order : LinkOrder(c, o)
       \/ NextGroup(c)
       \/ CommitInvoices(c)
       \/ \E o \in Order : StornoLock(c, o)
       \/ StornoCommit(c)
       \/ Abort(c)

Spec == Init /\ [][Next]_vars

-----------------------------------------------------------------------------
(* Properties. *)

TypeOK ==
  /\ placed \subseteq Order /\ orders \subseteq Order
  /\ invoiceOf \in [Order -> Nat]
  /\ invoices \subseteq Invoice
  /\ nextId \in Nat
  /\ pc \in [Client -> PC]
  /\ read \in [Client -> SUBSET Order]
  /\ current \in [Client -> Nat]
  /\ todo \in [Client -> SUBSET Order]
  /\ made \in [Client -> SUBSET Invoice]
  /\ linked \in [Client -> [Order -> Nat]]
  /\ locked \in [Client -> SUBSET Order]

\* An order that is on an invoice is on one of its own buyer and supplier
\* whose total counts it, whichever generations have raced for it: nobody is
\* handed an order for nothing or an order of somebody else.
LinkedIsCounted ==
  \A o \in Order : invoiceOf[o] # 0 =>
    \E i \in invoices :
      /\ i.id = invoiceOf[o] /\ o \in i.counted
      /\ i.buyer = BuyerOf[o] /\ i.supplier = SupplierOf[o]

\* An order with an invoice is never cancelled.
InvoicedKept == \A o \in Order : invoiceOf[o] # 0 => o \in orders

\* No order is in the total of two invoices.
BilledOnce == \A i, j \in invoices : i # j => i.counted \intersect j.counted = {}

\* The orders in the total of an invoice are the orders on it: none of them
\* was cancelled or moved to another invoice.
TotalIsLinked == \A i \in invoices : i.counted = {o \in orders : invoiceOf[o] = i.id}

\* Orders the transaction of c has read and counts on being billable.
Snapshot(c) == read[c] \union UNION {i.counted : i \in made[c]}

\* Nobody has billed or cancelled an order that a generation under way has read.
ReadsAreCurrent == \A c \in Client : \A o \in Snapshot(c) : Billable(o)

\* A generation that ends finds the orders it has read as they were.
EndsAsRead ==
  \A c \in Client : pc[c] = "link" /\ pc'[c] = "idle" => \A o \in Snapshot(c) : Billable(o)

\* Totals that are right go wrong only by the commit of a generation one of
\* whose orders somebody has billed or cancelled after it read them: nothing
\* that happens to a committed invoice touches its orders.
TotalsStayRight == [][TotalIsLinked /\ EndsAsRead => TotalIsLinked']_vars

\* Every step that is not such a commit is a step of the ledger, whatever such
\* commits did before: what a generation creates and links shows all at once, each
\* of its orders on the one invoice that asks for it, and neither a rollback half
\* way nor an order placed meanwhile leaves anything of it in between.
OnLedger == INSTANCE Ledger WITH onBill <- invoiceOf, bills <- invoices
StepsOnLedger ==
  [][EndsAsRead => [OnLedger!LedgerNext]_(OnLedger!ledgerVars)]_vars

\* In every behaviour, too, the order rows are a book: one step marks the orders of
\* a generation, none of which has been cancelled, and no marked order is.
OnBook == INSTANCE OrderBook WITH billed <- {o \in Order : invoiceOf[o] # 0}
KeepsBook == OnBook!BookSpec

-----------------------------------------------------------------------------
(* The behaviours in which nobody invoices or cancels an order between the *)
(* read of a generation and its commit.                                    *)

QuietNext == Next /\ ReadsAreCurrent'
QuietSpec == Init /\ [][QuietNext]_vars

=============================================================================
