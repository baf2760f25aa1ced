------------------------------- MODULE Lists -------------------------------
(***************************************************************************)
(* The eleven paginated lists of the application, each a page in a browser *)
(* tab with a filter form, a table with sortable columns and row actions,  *)
(* over useListFilters (inertia/composables/use_list_filters.ts).          *)
(*                                                                         *)
(* A page, its controller and its query are written apart and must agree   *)
(* on the filters, the columns and the default order; here each is a       *)
(* record.  Inertia has one visit in flight: a new one gives the former up *)
(* (a POST is handled all the same), a visit may fail, and the page goes   *)
(* on with what it shows.  A POST keeps the state of the page              *)
(* (preserveState), a list visit asks for it, so the form outlives every   *)
(* answer, and lastAppliedFilterParams outlives what it describes.         *)
(*                                                                         *)
(* A filter is set to one value or not at all; rows carry that value or    *)
(* not.  The mark of a row is the set of what is true of it that its       *)
(* status, and the buttons next to it, depend on.                          *)
(***************************************************************************)
EXTENDS Naturals, Sequences, FiniteSets, SequencesExt

CONSTANTS
  Row,        \* ids of rows
  Alike,      \* the rows that carry the value of a filter
  PerPage,    \* rows on a page
  UserKind,   \* marks users have at first, or get elsewhere
  None,       \* no row, no visit, no dialog, no answer
  MaxMoves,   \* bound: what the user does, page by page
  MaxChanges  \* bound: rows changed elsewhere

-----------------------------------------------------------------------------
(* What a page sends.  "sorting": what a click on a header calls.           *)

Sorted == {"sortBy", "sortOrder"}
NewestFirst == [sortBy |-> "createdAt", dir |-> "desc"]

OrdersForm ==
  [fields |-> {"channel", "invoiced"}, sends |-> Sorted,
   order |-> NewestFirst, sorting |-> "navigateSort"]
InvoicesForm ==
  [fields |-> {"status"}, sends |-> Sorted,
   order |-> NewestFirst, sorting |-> "navigateSort"]
PaymentsForm ==
  [fields |-> {"status", "buyerId"}, sends |-> Sorted,
   order |-> NewestFirst, sorting |-> "navigateSort"]
AdminOrdersForm ==
  [fields |-> {"channel", "invoiced", "buyerId", "supplierId"}, sends |-> Sorted,
   order |-> NewestFirst, sorting |-> "navigateSort"]
AdminInvoicesForm ==
  [fields |-> {"status", "buyerId", "supplierId"}, sends |-> Sorted,
   order |-> NewestFirst, sorting |-> "navigateSort"]
UsersForm ==
  [fields |-> {"userId", "role", "disabled"}, sends |-> Sorted,
   order |-> [sortBy |-> "keypadId", dir |-> "asc"], sorting |-> "navigateSort"]
AuditForm ==
  [fields |-> {"action"}, sends |-> {"sortOrder"},
   order |-> NewestFirst, sorting |-> "applyFilters"]
AdminAuditForm ==
  [fields |-> {"action", "entityType", "userId"}, sends |-> {"sortOrder"},
   order |-> NewestFirst, sorting |-> "applyFilters"]
DeliveriesForm ==
  [fields |-> {"productId"}, sends |-> Sorted,
   order |-> NewestFirst, sorting |-> "navigateSort"]
ProductsForm ==
  [fields |-> {"search", "categoryId"}, sends |-> {},
   order |-> [sortBy |-> "displayName", dir |-> "asc"], sorting |-> "none"]
StockForm ==
  [fields |-> {"categoryId", "scope"}, sends |-> Sorted,
   order |-> [sortBy |-> "productName", dir |-> "asc"], sorting |-> "navigateSort"]

Form ==
  [orders |-> OrdersForm, invoices |-> InvoicesForm, payments |-> PaymentsForm,
   adminOrders |-> AdminOrdersForm, adminInvoices |-> AdminInvoicesForm,
   users |-> UsersForm, audit |-> AuditForm, adminAudit |-> AdminAuditForm,
   deliveries |-> DeliveriesForm, products |-> ProductsForm, stock |-> StockForm]

Page == DOMAIN Form

(* What its table shows: the columns that sort, and the controls next to a  *)
(* row with each mark.                                                      *)

InvoiceMark == {{"unpaid"}, {"awaiting"}, {"paid"}}
OrderMark == {{"open"}, {"invoiced"}}
\* A user owes when there are orders not invoiced, or is billed.
Debts == {"owing", "billed"}
UserMark == {m \in SUBSET ({"admin", "kiosk", "disabled"} \union Debts) : ~ Debts \subseteq m}

OrdersTable == [sortable |-> {"createdAt"}, offers |-> {}]
\* Mutant: a paid invoice can still be marked as paid.
PaidOffered ==
  [sortable |-> {"createdAt", "totalCost"},
   offers |-> {<<{"unpaid"}, "requestPaid">>, <<{"paid"}, "requestPaid">>}]
InvoicesTable ==
  [sortable |-> {"createdAt", "totalCost"},
   offers |-> {<<{"unpaid"}, "requestPaid">>, <<{"awaiting"}, "cancelPaid">>,
               <<{"unpaid"}, "showQr">>, <<{"awaiting"}, "showQr">>}]
PaymentsTable ==
  [sortable |-> {"createdAt", "totalCost"},
   offers |-> {<<{"unpaid"}, "approve">>, <<{"awaiting"}, "approve">>,
               <<{"awaiting"}, "reject">>}]
AdminOrdersTable ==
  [sortable |-> {"createdAt"}, offers |-> {<<{"open"}, "storno">>}]
AdminInvoicesTable == [sortable |-> {"createdAt", "totalCost"}, offers |-> {}]
UserAct == {"disable", "enable", "promote", "demote", "setKiosk", "unsetKiosk",
            "generateInvoice", "sendPasswordReset", "impersonate"}
\* The role select, two switches and three buttons.
UserControl(m, act) ==
  CASE act = "disable" -> m \intersect ({"disabled"} \union Debts) = {}
    [] act = "enable" -> "disabled" \in m
    [] act = "promote" -> "admin" \notin m
    [] act = "demote" -> "admin" \in m
    [] act = "setKiosk" -> "kiosk" \notin m
    [] act = "unsetKiosk" -> "kiosk" \in m
    [] act = "generateInvoice" -> "owing" \in m
    [] act = "sendPasswordReset" -> TRUE
    [] act = "impersonate" -> m \intersect {"admin", "kiosk", "disabled"} = {}
UsersTable ==
  [sortable |-> {"keypadId", "displayName"},
   offers |-> {offer \in UserMark \X UserAct : UserControl(offer[1], offer[2])}]
AuditTable == [sortable |-> {"createdAt"}, offers |-> {}]
AdminAuditTable == [sortable |-> {"createdAt"}, offers |-> {}]
DeliveriesTable == [sortable |-> {"createdAt", "price"}, offers |-> {}]
ProductsTable == [sortable |-> {}, offers |-> {}]
StockTable ==
  [sortable |-> {"productName", "totalRemaining", "totalSold"}, offers |-> {}]

Table ==
  [orders |-> OrdersTable, invoices |-> InvoicesTable, payments |-> PaymentsTable,
   adminOrders |-> AdminOrdersTable, adminInvoices |-> AdminInvoicesTable,
   users |-> UsersTable, audit |-> AuditTable, adminAudit |-> AdminAuditTable,
   deliveries |-> DeliveriesTable, products |-> ProductsTable, stock |-> StockTable]

(* What its controller hands to the query.                                  *)

OrdersIndex == {"channel", "invoiced"} \union Sorted
InvoicesIndex == {"status"} \union Sorted
PaymentsIndex == {"status", "buyerId"} \union Sorted
\* Mutant: the supplier is not handed on.
SupplierForgotten == {"channel", "invoiced", "buyerId"} \union Sorted
AdminOrdersIndex == {"channel", "invoiced", "buyerId", "supplierId"} \union Sorted
AdminInvoicesIndex == {"status", "buyerId", "supplierId"} \union Sorted
UsersIndex == {"role", "userId", "disabled"} \union Sorted
AuditIndex == {"action", "sortOrder"}
AdminAuditIndex == {"action", "entityType", "userId", "sortOrder"}
DeliveriesIndex == {"productId"} \union Sorted
ProductsIndex == {"search", "categoryId"}
StockIndex == {"categoryId", "scope"} \union Sorted

Index ==
  [orders |-> OrdersIndex, invoices |-> InvoicesIndex, payments |-> PaymentsIndex,
   adminOrders |-> AdminOrdersIndex, adminInvoices |-> AdminInvoicesIndex,
   users |-> UsersIndex, audit |-> AuditIndex, adminAudit |-> AdminAuditIndex,
   deliveries |-> DeliveriesIndex, products |-> ProductsIndex, stock |-> StockIndex]

(* What the query makes of it: the filters it knows, the columns it sorts   *)
(* by, and the order it takes otherwise.                                    *)

getOrdersForUser ==
  [where |-> {"channel", "invoiced"}, whitelist |-> {"createdAt"}, order |-> NewestFirst]
getInvoicesForBuyer ==
  [where |-> {"status"}, whitelist |-> {"createdAt", "totalCost"}, order |-> NewestFirst]
getInvoicesForSupplier ==
  [where |-> {"status", "buyerId"}, whitelist |-> {"createdAt", "totalCost"},
   order |-> NewestFirst]
getAllOrders ==
  [where |-> {"channel", "invoiced", "buyerId", "supplierId"},
   whitelist |-> {"createdAt"}, order |-> NewestFirst]
getAllInvoices ==
  [where |-> {"status", "buyerId", "supplierId"},
   whitelist |-> {"createdAt", "totalCost"}, order |-> NewestFirst]
getUsers ==
  [where |-> {"role", "userId", "disabled"}, whitelist |-> {"keypadId", "displayName"},
   order |-> [sortBy |-> "keypadId", dir |-> "asc"]]
getForUser == [where |-> {"action"}, whitelist |-> {}, order |-> NewestFirst]
getAll ==
  [where |-> {"action", "entityType", "userId"}, whitelist |-> {}, order |-> NewestFirst]
getRecentDeliveries ==
  [where |-> {"productId"}, whitelist |-> {"createdAt", "price"}, order |-> NewestFirst]
getProductsPaginated ==
  [where |-> {"search", "categoryId"}, whitelist |-> {},
   order |-> [sortBy |-> "displayName", dir |-> "asc"]]
\* Without a sortOrder it sorts downwards, though the page shows "asc".
getStockForSupplier ==
  [where |-> {"categoryId", "scope"},
   whitelist |-> {"productName", "totalRemaining", "totalSold"},
   order |-> [sortBy |-> "productName", dir |-> "desc"]]

Query ==
  [orders |-> getOrdersForUser, invoices |-> getInvoicesForBuyer,
   payments |-> getInvoicesForSupplier, adminOrders |-> getAllOrders,
   adminInvoices |-> getAllInvoices, users |-> getUsers, audit |-> getForUser,
   adminAudit |-> getAll, deliveries |-> getRecentDeliveries,
   products |-> getProductsPaginated, stock |-> getStockForSupplier]

-----------------------------------------------------------------------------
VARIABLES
  page,      \* the page that is open
  table,     \* the server: the rows, each with its mark
  form,      \* the page: filters chosen, column and direction of the header
  applied,   \* the page: lastAppliedFilterParams
  shown,     \* the page: the rows, and meta
  url,       \* the page: its address
  visit,     \* the visit in flight
  posts,     \* POST requests the server has not handled
  dialog,    \* the page: the confirmation that is open
  qr,        \* the page: the dialog with the payment code
  fetches,   \* requests for payment codes
  quick,     \* the stock page: the form for a delivery
  delivered, \* the server: deliveries made from what the form holds
  moves, changes, \* counters of the bounds
  asked,     \* history: the params the list should show, None when the page lost track
  changed,   \* history: some row changed
  unsure     \* history: the page does not know what became of a delivery

server == <<table, delivered, changed>>
qrVars == <<qr, fetches>>
vars == <<page, table, form, applied, shown, url, visit, posts, dialog, qr, fetches, quick,
          delivered, moves, changes, asked, changed, unsure>>

MarksOf(p) ==
  CASE p \in {"invoices", "payments", "adminInvoices"} -> InvoiceMark
    [] p \in {"orders", "adminOrders"} -> OrderMark
    [] p = "users" -> UserKind
    [] OTHER -> {{"plain"}}

Field == UNION {Form[p].fields : p \in Page}
Column == (UNION {Table[p].sortable : p \in Page}) \union {Form[p].order.sortBy : p \in Page}
Direction == {"asc", "desc"}
\* What is sent of a form; "" for what is left out.
Params == [set : SUBSET Field, sortBy : Column \union {""}, dir : Direction \union {""}]
NoParams == [set |-> {}, sortBy |-> "", dir |-> ""]
\* An address; history: whether its page number was counted in another list.
Address == [q : Params, page : Nat \ {0}, carried : BOOLEAN]
Plain == [q |-> NoParams, page |-> 1, carried |-> FALSE]

Kind == {"list", "partial", "act", "delivery"}

ASSUME ListsAssumption ==
  /\ Row \subseteq Nat /\ IsFiniteSet(Row) /\ Alike \subseteq Row
  /\ UserKind \subseteq UserMark
  /\ PerPage \in Nat \ {0} /\ MaxMoves \in [Page -> Nat] /\ MaxChanges \in Nat
  /\ None \notin Row \union Params
  /\ None \notin [kind : Kind, ready : BOOLEAN, to : Address]

\* buildFilterParams
Built(f) ==
  [set |-> f.set,
   sortBy |-> IF "sortBy" \in Form[page].sends THEN f.sortBy ELSE "",
   dir |-> IF "sortOrder" \in Form[page].sends THEN f.dir ELSE ""]

\* The form as it is when nothing was asked for, and when it is cleared.
Default(p) == [set |-> {}, sortBy |-> Form[p].order.sortBy, dir |-> Form[p].order.dir]

-----------------------------------------------------------------------------
(* The server's side of a list.                                             *)

\* The filters the controller and the query both know.
Honoured(q) == q.set \intersect Index[page] \intersect Query[page].where
\* The order the query takes.
OrderOf(q) ==
  [sortBy |-> IF "sortBy" \in Index[page] /\ q.sortBy \in Query[page].whitelist
                THEN q.sortBy ELSE Query[page].order.sortBy,
   dir |-> IF "sortOrder" \in Index[page] /\ q.dir # "" THEN q.dir
           ELSE Query[page].order.dir]

\* Row r has the value of filter f: a status, or something that stays.
Passes(r, f) ==
  CASE f = "status" -> "unpaid" \in table[r]
    [] f = "invoiced" -> "open" \in table[r]
    [] f = "disabled" -> "disabled" \notin table[r]
    [] f = "role" -> "admin" \notin table[r]
    [] OTHER -> r \in Alike
Found(fs) == {r \in DOMAIN table : \A f \in fs : Passes(r, f)}

\* The rows in the order o: some columns run with the ids, some against.
Before(o, a, b) ==
  IF (o.sortBy \in {"totalCost", "price", "displayName", "totalRemaining"}) = (o.dir = "asc")
    THEN a > b ELSE a < b

SmallerOf(a, b) == IF a < b THEN a ELSE b
CeilDiv(n, d) == (n + d - 1) \div d
LastPage(fs) == IF Found(fs) = {} THEN 1 ELSE CeilDiv(Cardinality(Found(fs)), PerPage)
\* The answer to a visit of address a: one page of the rows found, and meta.
Listed(a) ==
  LET o == OrderOf(a.q)
      all == SetToSortSeq(Found(Honoured(a.q)), LAMBDA x, y : Before(o, x, y))
      cut == SubSeq(all, (a.page - 1) * PerPage + 1, SmallerOf(a.page * PerPage, Len(all)))
  IN  [of |-> a, set |-> Honoured(a.q), order |-> o,
       last |-> LastPage(Honoured(a.q)),
       rows |-> [k \in DOMAIN cut |-> [id |-> cut[k], mark |-> table[cut[k]]]]]

-----------------------------------------------------------------------------
(* Visits.                                                                  *)

Get(kind, a) == [kind |-> kind, ready |-> TRUE, to |-> a]
Deaf(ps) == [k \in DOMAIN ps |-> [ps[k] EXCEPT !.live = FALSE]]

\* router.get and router.post: the visit in flight is given up, and what it
\* would have told is not heard; its onFinish runs.
Visit(v, sent) ==
  /\ visit' = v /\ posts' = Deaf(posts) \o sent
  /\ unsure' = (unsure \/ (visit # None /\ visit.kind = "delivery"))

\* Moves of the user; a dialog is in front of everything else.
Move == moves < MaxMoves[page] /\ moves' = moves + 1 /\ UNCHANGED <<page, changes>>
Touch == Move /\ dialog = None /\ ~qr.open

Load(a) ==
  /\ Visit(Get("list", a), <<>>) /\ asked' = a.q
  /\ quick' = [quick EXCEPT !.submitting = FALSE]
  /\ UNCHANGED <<server, shown, url, dialog, qrVars>>

-----------------------------------------------------------------------------
(* useListFilters: the filter form, the header and the paginator.           *)

\* v-model of a filter: nothing is asked for yet.
ChooseFilter(x) ==
  /\ Touch /\ x \in Form[page].fields
  /\ form' = [form EXCEPT !.set = IF x \in @ THEN @ \ {x} ELSE @ \union {x}]
  /\ UNCHANGED <<server, applied, shown, url, visit, posts, dialog, qrVars, quick, asked, unsure>>

\* The same filters again: the page number stays; it is the number of another
\* list when the answer to the former click has not come.
PageFor(q) == IF q = applied THEN shown.of.page ELSE 1
applyFilters(f) ==
  LET q == Built(f)
      n == PageFor(q)
  IN  /\ Load([q |-> q, page |-> n,
               carried |-> n > 1 /\ (applied.set # shown.of.q.set \/ shown.of.carried)])
      /\ form' = f /\ applied' = q
Apply == Touch /\ applyFilters(form)

navigateClear ==
  /\ Touch /\ form' = Default(page) /\ applied' = Built(Default(page))
  /\ Load([Plain EXCEPT !.q = Built(Default(page))])

\* It sends the filters as they are chosen now, applied or not.
onPageChange(n) ==
  /\ Touch /\ shown.last > 1 /\ n \in 1..shown.last
  /\ Load([q |-> Built(form), page |-> n,
           carried |-> n > 1 /\ Built(form).set # shown.of.q.set])
  /\ UNCHANGED <<form, applied>>

\* The data table: the same header again turns the order, another one starts "asc".
Turned(c) ==
  [form EXCEPT !.sortBy = c,
               !.dir = IF c = form.sortBy /\ form.dir = "asc" THEN "desc" ELSE "asc"]
navigateSort(f) ==
  form' = f /\ Load([Plain EXCEPT !.q = Built(f)]) /\ UNCHANGED applied
onSort(c) ==
  /\ Touch /\ c \in Table[page].sortable
  /\ IF Form[page].sorting = "applyFilters" THEN applyFilters(Turned(c))
     ELSE navigateSort(Turned(c))

\* The invitations below the users: only they are loaded, but the address is new.
changeInvitePage ==
  /\ Touch /\ page = "users"
  /\ Visit(Get("partial", [Plain EXCEPT !.q = Built(form)]), <<>>)
  /\ asked' = IF visit = None /\ asked = Built(form) THEN asked ELSE None
  /\ UNCHANGED <<server, form, applied, shown, url, dialog, qrVars, quick>>

-----------------------------------------------------------------------------
(* Buttons next to a row.                                                   *)

\* A POST; a list that was on its way is not seen.
Send(p) ==
  /\ Visit([kind |-> IF p.act = "delivery" THEN "delivery" ELSE "act",
            ready |-> FALSE, to |-> Plain], <<p>>)
  /\ asked' = IF visit # None /\ visit.kind = "list" THEN None ELSE asked

Post(act, r) == [act |-> act, row |-> r.id, mark |-> r.mark, live |-> TRUE]
Confirmed == {"storno", "generateInvoice"}
Offered(act, r) == <<r.mark, act>> \in Table[page].offers

\* requestPaid, cancelPaid, approve, reject, toggleDisabled, updateRole,
\* toggleKiosk, impersonateUser, and the button for a password reset.
Press(act, k) ==
  /\ Touch /\ Offered(act, shown.rows[k]) /\ act \notin Confirmed \union {"showQr"}
  /\ Send(Post(act, shown.rows[k])) /\ quick' = quick
  /\ UNCHANGED <<server, form, applied, shown, url, dialog, qrVars>>

\* confirm.require of stornoOrder and generateInvoiceForUser.
AskFirst(act, k) ==
  /\ Touch /\ Offered(act, shown.rows[k]) /\ act \in Confirmed
  /\ dialog' = Post(act, shown.rows[k])
  /\ UNCHANGED <<server, form, applied, shown, url, visit, posts, qrVars, quick, asked, unsure>>
Accept ==
  /\ Move /\ dialog # None /\ dialog' = None /\ Send(dialog)
  /\ UNCHANGED <<server, form, applied, shown, url, qrVars, quick>>
Reject ==
  /\ Move /\ dialog # None /\ dialog' = None
  /\ UNCHANGED <<server, form, applied, shown, url, visit, posts, qrVars, quick, asked, unsure>>

ActiveAdmin(m) == "admin" \in m /\ "disabled" \notin m
\* The table has all the users there are.
LastActiveAdmin(r) ==
  ActiveAdmin(table[r]) /\ \A x \in DOMAIN table \ {r} : ~ActiveAdmin(table[x])

\* The server changes nothing about row r, and says so.
Refuses(act, r) ==
  \/ act \in {"requestPaid", "cancelPaid"} /\ "paid" \in table[r]
  \/ act = "storno" /\ "open" \notin table[r]
  \/ act \in {"disable", "demote"} /\ LastActiveAdmin(r)
  \/ act = "disable" /\ table[r] \intersect Debts # {}
  \/ act = "generateInvoice" /\ "owing" \notin table[r]
  \/ act = "sendPasswordReset" /\ "disabled" \in table[r]
  \/ act = "impersonate" /\ table[r] \intersect {"admin", "kiosk", "disabled"} # {}

\* What it makes of a row otherwise, None for a row that is gone.
Outcome(act, m) ==
  CASE act = "requestPaid" -> {"awaiting"}
    [] act \in {"cancelPaid", "reject"} -> {"unpaid"}
    [] act = "approve" -> {"paid"}
    [] act = "storno" -> None
    [] act = "disable" -> m \union {"disabled"}
    [] act = "enable" -> m \ {"disabled"}
    [] act = "promote" -> m \union {"admin"}
    [] act = "demote" -> m \ {"admin"}
    [] act = "setKiosk" -> m \union {"kiosk"}
    [] act = "unsetKiosk" -> m \ {"kiosk"}
    [] act = "generateInvoice" -> (m \ {"owing"}) \union {"billed"}
    [] act \in {"sendPasswordReset", "impersonate"} -> m

Became(r, m) ==
  IF m = None THEN [x \in DOMAIN table \ {r} |-> table[x]] ELSE [table EXCEPT ![r] = m]
Without(ps, k) == RemoveAt(ps, k)

\* Where the answer to a POST leads: usersUrl and deliveryReturnUrl take the
\* referer, the others the list as it is first seen.
ReturnUrl(act) == IF page \in {"users", "stock"} /\ act # "impersonate" THEN url ELSE Plain
Answered(p) ==
  visit' = IF p.live THEN [visit EXCEPT !.ready = TRUE, !.to = ReturnUrl(p.act)] ELSE visit

\* An admin who impersonates is led to the shop: that answer never comes here.
Handle(k) ==
  /\ k \in DOMAIN posts /\ posts[k].act # "delivery"
  /\ LET p == posts[k]
         done == p.row \in DOMAIN table /\ ~Refuses(p.act, p.row)
     IN  /\ IF done /\ p.act = "impersonate" THEN visit' = visit ELSE Answered(p)
         /\ posts' = Without(posts, k)
         /\ table' = IF done THEN Became(p.row, Outcome(p.act, table[p.row])) ELSE table
         /\ changed' = (changed \/ table' # table)
  /\ UNCHANGED <<page, form, applied, shown, url, dialog, qrVars, quick, delivered, moves,
                 changes, asked, unsure>>

-----------------------------------------------------------------------------
(* The form for a delivery on the stock page.                               *)

\* Product, amount and price are filled in.
Fill ==
  /\ Touch /\ page = "stock" /\ ~quick.full
  /\ quick' = [quick EXCEPT !.full = TRUE] /\ delivered' = 0
  /\ UNCHANGED <<table, changed, form, applied, shown, url, visit, posts, dialog, qrVars,
                 asked, unsure>>

\* The button is off while a delivery is on its way; Enter in the price field
\* does not look.  The onFinish of a delivery given up comes after submitting
\* was set.
submitQuickDelivery(byEnter) ==
  /\ Touch /\ quick.full /\ (byEnter \/ ~quick.submitting)
  /\ Send([act |-> "delivery", row |-> None, mark |-> None, live |-> TRUE])
  /\ quick' = [quick EXCEPT !.submitting = ~(visit # None /\ visit.kind = "delivery")]
  /\ UNCHANGED <<server, form, applied, shown, url, dialog, qrVars>>

store(k) ==
  /\ k \in DOMAIN posts /\ posts[k].act = "delivery"
  /\ Answered(posts[k]) /\ posts' = Without(posts, k) /\ delivered' = delivered + 1
  /\ UNCHANGED <<page, table, changed, form, applied, shown, url, dialog, qrVars, quick,
                 moves, changes, asked, unsure>>

-----------------------------------------------------------------------------
(* Answers of visits.                                                       *)

\* Mutant: the form for a delivery is left as it is.
FormStays == [full |-> quick.full, submitting |-> FALSE]
FormCleared == [full |-> FALSE, submitting |-> FALSE]

\* The answer is shown, with the rows as they are now; a partial one has no list.
\* After a POST that leads to the first page the form tells another story.
Arrive ==
  /\ visit # None /\ visit.ready /\ visit' = None /\ url' = visit.to
  /\ shown' = IF visit.kind = "partial" THEN shown ELSE Listed(visit.to)
  /\ quick' = IF visit.kind = "delivery" THEN FormCleared ELSE quick
  /\ asked' = IF visit.kind = "act" /\ (page # "users" \/ visit.to # url) THEN None ELSE asked
  /\ UNCHANGED <<page, server, form, applied, posts, dialog, qrVars, moves, changes, unsure>>

\* The visit fails: what it was for happened, will still happen, or never does.
Fail ==
  /\ visit # None /\ visit' = None
  /\ \/ posts' = Deaf(posts)
     \/ \E k \in DOMAIN posts : posts[k].live /\ posts' = RemoveAt(posts, k)
  /\ quick' = IF visit.kind = "delivery" THEN FormStays ELSE quick
  /\ unsure' = (unsure \/ visit.kind = "delivery")
  /\ asked' = IF visit.kind = "list" THEN None ELSE asked
  /\ UNCHANGED <<page, server, form, applied, shown, url, dialog, qrVars, moves, changes>>

-----------------------------------------------------------------------------
(* The payment code of an invoice.                                          *)

showQr(k) ==
  /\ Touch /\ Offered("showQr", shown.rows[k])
  /\ qr' = [qr EXCEPT !.open = TRUE, !.loading = TRUE, !.asked = shown.rows[k].id,
                      !.crossed = fetches # <<>>]
  /\ fetches' = Append(fetches, shown.rows[k].id)
  /\ UNCHANGED <<server, form, applied, shown, url, visit, posts, dialog, quick, asked, unsure>>
CloseQr ==
  /\ Move /\ qr.open /\ qr' = [qr EXCEPT !.open = FALSE]
  /\ UNCHANGED <<server, form, applied, shown, url, visit, posts, dialog, fetches, quick, asked,
                 unsure>>

\* An answer is shown whatever invoice the dialog is about by now.
CodeComes(k) == [qr EXCEPT !.loading = FALSE, !.code = fetches[k]]
\* Mutant: a failure leaves the code there is.
CodeStays == [qr EXCEPT !.loading = FALSE]
CodeFails == [qr EXCEPT !.loading = FALSE, !.code = None]
QrAnswer(k) ==
  /\ k \in DOMAIN fetches /\ qr' \in {CodeComes(k), CodeFails}
  /\ fetches' = RemoveAt(fetches, k)
  /\ UNCHANGED <<page, server, form, applied, shown, url, visit, posts, dialog, quick, moves,
                 changes, asked, unsure>>

-----------------------------------------------------------------------------
\* Others change a row: its mark, or it goes away.
Elsewhere(r) ==
  /\ changes < MaxChanges /\ changes' = changes + 1 /\ r \in DOMAIN table
  /\ \/ \E m \in MarksOf(page) \ {table[r]} : table' = Became(r, m)
     \/ page \in {"orders", "adminOrders"} /\ table' = Became(r, None)
  /\ changed' = TRUE
  /\ UNCHANGED <<page, form, applied, shown, url, visit, posts, dialog, qrVars, quick, delivered,
                 moves, asked, unsure>>

Usual(p) ==
  CASE p \in {"invoices", "payments", "adminInvoices"} -> {"unpaid"}
    [] p \in {"orders", "adminOrders"} -> {"open"}
    [] p = "users" -> {"admin"}
    [] OTHER -> {"plain"}

\* The link in a reminder opens its page with the question about one invoice.
Linked(r) ==
  CASE page = "invoices" /\ table[r] = {"unpaid"} ->
         {None, [act |-> "requestPaid", row |-> r, mark |-> table[r], live |-> TRUE]}
    [] page = "payments" /\ table[r] = {"awaiting"} ->
         {None, [act |-> "approve", row |-> r, mark |-> table[r], live |-> TRUE]}
    [] OTHER -> {None}

\* A page is opened by its plain address; its form shows its own defaults.
\* The admin who looks at the users is one of them.
Init ==
  /\ page \in Page
  /\ \E r \in Row, m \in MarksOf(page) :
       /\ table = [x \in Row |-> IF x = r THEN m ELSE Usual(page)]
       /\ dialog \in Linked(r)
  /\ form = Default(page) /\ applied = Built(Default(page))
  /\ url = Plain /\ shown = Listed(Plain) /\ visit = None /\ posts = <<>>
  /\ qr = [open |-> FALSE, loading |-> FALSE, asked |-> None, code |-> None, crossed |-> FALSE]
  /\ fetches = <<>> /\ quick = [full |-> FALSE, submitting |-> FALSE]
  /\ delivered = 0
  /\ moves = 0 /\ changes = 0
  /\ asked = Built(Default(page))
  /\ changed = FALSE /\ unsure = FALSE

Act == {pair[2] : pair \in UNION {Table[p].offers : p \in Page}}
Next ==
  \/ \E x \in Field : ChooseFilter(x)
  \/ Apply \/ navigateClear \/ changeInvitePage
  \/ \E n \in 1..shown.last : onPageChange(n)
  \/ \E c \in Column : onSort(c)
  \/ \E act \in Act, k \in DOMAIN shown.rows : Press(act, k) \/ AskFirst(act, k)
  \/ Accept \/ Reject
  \/ \E k \in DOMAIN posts : Handle(k) \/ store(k)
  \/ Fill \/ \E byEnter \in BOOLEAN : submitQuickDelivery(byEnter)
  \/ Arrive \/ Fail
  \/ \E k \in DOMAIN shown.rows : showQr(k)
  \/ CloseQr \/ \E k \in DOMAIN fetches : QrAnswer(k)
  \/ \E r \in Row : Elsewhere(r)

Spec == Init /\ [][Next]_vars

-----------------------------------------------------------------------------
Mark == UserMark \union UNION {MarksOf(p) : p \in Page}
Request == [act : Act \union {"delivery"}, row : Row \union {None}, mark : Mark \union {None},
            live : BOOLEAN]

\* Type invariant; only the last request can still be heard, and its visit waits for it.
TypeOK ==
  /\ page \in Page /\ DOMAIN table \subseteq Row
  /\ \A r \in DOMAIN table : table[r] \in MarksOf(page) \union UserMark
  /\ form \in [set : SUBSET Form[page].fields, sortBy : Column, dir : Direction]
  /\ applied \in Params /\ url \in Address
  /\ shown.of \in Address /\ shown.last \in Nat \ {0}
  /\ visit = None \/ visit \in [kind : Kind, ready : BOOLEAN, to : Address]
  /\ posts \in Seq(Request)
  /\ \A k \in DOMAIN posts : posts[k].live => k = Len(posts) /\ visit # None /\ ~visit.ready
  /\ dialog = None \/ dialog \in Request

\* The stock page by its plain address: getStockForSupplier sorts downwards, and the
\* arrow in the header shows upwards.
StockAtFirst == page = "stock" /\ shown.of.q = NoParams

\* The table shows what the page says it shows: the filters that were sent are
\* honoured by controller and query, nothing is filtered that was not asked for, and
\* the rows come in the order of the arrow in the header, except on the stock page
\* until something is asked of it.  And the page exists: an empty one beyond the last
\* is reached only when rows changed, or when its number was counted in a list with
\* other filters (applyFilters before the former answer, onPageChange with filters not
\* applied).
ShownAsAsked ==
  /\ visit = None /\ asked # None =>
       /\ shown.set = asked.set
       /\ StockAtFirst \/ shown.order = [sortBy |-> form.sortBy, dir |-> form.dir]
  /\ ~changed /\ ~shown.of.carried => shown.of.page <= shown.last

\* A control next to a row, or a link in a mail, is refused only when the row changed
\* after it was shown, with two exceptions: the table of users offers to disable or
\* demote the last active admin, and a password reset for a disabled user.
RefusedOnlyWhenStale ==
  \A k \in DOMAIN posts :
    LET p == posts[k] IN
    p.row \in DOMAIN table /\ Refuses(p.act, p.row) =>
      \/ table[p.row] # p.mark
      \/ p.act \in {"disable", "demote"} /\ LastActiveAdmin(p.row)
      \/ p.act = "sendPasswordReset" /\ "disabled" \in p.mark

\* The dialog with a payment code shows the code of the invoice it was opened for,
\* an error, or nothing, unless the code of another was still on its way.
QrIsTheirs ==
  qr.open /\ ~qr.loading /\ ~qr.crossed => qr.code \in {None, qr.asked}

\* What was filled in once is delivered once, unless the page never learned what
\* became of a request.
DeliversOnce == ~unsure => delivered <= 1
=============================================================================
