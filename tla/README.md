# Small Business Fridge: a verification project

Small Business Fridge is a web application (AdonisJS, PostgreSQL, Vue) with
which the people of an office buy what their colleagues put into a shared
fridge. A *supplier* registers deliveries of products, a *customer* buys single
units in the web shop or a basket at a self-checkout kiosk, the supplier turns
the orders into invoices, the customer says that an invoice is paid and the
supplier approves it. Admins cancel orders, manage users and invite new ones.
The data came from an older installation on MongoDB, by a script.

This directory holds TLA+ models of the parts in which money and stock can go
wrong, TLC configurations that check them on small instances, and TLAPS proofs
of what matters most for every size. Everything is translated from the code;
`PROJECT.json` maps each definition to its lines.

How to run it, in this directory:

    tlc -workers 2 -config stock_safety.cfg MCFridgeStock    # any run of PROJECT.json
    tlc -workers 2 -config accounts.cfg MCMigration
    tlapm KioskProofs.tla                                    # any *Proofs module


## 1. Inventory

### The system's parts

| part | code | state | operations | hard behaviour |
|---|---|---|---|---|
| Orders | `services/order_service.ts`, `shop_controller.ts`, `kiosk_controller.ts` | `deliveries.amount_left`, rows of `orders` | `purchase`, `purchaseBasket` | transactions that race for the last unit, row locks in different orders, rollback half-way |
| Storno | `admin_service.ts` `stornoOrder` | the same, and `orders.invoice_id` (read) | cancel an order, put its unit back | reads the delivery without a lock, writes it later |
| Deliveries | `delivery_service.ts` | `deliveries` | `addStock` | inserted while baskets run their FIFO query |
| Invoice generation | `invoice_service.ts` | `invoices`, `orders.invoice_id` | `generateInvoices`, `generateInvoiceForBuyer`, `generateInvoicesForUser` | reads without a lock, then one UPDATE per group, next to each other and to stornos |
| Payments | `invoice_service.ts`, `invoices_controller.ts`, `payments_controller.ts` | `is_paid`, `is_payment_requested` | `requestPayment`, `cancelPaymentRequest`, `approvePayment`, `rejectPayment` | load, check, save without a transaction |
| Reminder jobs | `notification_service.ts`, `start/scheduler.ts` | `auto_reminder_count` | `sendUnpaidInvoiceReminders` (and two jobs that only read and mail) | copies kept over many awaits, mail that fails, restart |
| Kiosk page | `inertia/pages/kiosk/index.vue` and its components | identified customer, basket, dialogs, products, requests in flight | keypad, basket, checkout, cancel, idle timer, reload of products | answers that come late, in another order, or never |
| Audit log | `audit_service.ts` | `audit_logs` | `log` | on another connection than the transaction that awaits it |
| Users | `admin_service.ts`, `users_controller.ts`, `keypad_id_service.ts`, `bootstrap_controller.ts`, `register_controller.ts` | `users.role`, `is_disabled`, `keypad_id`, `email` | `updateUser`, bootstrap, registration | check (last admin, open debts, free number), then save |
| Invitations | `invitation_service.ts` and its controllers | `user_invitations` | create, revoke, accept, expire | replaced, revoked, accepted and accepted by sign-in at once |
| Sign-in | `oidc_controller.ts`, `auth_identity_service.ts`, `registration_policy_service.ts`, `login_controller.ts` | `user_auth_identities`, session | provider call-back, registration, linking | four tables written one after the other without a transaction |
| Contact data | `profile_controller.ts`, `email_verification_service.ts`, `iban_change_service.ts`, `password_reset_service.ts` | pending and confirmed columns of `users`, three token tables | update, resend, confirm, reset | copies of the row; token and row in separate statements |
| Migration script | `scripts/migrate_from_mongodb.ts` | every table, a map of ids in memory | truncate, copy, link, settle | stops anywhere and is run again; references that lead nowhere |
| Catalogue | `product_service.ts`, `admin_service.ts`, `products_controller.ts` and others | products, categories, allergens, pivot tables | create, edit, disable, delete, exclude | check that nothing uses it, then remove; forms that grow old |
| Recommendations | `recommendation_service.ts` | a table of scores | `refreshAll`, `getRecommendedIds` | delete and insert without a transaction, rows a day old |
| Lists | `use_list_filters.ts`, eleven pages, their controllers and queries | in the tab: filters, header, rows, address, visit in flight; a form for a delivery, a dialog with a payment code | filter, clear, sort, turn pages, buttons next to rows | one visit at a time, given up by the next; refs that outlive what they describe; three places that must agree |
| Profile | `profile/show.vue`, `profile_controller.ts`, `reauth_stepup_service.ts`, `oidc_controller.ts` | in the tab: form, timer, pending action; in the session: step-up, grants, draft, intent | autosave, sensitive changes, step-up, link | a timer, a round trip the page does not survive, a draft replayed after it, impersonation in another tab |
| Sessions and guards | `middleware/*` | session, throttle counters in memory | one check per request | |
| Music, QR code, Electron shell, other pages | | files, none, a window, none | | |

### How they interact

Everything meets in the database. The shop and the kiosk call the order service;
storno writes the same `deliveries` rows; generation reads the `orders` they
insert and sets `invoice_id`, which storno checks; payments and the reminder job
write the same `invoices` rows from copies they hold. Nothing but PostgreSQL
synchronises them. The default isolation level READ COMMITTED is in force, so
only `FOR UPDATE` and the lock an UPDATE or DELETE takes make anybody wait. The
kiosk page keeps a basket of its own against a copy of the stock and talks to
the server by HTTP requests that it does not cancel.

### What makes each part correct

* Stock: never below zero; supplied = left + sold; a basket is all or nothing
  and takes the oldest units first; it is refused only for a reason; no request
  hangs.
* Invoices: an order is on at most one invoice, of its own buyer and supplier,
  which has counted it; a billed order is not cancelled; the total is the sum of
  the orders.
* Payments: only the supplier settles; what the supplier has decided is not undone
  by a stale copy; reminders are counted and do go out.
* Kiosk: what the page lets a customer put together is what the server accepts;
  one checkout at a time; nobody pays twice after being told that it worked; the
  thank-you belongs to whoever bought.
* Audit log: an order that is committed has its row, or the row could not be
  written; waiting for it hangs nobody.
* Users: an active admin remains; a disabled user owes nothing; keypad numbers
  are given out without gaps. An invitation used, replaced or revoked brings in
  nobody but a sign-in it let in before. A person of the provider always reaches the same account.
* Contact data: verified means that somebody followed the link; only what is
  pending is confirmed; what is pending has a link that confirms it; a reset link works once.
* Migration: debts survive, nothing is left open for people who are gone, and a
  second run gives what the first gave.
* Lists: the table shows what the filters and the header say; a button that is offered is not refused
  unless the row has changed; a payment code belongs to its invoice; what was filled in once is delivered once.
* Profile: what is shown at rest is stored; after a step-up runs what was asked for, and nothing else;
  nothing sensitive without a step-up.
* Catalogue: nothing on sale carries a label that was retired; a product declares
  what the server took from its form. Recommendations: never something sold out or
  excluded, and nothing only when there is nothing.

`PROJECT.json` lists the hazards at their lines, with the properties that cover
them, or why none does.


## 2. The modules

    Shelf                  what the stock promises, without transactions
    OrderBook              the order rows as those who sell, cancel and invoice share them
    FridgeStock            purchase, purchaseBasket, stornoOrder, addStock, statement by statement
      FridgePool              the same on a pool of connections, with the audit log
        FridgeProofs            locks, no oversell, FIFO, deadlocks, Shelf and OrderBook, conservation, the pool
    Ledger                 what invoicing promises, without transactions
    Invoicing              the three generations, against storno and new orders
      InvoicingProofs
    Payments               payment requests and decisions, and the reminder job
      PaymentsProofs
    Kiosk                  the self-checkout page and its requests
      KioskProofs
    Accounts               users, keypad numbers, invitations, external sign-in
      Migration               the script that fills the tables Accounts starts on
        AccountsProofs
    Contact                e-mail address, IBAN, password and their mailed links
      ContactProofs
    Catalogue              products, categories, allergens, exclusions
      Recommendations         the nightly job and the pages that show its rows
        CatalogueProofs
    Lists                  the eleven paginated lists in a browser tab
      Pages                   a tab, which opens one of the lists or the profile
        PagesProofs
    Profile                the profile page, its controller and the session (an instance in Pages)
    MC*                    instances for TLC

An indented module EXTENDS the one above it. A composition (`FridgePool`, `Migration`,
`Recommendations`) takes the actions of the module it extends as they are and
adds to their guards and variables.

`FridgeStock` and `Invoicing` overlap on purpose: each contains what it needs of
the other. To the stock, invoicing is one atomic action that sets `invoice_id`
of some orders that are there; to invoicing, a purchase is the insertion of an
order and a storno is lock, check, delete. That the two fit is a theorem of each: both
implement `OrderBook`, in which orders appear at once under ids not in use, a generation
marks its orders at once, and one that is marked is never cancelled. `Kiosk` uses the result of `FridgeStock`, that a basket is
sold at once or not at all, as one action of the server.

### FridgeStock: state and steps

`Client` is a request in flight. `stock`, `orders` and `invoiced` are committed
rows; `held` are the delivery rows a transaction has locked, `seen` the amounts
it read (and later will write), `made` its uncommitted orders, `todo` the rows
its current loop or query has still to visit. One action is one statement:

| action | code |
|---|---|
| `AddStock` | `DeliveryService.addStock` |
| `PurchaseBegin`, `PurchaseLock`, `PurchaseOutOfStock`, `PurchaseWrite`, `Commit` | `OrderService.purchase`: `SELECT ... amount_left > 0 FOR UPDATE`, save, insert, commit |
| `BasketBegin`, `BasketLockRow`, `BasketOutOfStock`, `BasketStockOk` | `purchaseBasket`: `SELECT ... WHERE id IN (...) FOR UPDATE`, rows in no particular order, and the stock check |
| `BasketFifoLock`, `BasketFifoOk`, `BasketRefused` | the FIFO query (ordered, also FOR UPDATE), the expected split of each product, `FIFO_VIOLATION` |
| `BasketWrite`, `Commit` | the loop that decrements and inserts one order per unit |
| `StornoBegin` ... `StornoCommit` | `stornoOrder`: lock the order row, read its delivery without a lock, check `invoice_id`, write the amount it has read plus one, delete |
| `InvoiceOrders` | `Invoicing`, seen from here |
| `Abort`, `DeadlockVictim` | an error or a lost connection rolls back; PostgreSQL breaks a cycle of waits |

The rows of the FIFO query are fixed when its snapshot is taken (`fifo`) and
locked one after the other, which is when their amounts are read again: a row
may change in between, as READ COMMITTED allows.

### Invoicing

A transaction reads the orders without an invoice (`read`), creates an invoice
per buyer and supplier from that read (`CreateInvoice`), visits the orders of
the group one by one in its UPDATE (`LinkOrder`: waits for the row's lock, then
sets the link), goes on with the next group and commits. The two entry points of the
supplier select by id; `generateInvoicesForUser` says `whereNull('invoiceId')`
when it reads. Amounts are abstracted to the set of orders that were summed
(`counted`): the total is right when that set is the set of orders linked.

### Payments

Each operation is `Load` (findOrFail and the checks) and, later, `Save`: Lucid
writes the columns in which the copy has changed since it was loaded
(`Written`). The job loads all its rows at once (`StartReminders`), then skips,
mails and counts them one by one. The query has no ORDER BY, so any order is
possible. A mail that throws ends the job (`MailFails`); a restart
cuts it off between mail and count (`CutOff`).

### Kiosk

The page's refs are variables of the same meaning: `customer`, `basket`,
`loading` (checkoutLoading), `thanks` (showThankYou), `dialog` (the confirmation
that is open), `shown` (amountLeft in allProducts). The requests in flight are
`lookups`, `reloads` and `answers` (products asked for, and on their way back), `checkouts`. A
checkout is judged by the server (`Sell`, `Refuse`, `Fail`) and answered
(`AnswerOk`, `AnswerNotOk`), or its answer is lost (`AnswerLost`), in which case
the server may still go on with it. `resetToIdle` clears what the code clears
and no more: neither `checkoutLoading` nor the requests. `session`, `steady`,
`told` and `moves` are history for the properties. The barcode
scanner adds to the basket also while a dialog is open, as in the code, so what
is sent is the basket at the moment the dialog is accepted.

Three behaviours of the page are in the model and judged by no property, because
nothing says what is meant: a late identification replaces the customer of the
session that has begun meanwhile, basket included; a scan during the
confirmation changes what is bought; after a refusal the products are not asked
for again, so the same basket is refused again.

### FridgePool

`db.transaction` takes a connection (`conn`) and keeps it. `AuditService.log`
inserts its row on another one (`logging`), and although its comment and the one
at the call (`order_service.ts:54`, "fire-and-forget, outside transaction") say
otherwise, the call is awaited before the COMMIT. So `Statement` takes a step of
`FridgeStock` only when every order inserted so far is logged (`Logged`). Whoever finds the pool
empty times out (`ConnectTimeout`, `LogTimeout`); the log's error is caught and the
purchase goes on without the row (`dropped`).

### Accounts

`users`, `invites` and `links` are the tables, `req` the requests, each with what
it has read so far. Every statement is an action, except where nothing that
comes between two of them can matter. `acceptInvite` alone is a transaction; its row lock is
`Locked`. `updateUser` is load, the query for another admin, the two debt
queries in either order (`Promise.all`) and a save of the dirty columns. Purchases
and invoices are seen only as the sets of users who have uninvoiced orders and
unpaid invoices. The numbers a new account may get are `LowestFree`, of a series that grows to one past
the largest number that is not the placeholder's. `SignInKnown` and `SignInNew` are the OIDC
call-back with the intents its session may hold (an invitation, a bootstrap, a link); provider registration is switched on.

### Migration

Runs before `Accounts`: `stage` is where the script is, `at` the document it copies
next. A reference that leads nowhere becomes the placeholder's (`UserOf`), whose
orders are settled at the end. `StopRun` ends the process anywhere; `StartRun`
truncates and starts over. `GoLive` hands the tables to `Accounts`.

### Contact

One table of tokens with kinds instead of three. A profile update works on a copy
of the row; `mine` is the copy with its changes, and `SaveRow` writes the columns that differ
from what was read. A confirmation loads the token, then its owner, looks for a
conflict, saves the owner, and only then spends the token: four statements.

### Catalogue and Recommendations

`Received` is what the validator makes of the allergens of a form: the create page posts form fields, in which every id is a string and
none is kept; the edit page sends a JSON list. `SubmitCreate` takes either, since a functional test and any other caller of the route send JSON.
Categories and allergens are both labels that are checked for use and then retired
in another statement. A form (`OpenCreateForm`, `OpenEditForm`) holds the labels it was rendered with
and may be submitted any time later. `sync` of the ORM is a transaction that reads, then
writes a difference (`SyncRead`, `SyncWrite`). The nightly job reads everybody's
exclusions once and then computes, deletes and inserts user by user, while pages
are made (`ReadExcluded`, `ReadRows`, `ComputeLive`). Scores and ranks are left
out; a recommendation is a product bought once, in stock, without an excluded allergen.

### Lists

`Form` (what a page sends, its default order, what a header calls), `Table` (its sortable columns and the buttons next
to a row), `Index` (what the controller hands on) and `Query` (what the query knows) are translated page by page, so
that a filter forgotten in one of them shows as a wrong table. A row is an id and a mark, the set of what is true of it that
buttons and handlers look at (of a user: admin, kiosk, disabled, owing, billed). `UserControl` says what the table of users offers for a mark, `Refuses`
what the handlers refuse, `Outcome` what they do otherwise; the two sides are translated separately. A filter has one value,
set or not, which a row carries or not. `visit` is the one visit Inertia has in flight: a new one gives it up, and what it would have told
is not heard (`Deaf`); a POST given up is handled all the same. `applied` is `lastAppliedFilterParams`, set when a visit
is sent and not when it is answered. `Address.carried` marks a page number that was counted in a list with other filters.

### Profile

The refs of the page are `tab`, the session of the server `session`. `Sent` is a visit; `updatePreferences`, `update`, `changeAuthenticated`,
`startOidcLink`, `checkPassword` and `storeColorMode` handle its request. `ensureSensitiveStepup` is `Ensured`: a recent step-up, else
the one-time grant, else the password that the page remembers from the dialog. `startOidcReauth` awaits the storing of the draft and leaves
for the provider (`tab.leaving`, until `storePendingDraft`); meanwhile the page is alive, and Cancel, a click on another page or another question stops
neither; `ReauthCallback` opens a new page, which runs the draft's action at once (`onMounted`). `hist.credit` counts the
proofs that are not spent; `hist.asked` is what the user asked for last. What an update does to pending addresses is
in `Contact`; here it changes the address or leaves it.


## 3. What the runs check

All runs use two workers and end within about three minutes. Deadlock is not
checked in any of them: every model has bounds on what is begun, and when they are used up a
system without open requests has nothing left to do.

| run | instance | result |
|---|---|---|
| `stock_safety` | 2 requests at a time, 3 begun, 3 lots of 2 products, 2 units each | `NoOversell`, `OnlyBasketsDeadlock`, `BasketFifo`, `RefusedForAReason` hold, and every step is one of `Shelf` unless a storno was crossed (`StepsOnShelf`); 2.2 million states |
| `stock_storno_race` | all behaviours | **violated**: `Conservation` |
| `stock_pool` | 2 requests, 2 connections, fair | `OrdersAudited`, `HangsOnlyWhenSpent`, and `RequestEnds` for every request; 146 000 states |
| `invoice_safety` | 2 transactions, 4 orders, 2 buyers, 2 suppliers, 3 invoices | `LinkedIsCounted` holds whatever races, and every step is one of `Ledger` unless an order that a generation had read was billed or cancelled before it ended (`StepsOnLedger`); 275 000 states |
| `invoice_double` | all behaviours | **violated**: `BilledOnce` |
| `payment_safety` | requests of a buyer and a supplier, 2 invoices, the job, one mailbox that may refuse, fair | `DecisionHolds`, `PaidIsFrozen`, `RemindersCounted`, `OverdueReminded` |
| `kiosk_safety` | 2 sessions, 2 lots, 2 units each, one change of the shelf elsewhere, one reload in flight, one abandoned checkout | `OneAwaited`, `SteadyBasketSells`, `PaysOnceWhenTold`; 2.3 million states |
| `kiosk_thanks` | the same with two customers | **violated**: `ThankedForPurchase` |
| `accounts` | two former databases, up to 2 runs of the script; then 3 requests begun on 4 user rows, 4 addresses, 2 identities, 2 invitations, one request cut off | `DebtsMigrate`, `RunAgainIsTheSame`, `NumbersFillUp`, `DisabledOwesNothing`, `InvitesStayClosed`, `PersonKeepsAccount`, `LastAdminLostLive`; 505 000 states |
| `contact` | 2 users, 4 addresses, 2 IBANs, 3 tokens, 2 requests at a time, one cut off | `VerifiedIsProven`, `PendingCanBeConfirmed`, `ConfirmsWhatIsPending`, `ResetsOnce`; 2.5 million states |
| `catalogue` | 3 products (2 to be created), 2 categories, 2 allergens, 1 customer, 2 requests or forms, one refresh | `KeypadNumbersRun`, `RetiredIsUnused`, `CarriesWhatWasDeclared`, `ShownIsSafe`, `NothingOnlyWhenNothing`; 1.4 million states |
| `pages` | any of the lists with 2 rows, 1 on a page, 4 moves of the user (3 on the page of users), 1 change elsewhere; or the profile with 6 moves, 2 requests not handled, 1 failure, expiry or other tab | `ShownAsAsked`, `RefusedOnlyWhenStale`, `QrIsTheirs`, `DeliversOnce`; `PrefsSaved`, `RunsWhatIsAsked`, `ProvenFirst`; 7.8 million states |

Each property of a passing run is paired with a mutant of the code's translation
that violates it (`PROJECT.json`, "mutants"; the mutated operators stand next to
the originals and are marked `Mutant`).

### The three violations

1. *A storno overwrites a sale.* `stornoOrder` locks the order but reads its
   delivery with `preload('delivery')`, without a lock, and writes that amount
   plus one. A purchase that commits in between is lost from the count: a unit
   that was sold is on the shelf again. The count is too high, never negative.
2. *An order is billed twice.* Two generations that overlap both read an order
   as not invoiced, both count it, and the later UPDATE moves the order to its
   own invoice. The earlier invoice keeps a total with nothing behind it. The
   same happens to the total when an order is cancelled after the read.
3. *Thanks for somebody else's purchase.* A checkout that is answered after the
   page was reset opens the thank-you modal for the next customer, and closing
   it throws that customer back to the keypad.

### Properties with a proviso

Some handlers check in one statement and write in another, and the plain property
does not hold of them. The property that is checked then says exactly what may go
wrong, so that anything beyond it would be found:

* `StepsOnLedger`: a generation one of whose orders was billed or cancelled after it had
  read them is no step of the ledger (violation 2); everything else is. So a total that was right
  goes wrong only there (`TotalsStayRight`, which is proved and not run).
* `OverdueReminded`: an overdue invoice of an active buyer is reminded again and again, as soon
  as no mailbox that refuses stands before it. `mail.send` is awaited in the loop
  without a try: one address that always refuses ends the job at that invoice each day.
* `PaidIsFrozen`: a paid invoice gets a payment request (which later would be turned away with
  ALREADY_PAID) only when the buyer's check came before the approval.
* `LastAdminLostLive`: `docs/auth-production-roadmap.md:11` names a last-admin guardrail. It can be
  passed by two updates at once that each take the other's admin for the one that remains; the
  property says that nothing but such a crossing loses the last active admin.
* `DisabledOwesNothing`: a debt of a disabled user comes from a purchase, or an
  invoice generated between the two debt queries, that crossed the disabling.
* `InvitesStayClosed`: a sign-in looks at its invitation (`oidc_controller.ts:190`, `:417`) and inserts the account (`:440`) in separate statements; when the
  invitation is used, replaced or revoked in between, the account comes in all the same. Nobody else comes in on a closed
  invitation, and it is never open again. One that was used stays open only when the sign-in
  that used it was cut off before it could say so.
* `VerifiedIsProven`: rows of the start count as proven, and the first admin's address, which `bootstrap_controller.ts:60` marks as verified without a link.
* `PendingCanBeConfirmed`: the latest link ran out unused; the user has to ask for another. (An expired link confirms nothing.)
* `ConfirmsWhatIsPending`, `PendingCanBeConfirmed`: other requests of the same
  account that cross a confirmation; a request cut off; a link followed in vain (an address taken
  meanwhile leaves the pending address without a token); an update turned away at its save, whose new address somebody else
  holds: it has closed the old tokens before and leaves what was pending without one. (The proof found that last case.)
* `RetiredIsUnused`, `CarriesWhatWasDeclared`: a label that met a product between check and write, or was still
  offered by a form; "declared" is what the server kept of a request, which of the create page is no allergen at all (see section 5); two edits at once, or one that failed half way (`createProduct` attaches allergens in a statement of its own).
* `StepsOnShelf`: the commit of a storno that writes an amount read before somebody else's commit is no step of
  the shelf (violation 1). Every other step is, of that storno and of others, also while it waits for its commit.
* `ShownAsAsked`: the stock page, until something is asked of it, shows an upward arrow (`supplier/stock/index.vue:95`) over rows sorted
  downwards (`delivery_service.ts:57`), and the order of that first view is excepted (`StockAtFirst`). On every page: not after a visit failed or was given up by a POST, and not after a button whose answer leads to the plain list while the form
  keeps its filters. A page beyond the last is reached with a page number of a list with other filters: by a second Apply
  before the first answer, or by the paginator with filters chosen and not applied.
* `RefusedOnlyWhenStale`: two controls are offered for a row that the server refuses as it is. The switch and the role select for the last active admin
  (`users/index.vue:460`, `:424`) are refused with LAST_ACTIVE_ADMIN_REQUIRED, and the button for a password reset (`:484`) is there for disabled users, for whom
  `createToken` makes none. Everything else that is offered is refused only for a row that has changed.
* `QrIsTheirs`: `showQr` does not cancel the request of the dialog it replaces, so the code of the other invoice may appear for as long
  as that one is on its way.
* `DeliversOnce`: Enter sends the delivery again while it is on its way; the first visit is given up and the server handles both.
* `PrefsSaved`: two requests with different preferences cross, a save fails, the switch in the header was used (the form
  is not told and its next autosave writes the old colour back), or a page was opened while the former one's timer still ran.
* `RunsWhatIsAsked`: when the draft cannot be stored the page goes to the provider all the same, and on return runs whatever older
  draft the session holds. And when the action is given up after the way to the provider has begun (Cancel, another page or another question while
  `startOidcReauth` awaits the storing of the draft), the page goes there and on return runs what was given up.
* `ProvenFirst`: the proof is a password, a grant or a step-up that lasts; a password the page remembers counts as a proof each time.
* `HangsOnlyWhenSpent`: everybody waits only in a deadlock on rows or when the purchases in flight hold every connection
  and one wants another for its audit row; both end (`RequestEnds`), the latter at the price of the row.

### Why the bounds are enough

* Two transactions at a time show every race between two of them, and
  deadlocks need two. Three begun requests let a third come after a race. Two
  lots of one product are what FIFO is about, a third of another product makes a
  basket mix products, with an id in between. Two units distinguish one less
  from none left. Three at a time is covered by the proofs, not by TLC.
* Four orders are the smallest set with two orders in a group, another buyer
  and another supplier; three invoices allow two generations with one group more.
* Two requests of the same buyer and one of the supplier, with an invoice of the supplier to
  themselves (born paid), give all pairs of operations on one row. One cut-off
  separates mails from counts.
* Two connections are the smallest pool in which a purchase can get a second one, and two
  purchases can take it from each other.
* Three requests on the accounts let a registration, an invitation and a sign-in, or two updates and a purchase, overlap.
  Four begun (with two at a time) gave 6.3 million states and nothing new. The two former
  databases have between them two users of one address and number, the placeholder's number taken, a disabled
  customer, a buyer, a supplier and a delivery that are gone, an empty collection, and debts that must survive.
* Three tokens allow a token, the one that replaces it, and one of another kind; two requests at a time are any two
  statements of two handlers. One cut-off leaves every prefix of a handler.
* Two products to be created race for one keypad number; a label more than the product carries can be added and retired.
* Two rows on pages of one are the smallest list with a page to turn; four moves are a filter, two clicks and a button, which
  cover every pair of visits. The page of users, with an admin and a row of one of six kinds
  under nine controls, is explored with three. Of the rows one carries the filters' value and one does not.
* On the profile six moves are ask, step-up, give up, ask for something else, step-up again and one more. Two requests
  not handled are what crosses; a third only repeats it. A session may begin with the draft of a step-up that was given up, so that these moves
  are not spent on making one.
* At the kiosk everything that can go wrong between customers needs a session
  and the next one. Whether the next one is the same person makes no difference to
  the page, so `kiosk_safety` has one customer, and the proofs any number.

### Fairness

* `stock_pool`: strong fairness of each request's next statement. A waiter is
  enabled again and again as the lock is released, and PostgreSQL grants row
  locks to waiters in a queue; a statement that need not wait is executed.
  Weak fairness of `DeadlockVictim`: the detector runs whenever a wait has
  lasted `deadlock_timeout`. Weak fairness of `Acquire` and `Log`: a wait for a connection ends with one or
  with `acquireConnectionTimeout`. Nothing is assumed of new requests or errors.
* `payment_safety`: weak fairness of the job: cron starts it again and again, and a
  job under way goes on. Nothing is assumed of requests, of cut-offs (bounded by `MaxCuts`)
  or of the order of the rows.


## 4. What is proved

For every value of the constants that satisfies the modules' assumptions (finite
set of lots with natural numbers in FIFO order, and so on; no bound is needed to
be small). All proofs are of `Spec => []Inv` or `Spec => [][A]_vars` by an inductive
invariant, one lemma per group of actions.

**FridgeProofs, transactions.** `TypeCorrect`; `NeverOversold`; `LockedReadsHold`;
`InvoicedOrdersKept`. `NoOversell` is not inductive: one has to know that
whoever is about to write has locked the row, that no two hold the same row,
and that what was read under the lock is what is there (`IInv`). The last is the
delicate part, since a storno writes without having read under the lock: it takes
the lock for its write, so it cannot come between the read and the write of a purchase.
`DeadlocksAreBaskets`: who waits for a row while holding one is a basket, and in a
ring everybody does both; a ring of one would wait for itself.

**FridgeProofs, FIFO.** `BasketsAreFifo` and `OldestFirstIsAccepted` are about a loop over data, `ExpectedSplit`,
written as a fold that takes the youngest lot out last. The induction theorems of the library
are out of reach (they take an operator), so `SubsetInduction` says the same with a set of good subsets, from the
least size at which one is not good; `FoldExists` gives the function behind `MapThenFoldSet`, and `SumTakesOut` and
`SumOfPart` what a sum is. Then: the loop comes to a lot only after it has taken the older ones whole
(`LoopTakesOldest`), and where a basket leaves nothing of them it takes just what was asked (`OldestPasses`).
`FInv` carries that from the check to the commit: older lots are locked and hold exactly what is asked of them.

**FridgeProofs, shelf and book.** `StepsImplemented`: whatever interleaves, each step is one of `Shelf` or a
stutter, but for the commit of a storno that read an old count. The refinement maps `left` to
`stock` and `sold` to the number of orders of a lot. The invariant (`CInv`) says how many rows of a lot a transaction has
made, that ids are unique across committed and uncommitted orders, and that one storno at a time holds an order and knows
its lot; a commit then adds as many orders as it takes units off (`CommitAdds`), and a storno takes out just one
(`StornoTakes`). In the behaviours (`QuietSpec`) in which no delivery changes between a storno's read and its write,
every storno commits a current count (`CurrentNext`: it holds the row from its write on), so that the
transactions implement the shelf (`ShelfImplemented`), and the shelf keeps count of its units (`StockConserved`).
`BookKept` follows from `CInv` and `InvoiceInv` in all behaviours.

**FridgeProofs, pool.** `PoolImplementsStock` is a refinement: a step on the pool is a step
of `FridgeStock` or changes nothing it knows, so everything proved above holds for any
number of connections and any loss of audit rows. `AuditComplete` needs that ids are
given out once (the sequence never goes back, also after a rollback) and that a commit comes after the
last `Logged`; `OnlySpentPoolsHang` counts connections.

**InvoicingProofs.** `OrdersOnTheirInvoice` and `InvoicedOrdersKept` for all
behaviours, races included: what a transaction links it has counted, and it links
and cancels only under the row's lock. `StepsImplemented`: each step is one of `Ledger` or a stutter, but for the
end of a generation whose reads did not stay. To that the invariant `RInv` adds that the invoices of a transaction are for different
pairs of buyer and supplier with one side in common, that each of its orders is counted by just one of them and
linked to it, still to be visited or gone (`Linking`), and that a storno holds one order that stands. `RightTotalsStay` comes from the same
invariant, and so does `BookKept`. Where nobody bills or cancels an order between the read of a generation and its end (`QuietSpec`) the
transactions implement the ledger (`LedgerImplemented`), and totals are exact (`TotalsExact`).

**PaymentsProofs.** `PaidBySupplier`, `DecisionsHold`, `PaidFrozen` and
`RemindersAreCounted`. They rest on what a save writes (`WrittenColumns`): a column that
the copy did not change is left as it is. The invariant says what a copy may
have seen: reminder counts in the job's copies are those of the rows, since nobody
else writes that column.

**KioskProofs.** `AtMostOneAwaited`, `PaysOnce`, and `SteadySells`, the one that needs
thought: customers add and take out units in any order, and the basket
still passes the server's check. The invariant (`Filled`) is that the
lines of a product stand in the order of their lots and that a lot is on the
basket only when all older lots of its product are used up. Adding from the
oldest open lot and removing from the last line keep it (`AddedFilled`,
`RemovedBasket`), and it implies what the server asks (`FilledAccepted`). It holds
for sessions in which the page always showed what was left.

**ContactProofs.** `ContactTyped`, `VerifiedMeansProven`, `ResetLinksWorkOnce`. A token never changes
its kind, owner or value once it is made (`TokensKept`), so a confirmation may go on with what it loaded.
`PInv` says of each request what its copy would write: a copy that says "verified"
holds an address that was proven, and that stays true since `proven` only
grows. `SInv`: a reset in flight holds the lock of an open token, alone.
`ConfirmsOnlyPending` needs that an uncrossed request still has the row in its copy (`Fresh`) and what it may have changed in it (`Changes`).
`PendingStaysConfirmable` is the longest: `HInv` says, for every account that no two requests met on and no request was
cut off on, which pending values have a usable link (`Good`) or are owed one by the statement the request is at (`Owed`).

**AccountsProofs, accounts.** `AccountsTyped`, with what each program counter means for the fields a request has
filled. `NoDisabledDebtors`: what a debt query found stays so unless a purchase or an invoice
marks the account as crossed (`DInv`). `IdentitiesStay`: links are injective and never
taken back, and a request about to sign in goes where its link leads (`LInv`). `ClosedInvites` is the long one: nothing
reopens an invitation (`Onward`), at most one request holds its row lock, and every way to
insert an account either closes its invitation later or is recorded as cut off (`IInv`, one lemma per handler).
`KeypadHasNoGaps`: below the number a request carries to its insert all numbers are in use (`NInv`), and they stay in use; that
the lowest free one has none free below it is `BelowFree`. `AdminsGoInCrossings`: an update that is past its
query has seen another admin (`AInv`), who is gone by the time of the save only when another update crossed.

**AccountsProofs, migration.** The script is followed document by document. `ScriptOK` has one part per table: how far it is
filled, and for the documents copied so far what a row holds of its document, wherever a reference leads somewhere; truncation and
a second run start it anew. `Untouched` says that no request comes before `GoLive`. `DebtsComeAlong` follows at
`stage = "done"`. Together with `NInv`, `IInv`, `LInv` and `AInv`, which hold of the tables the script leaves, this is the
invariant `Sound` of the composition; so `MigratedKeypadHasNoGaps`, `MigratedAccountsStay` and `LiveAdminsGoInCrossings` hold on
migrated tables.

`NoMigratedDebtors` is about disabled accounts that owe nothing. The script copies disabled people with their debts, so it
holds of databases in which none of them owes somebody who is still there (`DebtorsEnabled`, a hypothesis; the code does not
look). `OwingInv` follows the debts through the script by the rows they come from, and hands over to `DInv`.

`AgainIsTheSame` compares two runs. A run is a walk: from the documents of the database and what has been copied so far the
next tables are determined (`StepFrom`), but for the addresses the script makes up, which are hidden. Walks from the same start that
end, end alike; `WalkInv` says that the run under way is such a walk from empty tables, wherever the one before it was cut off, and that what
the first complete run left is the end of one. The settlement goes through pairs of a buyer and a supplier; `Rank` tells any two of them
apart, since who bought or delivered has an id that the sequence handed out once, so nothing is left to choose.

**CatalogueProofs.** `CatalogueInv` is `Typed`, `Numbered` (a number read was the largest, or has been taken since), `Retired` (a label on its way out meets products only through forms
and checks that are recorded), `Known` (labels named anywhere were inserted) and `Kept` (of an owner nobody blurred, at most one request writes, and what it
has still to write is the difference to what it declared). From them `KeypadRuns`, `LabelsAreRetiredUnused`,
`LabelsAreAsDeclared` and, since nothing is deleted that is referred to, `CatalogueRefersToRows`. `ShownStaysSafe` and `SomethingIsShown` need `Safe`: what a page goes by is at least
what its user excluded all the time it was made, and what could be recommended all the time can be recommended now.

**PagesProofs, profile.** `ProfileInv` is `ProfileTyped`, `Credited` (a grant or a recent step-up has a proof behind it: `SensitiveIsProvenFirst`), `Latest` (the action that waits, in the page, in the
draft or in the intent of a round trip, is the one asked for last: `StepUpRunsWhatIsAsked`) and `Written` (what the form shows is stored,
or a timer or a request that will store it is under way: `PreferencesAreSaved`).

**PagesProofs, lists.** `ListInv` is `ListTyped`, `Coded` (a payment code in the dialog or on its way belongs to an invoice asked for: `CodeIsOfItsInvoice`), `Fitting` (what a table offers for
a row fits the row it showed: `ButtonsFitTheirRows`), `Single` (a delivery filled in is in at most one request: `DeliveredOnce`), `Told` and
`Matches` (form, address, visit and rows agree but for visits that failed or were given up) and `Paged` (a page is one of
the list with these filters). The last three give `ListsShowWhatIsAsked`, for any number of rows and any page length: what a page holds
comes from facts about `SubSeq` and `SetToSortSeq` and is not computed.

### Assumptions

Each is an ASSUME of its module and true of the instances TLC runs. Most are types and bounds. The others: ids are finite sets (`Lot`,
`User`, `Product`, `Row`), `None` is no value of its column, the codes of the model differ from each other; the unique columns are unique at the start
(`StartKey`; `Ids`, the ids that the database gives to migrated people). The former database has fewer people than the number reserved for the placeholder (`Placeholder`,
89999 in the code): else the script would give out that number twice, and the fallback numbers would reach it. No account has a pending address at the start
(`ContactAssumption`): a row left by the program has a link for what is pending, and it gets there by an update.

Two kinds of theorem have a hypothesis besides. Those of `QuietSpec` are about the behaviours in which what a transaction has read
stays as it was until it ends; the runs show what happens in the others. `NoMigratedDebtors` assumes `DebtorsEnabled` of the former databases, which
is true of the two of the run.

### What is model-checked only

* `RequestEnds`, `OverdueReminded`: liveness; fairness and ENABLED are out of the prover's reach.
* The three violations, which are counterexamples, and the number of connections, orders and moves after which nothing new happens.

Where a type invariant is proved no run repeats it.

## 5. What is not modelled

Left out for good: reads other than the eleven lists, notifications other than reminders, music
files, how a QR code is drawn, the Electron shell, presentation. They
change no shared state or are decided by other systems. Prices are constants of
a delivery at the time of the order and are carried along, so counting orders stands for
adding prices.

* *Pages.* The shop, the dashboards, the forms for labels and the insights of the stock page show what they are given. On the
  profile, API tokens are created and deleted one by one, favourites likewise.
* *Sessions.* A handler of the profile is one step: AdonisJS reads the session when a request begins and writes it at the end, and requests
  that overlap in between may lose each other's writes; `Profile` lets them come in any order but not overlap. A provider's
  button pressed again while a draft is being stored is not modelled, nor the autosave that restoring a draft may start. During an impersonation requests are about another row, which is not followed.
* *Sessions and guards.* Each middleware is one check of one request on rows that the models have;
  the throttle's buckets and the admin behind an impersonation live in one process and nothing else reads them.
* *Sign-in by password* is one comparison; the phone number copied from the provider is data. Nothing in the code removes a link to a provider.
* *Favourites*, images, barcodes and names of products: rows without a rule between them.
* *Reports and the pending-approval reminder*: read and mail.
* *Migration of categories, products and favourites*: copied like deliveries, with placeholders; `verify()` compares counts and writes
  nothing. (It reports a mismatch of invoices whenever the settlement has created any.)

Observed while modelling, and judged by no property: the page that creates a product posts form
fields (`forceFormData`, `supplier/products/create.vue:100`, because of the image), so the ids of its allergens arrive as strings, and
`parseAllergenIds` (`validators/product.ts:9`) keeps only numbers: the product is stored without any allergen and shown to customers who exclude them
(`lang/en/profile.json:29`: "Products containing selected allergens will be hidden in the shop."), until somebody edits it in the other page, which sends JSON.
The model does the same (`Received`). Further, a purchase that rolls back after it has logged leaves an audit row for an order there is not
(`OrdersAudited` asks for the rows of the orders there are); the API's product page
(`api/products_controller.ts:51`) dereferences the category of a product, which a deletion that crossed an
edit leaves null; a migrated placeholder product with keypad number 89999 makes the next product 90000,
since `createProduct` takes the largest number plus one and knows no placeholder.

## 6. What could follow

1. The guards as a module: sessions of disabled users, throttle buckets at their limits.
2. Accounts that are shown to implement an abstract register of people, addresses and invitations.
