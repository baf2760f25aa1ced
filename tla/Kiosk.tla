------------------------------- MODULE Kiosk -------------------------------
(***************************************************************************)
(* The self-checkout page of the kiosk (inertia/pages/kiosk/index.vue) and *)
(* the requests it has in flight.  A customer types a number, fills a      *)
(* basket from the lots the page knows of, confirms and is thanked; then   *)
(* the page goes back to the keypad for the next customer, as it does when *)
(* the customer cancels or walks away.                                     *)
(*                                                                         *)
(* Requests are answered late, in any order, or not at all, and the page   *)
(* goes on meanwhile.  The server sells a basket at once (FridgeStock      *)
(* shows that the transaction does), and the shelf also changes behind the *)
(* page's back.                                                            *)
(***************************************************************************)
EXTENDS Integers, Sequences, FiniteSets, FiniteSetsExt, SequencesExt

CONSTANTS
  Customer,    \* people with a keypad number
  Nobody,      \* customer.value === null: the page is idle
  Lot,         \* ids of deliveries, in FIFO order
  ProductOf,   \* the product of each delivery
  MaxStock,    \* bound: units of a delivery
  MaxSessions, \* bound: customers served
  MaxReloads,  \* bound: product reloads under way
  MaxMoves,    \* bound: changes of the shelf elsewhere
  MaxGivenUp   \* bound: checkouts at the server that the page gave up

ASSUME KioskAssumption ==
  /\ Nobody \notin Customer
  /\ Lot \subseteq Nat /\ IsFiniteSet(Lot)
  /\ ProductOf \in [Lot -> Nat]
  /\ MaxStock \in Nat /\ MaxSessions \in Nat
  /\ MaxReloads \in Nat /\ MaxMoves \in Nat /\ MaxGivenUp \in Nat

VARIABLES
  left,      \* the server: deliveries.amount_left
  sold,      \* the server: sessions in which it sold a basket
  customer,  \* the page: who is identified
  basket,    \* the page: lines in the order they were added
  shown,     \* the page: amountLeft of the lots in allProducts
  dialog,    \* the page: the confirmation that is open
  loading,   \* the page: checkoutLoading
  thanks,    \* the page: showThankYou
  lookups,   \* requests: customers being identified
  reloads,   \* requests: product reloads the server has not answered
  answers,   \* requests: products on their way back to the page
  checkouts, \* requests: baskets sent, with the server's verdict
  session,   \* history: sessions begun
  steady,    \* history: this session the page has always shown what was left
  told,      \* history: sessions whose checkout was answered with ok
  moves      \* history: changes of the shelf elsewhere

page == <<customer, basket, shown, dialog, loading, thanks>>
requests == <<lookups, reloads, answers, checkouts>>
history == <<session, steady, told, moves>>
vars == <<left, sold, customer, basket, shown, dialog, loading, thanks,
          lookups, reloads, answers, checkouts, session, steady, told, moves>>

Stock == [Lot -> 0 .. MaxStock]
Line == [lot : Lot, quantity : 1 .. MaxStock, maxStock : 1 .. MaxStock]
Units == [Lot -> Nat]
Verdict == {"sent", "ok", "refused", "failed"}
Checkout == [session : Nat, items : Units, verdict : Verdict,
             waiting : BOOLEAN,  \* the page still waits for the answer
             sure : BOOLEAN]     \* history: steady, and nothing changed since

Init ==
  /\ left \in Stock /\ shown = left
  /\ sold = {}
  /\ customer = Nobody /\ basket = <<>> /\ dialog = "none"
  /\ loading = FALSE /\ thanks = FALSE
  /\ lookups = {} /\ reloads = 0 /\ answers = {} /\ checkouts = {}
  /\ session = 0 /\ steady = TRUE /\ told = {} /\ moves = 0

-----------------------------------------------------------------------------
(* The basket. *)

\* The line of lot d, if the basket b has one.
LineOf(b, d) == {k \in DOMAIN b : b[k].lot = d}
\* Units of lot d in basket b.
UnitsOf(b, d) ==
  IF LineOf(b, d) = {} THEN 0 ELSE b[CHOOSE k \in LineOf(b, d) : TRUE].quantity

\* Lots of product p that show more units than the basket has of them; the
\* oldest is the next one to take from.
OpenLots(p) == {d \in Lot : ProductOf[d] = p /\ shown[d] > UnitsOf(basket, d)}

\* One more unit of lot d: on its line up to what was left when the line was
\* added, else on a new line.
Added(d) ==
  IF LineOf(basket, d) = {}
    THEN Append(basket, [lot |-> d, quantity |-> 1, maxStock |-> shown[d]])
    ELSE [k \in DOMAIN basket |->
            IF basket[k].lot = d /\ basket[k].quantity < basket[k].maxStock
              THEN [basket[k] EXCEPT !.quantity = @ + 1] ELSE basket[k]]

\* Mutant: the first line of the product.
FirstLine(S) == Min(S)
\* The line a unit is taken from: the last one of the product.
LastLine(S) == Max(S)

\* One unit less of product p.
Removed(p) ==
  LET k == LastLine({j \in DOMAIN basket : ProductOf[basket[j].lot] = p})
  IN  IF basket[k].quantity > 1 THEN [basket EXCEPT ![k].quantity = @ - 1]
      ELSE RemoveAt(basket, k)

Products == {ProductOf[d] : d \in Lot}

\* A tap in the catalogue, or the barcode scanner, which also works while a
\* dialog is open.
addToBasket(p) ==
  /\ customer # Nobody
  /\ OpenLots(p) # {}
  /\ basket' = Added(Min(OpenLots(p)))
  /\ UNCHANGED <<left, sold, customer, shown, dialog, loading, thanks, requests,
                 history>>

\* Nothing covers the buttons of the page.
Touchable == customer # Nobody /\ dialog = "none" /\ ~thanks

decrementProduct(p) ==
  /\ Touchable
  /\ \E k \in DOMAIN basket : ProductOf[basket[k].lot] = p
  /\ basket' = Removed(p)
  /\ UNCHANGED <<left, sold, customer, shown, dialog, loading, thanks, requests,
                 history>>

MayReload == reloads + Cardinality(answers) < MaxReloads

-----------------------------------------------------------------------------
(* Sessions. *)

\* The keypad's Enter key submits also while an earlier lookup is pending.
onKeypadSubmit(c) ==
  /\ customer = Nobody
  /\ lookups' = lookups \union {c}
  /\ UNCHANGED <<left, sold, page, reloads, answers, checkouts, history>>

\* The answer names a customer, whatever the page shows by then; the products
\* are asked for again.
Identified(c) ==
  /\ c \in lookups
  /\ MayReload
  /\ customer = Nobody => session < MaxSessions
  /\ customer' = c
  /\ lookups' = lookups \ {c}
  /\ reloads' = reloads + 1
  /\ session' = IF customer = Nobody THEN session + 1 ELSE session
  /\ steady' = IF customer = Nobody THEN shown = left ELSE steady
  /\ UNCHANGED <<left, sold, basket, shown, dialog, loading, thanks, answers, checkouts,
                 told, moves>>

\* No such customer, a special code, or no answer.
NotIdentified(c) ==
  /\ c \in lookups
  /\ lookups' = lookups \ {c}
  /\ UNCHANGED <<left, sold, page, reloads, answers, checkouts, history>>

\* Mutant: the reset also clears checkoutLoading.
ResetLoading ==
  /\ customer' = Nobody /\ basket' = <<>> /\ dialog' = "none" /\ thanks' = FALSE
  /\ loading' = FALSE
  /\ UNCHANGED <<left, sold, shown, requests, history>>
\* What is left behind: the requests in flight, and checkoutLoading.
resetToIdle ==
  /\ customer' = Nobody /\ basket' = <<>> /\ dialog' = "none" /\ thanks' = FALSE
  /\ UNCHANGED <<left, sold, shown, loading, requests, history>>

\* 90 seconds without a touch.
IdleTimeout == customer # Nobody /\ resetToIdle

\* The thank-you modal closes by itself, or is tapped away.
ThankYouClosed == customer # Nobody /\ thanks /\ resetToIdle

requestCancel ==
  /\ Touchable
  /\ \/ basket = <<>> /\ resetToIdle
     \/ /\ basket # <<>>
        /\ dialog' = "cancel"
        /\ UNCHANGED <<left, sold, customer, basket, shown, loading, thanks, requests,
                       history>>

AcceptCancel == dialog = "cancel" /\ resetToIdle

RejectDialog ==
  /\ dialog # "none"
  /\ dialog' = "none"
  /\ UNCHANGED <<left, sold, customer, basket, shown, loading, thanks, requests,
                 history>>

-----------------------------------------------------------------------------
(* Checkout. *)

\* The checkouts the page waits for.
Awaited == {q \in checkouts : q.waiting}

requestCheckout ==
  /\ Touchable /\ basket # <<>> /\ ~loading
  /\ dialog' = "checkout"
  /\ UNCHANGED <<left, sold, customer, basket, shown, loading, thanks, requests,
                 history>>

\* Accepting the dialog sends the basket as it is by now.
submitBasket ==
  /\ dialog = "checkout"
  /\ customer # Nobody /\ basket # <<>>
  /\ dialog' = "none" /\ loading' = TRUE
  /\ checkouts' = checkouts \union
       {[session |-> session, items |-> [d \in Lot |-> UnitsOf(basket, d)],
         verdict |-> "sent", waiting |-> TRUE, sure |-> steady]}
  /\ UNCHANGED <<left, sold, customer, basket, shown, thanks, lookups, reloads,
                 answers, history>>

\* What purchaseBasket asks of the items: every lot has them, and no older
\* unit of a product is left behind.
Accepted(items) ==
  /\ \A d \in Lot : items[d] <= left[d]
  /\ \A d, e \in Lot :
       ProductOf[d] = ProductOf[e] /\ e < d /\ items[d] > 0 => items[e] = left[e]

\* The verdict on q goes back to the page, if it still waits for it.
Judged(q, v) == IF q.waiting THEN {[q EXCEPT !.verdict = v]} ELSE {}

\* The shelf has changed: no basket in S can be sure to be sold.
Unsure(S) == {[q EXCEPT !.sure = FALSE] : q \in S}

\* The server sells the basket ...
Sell(q) ==
  /\ q.verdict = "sent" /\ Accepted(q.items)
  /\ left' = [d \in Lot |-> left[d] - q.items[d]]
  /\ sold' = sold \union {q.session}
  /\ checkouts' = Unsure((checkouts \ {q}) \union Judged(q, "ok"))
  /\ steady' = FALSE
  /\ UNCHANGED <<page, lookups, reloads, answers, session, told, moves>>

\* ... or refuses it: out_of_stock or fifo_violation ...
Refuse(q) ==
  /\ q.verdict = "sent" /\ ~Accepted(q.items)
  /\ checkouts' = (checkouts \ {q}) \union Judged(q, "refused")
  /\ UNCHANGED <<left, sold, page, lookups, reloads, answers, history>>

\* ... or fails, with nothing sold.
Fail(q) ==
  /\ q.verdict = "sent"
  /\ checkouts' = (checkouts \ {q}) \union Judged(q, "failed")
  /\ UNCHANGED <<left, sold, page, lookups, reloads, answers, history>>

\* Mutant: no thank-you modal.
ThankNobody == UNCHANGED thanks
Thank == thanks' = TRUE

\* { ok: true }: thank the customer and ask for the products again.
AnswerOk(q) ==
  /\ q.verdict = "ok"
  /\ MayReload
  /\ Thank
  /\ reloads' = reloads + 1
  /\ loading' = FALSE
  /\ checkouts' = checkouts \ {q}
  /\ told' = told \union {q.session}
  /\ UNCHANGED <<left, sold, customer, basket, shown, dialog, lookups, answers,
                 session, steady, moves>>

\* A refusal or a failure: a toast, and the basket stays.
AnswerNotOk(q) ==
  /\ q.verdict \in {"refused", "failed"}
  /\ loading' = FALSE
  /\ checkouts' = checkouts \ {q}
  /\ UNCHANGED <<left, sold, customer, basket, shown, dialog, thanks, lookups,
                 reloads, answers, history>>

\* The connection is lost, before or after the server's verdict: the page says
\* that the purchase failed, and the server goes on with what it has.
AnswerLost(q) ==
  /\ q.waiting
  /\ Cardinality(checkouts \ Awaited) < MaxGivenUp
  /\ loading' = FALSE
  /\ checkouts' = (checkouts \ {q}) \union
                     IF q.verdict = "sent" THEN {[q EXCEPT !.waiting = FALSE]} ELSE {}
  /\ UNCHANGED <<left, sold, customer, basket, shown, dialog, thanks, lookups, reloads,
                 answers, history>>

-----------------------------------------------------------------------------
(* Products. *)

\* refreshProducts: the server reads the stock ...
ReadProducts ==
  /\ reloads > 0
  /\ reloads' = reloads - 1
  /\ answers' = answers \union {left}
  /\ UNCHANGED <<left, sold, page, lookups, checkouts, history>>

\* ... and the page shows it when the answer comes.
ShowProducts ==
  /\ \E s \in answers :
       /\ shown' = s
       /\ answers' = answers \ {s}
       /\ steady' = (steady /\ s = shown)
  /\ UNCHANGED <<left, sold, customer, basket, dialog, loading, thanks, lookups,
                 reloads, checkouts, session, told, moves>>

\* Somebody buys in the web shop, a delivery comes, an order is cancelled.
Elsewhere(d, n) ==
  /\ left[d] # n /\ moves < MaxMoves
  /\ moves' = moves + 1
  /\ left' = [left EXCEPT ![d] = n]
  /\ steady' = FALSE
  /\ checkouts' = Unsure(checkouts)
  /\ UNCHANGED <<sold, page, lookups, reloads, answers, session, told>>

-----------------------------------------------------------------------------
Next ==
  \/ \E p \in Products : addToBasket(p) \/ decrementProduct(p)
  \/ \E c \in Customer : onKeypadSubmit(c) \/ Identified(c) \/ NotIdentified(c)
  \/ IdleTimeout \/ ThankYouClosed
  \/ requestCancel \/ AcceptCancel \/ RejectDialog
  \/ requestCheckout \/ submitBasket
  \/ \E q \in checkouts :
       \/ Sell(q) \/ Refuse(q) \/ Fail(q)
       \/ AnswerOk(q) \/ AnswerNotOk(q) \/ AnswerLost(q)
  \/ ReadProducts \/ ShowProducts
  \/ \E d \in Lot, n \in 0 .. MaxStock : Elsewhere(d, n)

Spec == Init /\ [][Next]_vars

-----------------------------------------------------------------------------
(* Properties. *)

TypeOK ==
  /\ left \in Stock /\ shown \in Stock /\ answers \subseteq Stock
  /\ sold \subseteq 1 .. session /\ told \subseteq 1 .. session
  /\ customer \in Customer \union {Nobody}
  /\ basket \in Seq(Line)
  /\ \A j, k \in DOMAIN basket : basket[j].lot = basket[k].lot => j = k
  /\ dialog \in {"none", "checkout", "cancel"}
  /\ loading \in BOOLEAN
  /\ thanks \in BOOLEAN
  /\ lookups \subseteq Customer
  /\ reloads \in Nat
  /\ checkouts \subseteq Checkout
  /\ session \in 0 .. MaxSessions
  /\ steady \in BOOLEAN
  /\ moves \in 0 .. MaxMoves

\* Whatever a customer adds and takes out again, the page fills the basket
\* the way the server's FIFO check wants it: a basket is refused only if the
\* stock or the page's view of it has changed since the session began.
SteadyBasketSells == [][\A q \in checkouts : Refuse(q) => ~q.sure]_vars

\* The page never waits for two checkouts, and the button of whoever stands
\* at the kiosk is disabled exactly while it waits for one, be it of a
\* customer who is long gone.
OneAwaited == Cardinality(Awaited) = IF loading THEN 1 ELSE 0

\* Once a checkout was answered with ok its session sends no other: the
\* basket, which is still there, is not paid twice.
PaysOnceWhenTold == [][submitBasket => session \notin told]_vars

\* The thank-you modal is shown only to a customer who has bought something
\* in this session.
ThankedForPurchase ==
  customer # Nobody /\ thanks => session \in sold

=============================================================================
