------------------------------ MODULE Payments ------------------------------
(***************************************************************************)
(* Settling an invoice.  The buyer announces a payment or takes the        *)
(* announcement back, the supplier approves or rejects, and a scheduled    *)
(* job reminds buyers of invoices that are overdue:                        *)
(*                                                                         *)
(*   InvoiceService.requestPayment, cancelPaymentRequest,                  *)
(*                  approvePayment, rejectPayment                          *)
(*   NotificationService.sendUnpaidInvoiceReminders                        *)
(*                                                                         *)
(* None of them uses a transaction or a lock.  Each reads the row, checks  *)
(* the copy, changes the copy and saves it later; Lucid writes the columns *)
(* in which the changed copy differs from the copy that was read.  The job *)
(* reads all its rows at once and saves them one by one.                   *)
(***************************************************************************)
EXTENDS Integers, FiniteSets

CONSTANTS
  Request,      \* HTTP requests that can be in progress together
  Invoice,      \* ids of invoices
  User,
  UserOf,       \* who is logged in where the request comes from
  BuyerOf, SupplierOf,
  Disabled,     \* users whose account is disabled
  BadMailbox,   \* users whose mail the SMTP server refuses
  MaxReminders, \* bound: counters of reminders stop here
  MaxCuts       \* bound: how often a job is cut off half-way

ASSUME PaymentsAssumption ==
  /\ UserOf \in [Request -> User]
  /\ BuyerOf \in [Invoice -> User] /\ SupplierOf \in [Invoice -> User]
  /\ Disabled \subseteq User /\ BadMailbox \subseteq User
  /\ MaxReminders \in Nat /\ MaxCuts \in Nat

VARIABLES
  row,    \* invoices: is_paid, is_payment_requested, auto_reminder_count
  old,    \* invoices older than UNPAID_REMINDER_MIN_AGE_DAYS
  open,   \* per request: {} or the one operation it is in the middle of
  todo,   \* the job: invoices it still has to remind of, as it has read them
  mailed, \* the job: {} or the invoice it has mailed and not counted yet
  sent,   \* history: reminders mailed
  cuts    \* history: jobs cut off half-way

job == <<todo, mailed, sent, cuts>>
vars == <<row, old, open, todo, mailed, sent, cuts>>

Row == [paid : BOOLEAN, requested : BOOLEAN, reminders : Nat]
BuyerOp == {"requestPayment", "cancelPaymentRequest"}
SupplierOp == {"approvePayment", "rejectPayment"}
Copy == [op : BuyerOp \union SupplierOp, invoice : Invoice, seen : Row]
Todo == [invoice : Invoice, seen : Row]

\* An invoice of a supplier to themselves is born paid.
NewRow(i) ==
  LET self == BuyerOf[i] = SupplierOf[i]
  IN  [paid |-> self, requested |-> self, reminders |-> 0]

Init ==
  /\ row = [i \in Invoice |-> NewRow(i)]
  /\ old = {}
  /\ open = [r \in Request |-> {}]
  /\ todo = {} /\ mailed = {}
  /\ sent = [i \in Invoice |-> 0]
  /\ cuts = 0

-----------------------------------------------------------------------------
(* A saved model. *)

\* What a save leaves in the row that is now there: the columns in which the
\* copy was changed, and the others as they are.
Written(now, seen, after) ==
  [paid |-> IF after.paid # seen.paid THEN after.paid ELSE now.paid,
   requested |-> IF after.requested # seen.requested THEN after.requested ELSE now.requested,
   reminders |-> IF after.reminders # seen.reminders THEN after.reminders ELSE now.reminders]

\* Mutant: a rejection takes back the announcement only.
AfterKeepingPaid(op, seen) ==
  [seen EXCEPT !.paid = @ \/ op = "approvePayment",
               !.requested = CASE op = "requestPayment" -> TRUE
                               [] op = "approvePayment" -> @
                               [] OTHER -> FALSE]
\* The copy after the assignments of an operation.
After(op, seen) ==
  [seen EXCEPT !.paid = CASE op = "approvePayment" -> TRUE
                          [] op = "rejectPayment" -> FALSE
                          [] OTHER -> @,
               !.requested = CASE op = "requestPayment" -> TRUE
                               [] op = "approvePayment" -> @
                               [] OTHER -> FALSE]

-----------------------------------------------------------------------------
(* The requests of buyers and suppliers. *)

\* findOrFail: the copy the operation works on.
Load(r, op, i) ==
  /\ open[r] = {}
  /\ open' = [open EXCEPT ![r] = {[op |-> op, invoice |-> i, seen |-> row[i]]}]
  /\ UNCHANGED <<row, old, job>>

\* Mutant: the check for ALREADY_PAID is left out.
BuyerMayAlways(u, i) == BuyerOf[i] = u
\* Otherwise FORBIDDEN or ALREADY_PAID is thrown and nothing happens.
BuyerMay(u, i) == BuyerOf[i] = u /\ ~row[i].paid

requestPayment(r, i) == BuyerMay(UserOf[r], i) /\ Load(r, "requestPayment", i)
cancelPaymentRequest(r, i) == BuyerMay(UserOf[r], i) /\ Load(r, "cancelPaymentRequest", i)
approvePayment(r, i) == SupplierOf[i] = UserOf[r] /\ Load(r, "approvePayment", i)
rejectPayment(r, i) == SupplierOf[i] = UserOf[r] /\ Load(r, "rejectPayment", i)

\* invoice.save() of the operation.
Save(r) ==
  \E q \in open[r] :
    /\ row' = [row EXCEPT ![q.invoice] = Written(@, q.seen, After(q.op, q.seen))]
    /\ open' = [open EXCEPT ![r] = {}]
    /\ UNCHANGED <<old, job>>

\* The request dies before it saves: a restart, a failed UPDATE.
Lose(r) ==
  /\ open[r] # {}
  /\ open' = [open EXCEPT ![r] = {}]
  /\ UNCHANGED <<row, old, job>>

-----------------------------------------------------------------------------
(* The reminder job. *)

GrowOld(i) ==
  /\ i \notin old
  /\ old' = old \union {i}
  /\ UNCHANGED <<row, open, job>>

Overdue(i) == i \in old /\ ~row[i].paid /\ ~row[i].requested
Idle == todo = {} /\ mailed = {}

\* cron: the query for the invoices to remind of.
StartReminders ==
  /\ Idle
  /\ \E i \in Invoice : Overdue(i)
  /\ todo' = {[invoice |-> i, seen |-> row[i]] : i \in {k \in Invoice : Overdue(k)}}
  /\ UNCHANGED <<row, old, open, mailed, sent, cuts>>

\* Reminders counted, up to the bound.
OneMore(n) == IF n < MaxReminders THEN n + 1 ELSE n

\* Mutant: return instead of continue.
SkipAll(t) ==
  /\ mailed = {}
  /\ BuyerOf[t.invoice] \in Disabled
  /\ todo' = {}
  /\ UNCHANGED <<row, old, open, mailed, sent, cuts>>
Skip(t) ==
  /\ mailed = {}
  /\ BuyerOf[t.invoice] \in Disabled
  /\ todo' = todo \ {t}
  /\ UNCHANGED <<row, old, open, mailed, sent, cuts>>

\* mail.send returns.
Mail(t) ==
  /\ mailed = {}
  /\ BuyerOf[t.invoice] \notin Disabled \union BadMailbox
  /\ mailed' = {t}
  /\ sent' = [sent EXCEPT ![t.invoice] = OneMore(@)]
  /\ UNCHANGED <<row, old, open, todo, cuts>>

\* mail.send throws: the exception leaves the loop, and the job is over.
MailFails(t) ==
  /\ mailed = {}
  /\ BuyerOf[t.invoice] \in BadMailbox \ Disabled
  /\ todo' = {}
  /\ UNCHANGED <<row, old, open, mailed, sent, cuts>>

\* Mutant: the reminder is counted in every invoice of the list.
CountedInAll(t) ==
  row' = [i \in Invoice |->
            IF \E k \in todo : k.invoice = i
              THEN Written(row[i], t.seen, [t.seen EXCEPT !.reminders = OneMore(@)])
              ELSE row[i]]
\* autoReminderCount += 1 on the copy, and invoice.save().
Counted(t) ==
  row' = [row EXCEPT ![t.invoice] =
            Written(@, t.seen, [t.seen EXCEPT !.reminders = OneMore(@)])]

CountReminder(t) ==
  /\ t \in mailed
  /\ Counted(t)
  /\ todo' = todo \ {t} /\ mailed' = {}
  /\ UNCHANGED <<old, open, sent, cuts>>

\* The scheduler is restarted, or the UPDATE fails.
CutOff ==
  /\ ~Idle /\ cuts < MaxCuts
  /\ todo' = {} /\ mailed' = {}
  /\ cuts' = cuts + 1
  /\ UNCHANGED <<row, old, open, sent>>

Job == StartReminders \/ \E t \in todo : Skip(t) \/ Mail(t) \/ MailFails(t) \/ CountReminder(t)

-----------------------------------------------------------------------------
Next ==
  \/ \E r \in Request, i \in Invoice :
       \/ requestPayment(r, i)
       \/ cancelPaymentRequest(r, i)
       \/ approvePayment(r, i)
       \/ rejectPayment(r, i)
  \/ \E r \in Request : Save(r) \/ Lose(r)
  \/ \E i \in Invoice : GrowOld(i)
  \/ Job
  \/ CutOff

Spec == Init /\ [][Next]_vars

\* cron starts the job again and again, and a job that runs goes on.
FairSpec == Spec /\ WF_vars(Job)

-----------------------------------------------------------------------------
(* Properties. *)

TypeOK ==
  /\ row \in [Invoice -> Row]
  /\ old \subseteq Invoice
  /\ open \in [Request -> SUBSET Copy]
  /\ todo \subseteq Todo /\ mailed \subseteq todo
  /\ sent \in [Invoice -> Nat]
  /\ cuts \in Nat

\* Whether an invoice is paid is changed only by its supplier's decision:
\* neither a buyer's late save nor that of the reminder job, both of an old
\* copy, undoes it.
OnlySupplierSettles ==
  [][\A i \in Invoice : row'[i].paid # row[i].paid =>
       \E r \in Request : \E q \in open[r] :
         /\ UserOf[r] = SupplierOf[i]
         /\ q.invoice = i /\ q.op \in SupplierOp
         /\ open'[r] = {}]_vars

\* Request r is the only one its user makes at a time.
Alone(r) == \A x \in Request : UserOf[x] = UserOf[r] => x = r

\* When the decision of a supplier who makes one request at a time has been
\* saved the invoice is as decided, whatever buyers and the job have saved
\* since the supplier's copy was read.
DecisionHolds ==
  [][\A r \in Request : \A q \in open[r] :
       Alone(r) /\ q.op \in SupplierOp /\ Save(r) =>
         row'[q.invoice].paid = (q.op = "approvePayment")]_vars

\* The buyer's announcement no longer changes on a paid invoice, unless the
\* supplier rejects the payment or a buyer's request is saved that had its
\* check before the approval: later requests are turned away, and no stale
\* save of the supplier or of the job touches it.
PaidIsFrozen ==
  [][\A i \in Invoice : row[i].paid /\ row'[i].paid =>
       row'[i].requested = row[i].requested \/
       \E r \in Request : \E q \in open[r] :
         /\ q.invoice = i /\ open'[r] = {}
         /\ \/ q.op = "rejectPayment"
            \/ q.op \in BuyerOp /\ ~q.seen.paid]_vars

\* The reminders of invoice i that are mailed and still to be counted.
Pending(i) == IF \E t \in mailed : t.invoice = i THEN 1 ELSE 0

\* auto_reminder_count counts the reminders mailed: it is never ahead of
\* them, and behind by those of jobs cut off between mail and save only.
RemindersCounted ==
  \A i \in Invoice : /\ row[i].reminders <= sent[i]
                     /\ sent[i] <= row[i].reminders + Pending(i) + cuts

\* A reminder that cannot be mailed is due: it may end the job before others.
Stuck == \E i \in Invoice : Overdue(i) /\ BuyerOf[i] \in BadMailbox \ Disabled

\* The buyer of an invoice that stays overdue is reminded again and again,
\* whoever is disabled and however often the job is cut off, as soon as no
\* reminder that cannot be mailed stands in the way.
OverdueReminded ==
  \A i \in Invoice :
    BuyerOf[i] \notin Disabled =>
      (<>[](Overdue(i) /\ ~Stuck) => []<>(\E t \in mailed : t.invoice = i))

=============================================================================
