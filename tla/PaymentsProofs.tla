--------------------------- MODULE PaymentsProofs ---------------------------
(* Type correctness of Payments, who settles an invoice, whose decision    *)
(* holds, and that reminders are counted.                                  *)
EXTENDS Payments, TLAPS

\* The steps that leave the invoices alone.
Elsewhere ==
  \/ \E r \in Request : Lose(r)
  \/ \E i \in Invoice : GrowOld(i)
  \/ StartReminders
  \/ \E t \in todo : Skip(t) \/ Mail(t) \/ MailFails(t)
  \/ CutOff

LEMMA NextSteps ==
  Next => \/ \E r \in Request, i \in Invoice, op \in BuyerOp \union SupplierOp :
               Load(r, op, i) /\ (op \in SupplierOp => UserOf[r] = SupplierOf[i])
                              /\ (op \in BuyerOp => BuyerMay(UserOf[r], i))
          \/ \E r \in Request : Save(r)
          \/ \E t \in todo : CountReminder(t)
          \/ Elsewhere
  BY DEF Next, Job, Elsewhere, requestPayment, cancelPaymentRequest, approvePayment,
         rejectPayment, BuyerOp, SupplierOp

-----------------------------------------------------------------------------
(* Saving a copy. *)

\* What the assignments of each operation do to the copy.
LEMMA AfterOp ==
  ASSUME NEW op \in BuyerOp \union SupplierOp, NEW seen \in Row
  PROVE  /\ After(op, seen) \in Row
         /\ After(op, seen).reminders = seen.reminders
         /\ op \in BuyerOp => After(op, seen).paid = seen.paid
         /\ op \in SupplierOp => After(op, seen).paid = (op = "approvePayment")
         /\ op = "approvePayment" => After(op, seen).requested = seen.requested
  BY DEF After, Row, BuyerOp, SupplierOp

\* A save writes the changed columns and no other.
LEMMA WrittenColumns ==
  ASSUME NEW now \in Row, NEW seen \in Row, NEW after \in Row
  PROVE  /\ Written(now, seen, after) \in Row
         /\ after.paid = seen.paid => Written(now, seen, after).paid = now.paid
         /\ seen.paid = now.paid => Written(now, seen, after).paid = after.paid
         /\ after.requested = seen.requested =>
              Written(now, seen, after).requested = now.requested
         /\ after.reminders = seen.reminders =>
              Written(now, seen, after).reminders = now.reminders
         /\ seen.reminders = now.reminders =>
              Written(now, seen, after).reminders = after.reminders
  BY DEF Written, Row

LEMMA OneMoreTyped == ASSUME NEW n \in Nat PROVE OneMore(n) \in Nat /\ n <= OneMore(n)
  BY PaymentsAssumption DEF OneMore, PaymentsAssumption

LEMMA NewRowTyped == ASSUME NEW i \in Invoice PROVE NewRow(i) \in Row
  BY DEF NewRow, Row

-----------------------------------------------------------------------------
(* Types. *)

LEMMA TypedInit == Init => TypeOK
  BY NewRowTyped DEF Init, TypeOK

LEMMA SaveTyped ==
  ASSUME TypeOK, NEW r \in Request, NEW q \in open[r]
  PROVE  /\ q \in Copy
         /\ Written(row[q.invoice], q.seen, After(q.op, q.seen)) \in Row
  <1>1. q \in Copy
    BY DEF TypeOK
  <1>2. q.op \in BuyerOp \union SupplierOp /\ q.seen \in Row /\ row[q.invoice] \in Row
    BY <1>1 DEF TypeOK, Copy
  <1> QED
    BY <1>1, <1>2, AfterOp, WrittenColumns

\* The copy a reminder is counted in.
LEMMA CountTyped ==
  ASSUME TypeOK, NEW t \in todo
  PROVE  /\ t \in Todo /\ t.invoice \in Invoice /\ t.seen \in Row
         /\ [t.seen EXCEPT !.reminders = OneMore(@)] \in Row
         /\ Written(row[t.invoice], t.seen, [t.seen EXCEPT !.reminders = OneMore(@)]) \in Row
  <1>1. t \in Todo /\ t.invoice \in Invoice /\ t.seen \in Row /\ row[t.invoice] \in Row
    BY DEF TypeOK, Todo
  <1>2. OneMore(t.seen.reminders) \in Nat
    BY <1>1, OneMoreTyped DEF Row
  <1>3. [t.seen EXCEPT !.reminders = OneMore(@)] \in Row
    BY <1>1, <1>2 DEF Row
  <1> QED
    BY <1>1, <1>3, WrittenColumns

LEMMA TypedNext == TypeOK /\ [Next]_vars => TypeOK'
  <1> SUFFICES ASSUME TypeOK, [Next]_vars PROVE TypeOK'
    OBVIOUS
  <1>1. ASSUME NEW r \in Request, NEW i \in Invoice,
               NEW op \in BuyerOp \union SupplierOp, Load(r, op, i)
        PROVE  TypeOK'
    <2>1. [op |-> op, invoice |-> i, seen |-> row[i]] \in Copy
      BY DEF TypeOK, Copy
    <2> QED
      BY <1>1, <2>1 DEF Load, TypeOK, job
  <1>2. ASSUME NEW r \in Request, Save(r) PROVE TypeOK'
    <2>1. PICK q \in open[r] :
            row' = [row EXCEPT ![q.invoice] = Written(@, q.seen, After(q.op, q.seen))]
      BY <1>2 DEF Save
    <2>2. Written(row[q.invoice], q.seen, After(q.op, q.seen)) \in Row
      BY SaveTyped
    <2>3. row' \in [Invoice -> Row]
      BY <2>1, <2>2 DEF TypeOK
    <2>4. open' = [open EXCEPT ![r] = {}] /\ UNCHANGED <<old, job>>
      BY <1>2 DEF Save
    <2> QED
      BY <2>3, <2>4 DEF TypeOK, job
  <1>3. ASSUME NEW t \in todo, CountReminder(t) PROVE TypeOK'
    BY <1>3, CountTyped DEF CountReminder, Counted, TypeOK
  <1>4. CASE Elsewhere
    <2>1. ASSUME NEW r \in Request, Lose(r) PROVE TypeOK'
      BY <2>1 DEF Lose, TypeOK, job
    <2>2. ASSUME NEW i \in Invoice, GrowOld(i) PROVE TypeOK'
      BY <2>2 DEF GrowOld, TypeOK, job
    <2>3. CASE StartReminders
      BY <2>3 DEF StartReminders, Idle, TypeOK, Todo
    <2>4. ASSUME NEW t \in todo, Mail(t) PROVE TypeOK'
      <3>1. sent' \in [Invoice -> Nat]
        BY <2>4, CountTyped, OneMoreTyped DEF Mail, TypeOK
      <3> QED
        BY <2>4, <3>1 DEF Mail, TypeOK
    <2>5. ASSUME NEW t \in todo, Skip(t) \/ MailFails(t) PROVE TypeOK'
      BY <2>5 DEF Skip, MailFails, TypeOK
    <2>6. CASE CutOff
      BY <2>6 DEF CutOff, TypeOK
    <2> QED
      BY <1>4, <2>1, <2>2, <2>3, <2>4, <2>5, <2>6 DEF Elsewhere
  <1>5. CASE UNCHANGED vars
    BY <1>5 DEF vars, TypeOK
  <1> QED
    BY <1>1, <1>2, <1>3, <1>4, <1>5, NextSteps

\* The rows, the copies in progress and the counters have their types.
THEOREM TypeCorrect == Spec => []TypeOK
  BY TypedInit, TypedNext, PTL DEF Spec

-----------------------------------------------------------------------------
(* Who settles an invoice. *)

\* A request in progress works on one copy; a decision is of the supplier of
\* its invoice; and if that supplier makes no other request meanwhile, the
\* copy agrees with the row on whether the invoice is paid.
CopyOK(r) ==
  \A q \in open[r] :
    /\ \A p \in open[r] : p = q
    /\ q.op \in SupplierOp => UserOf[r] = SupplierOf[q.invoice]
    /\ q.op \in SupplierOp /\ Alone(r) => q.seen.paid = row[q.invoice].paid

Copies == \A r \in Request : CopyOK(r)

\* What a save does to the row of its invoice, and to the others.
LEMMA SaveRow ==
  ASSUME TypeOK, NEW r \in Request, CopyOK(r), Save(r)
  PROVE  \E q \in open[r] :
           /\ q \in Copy
           /\ \A p \in open[r] : p = q
           /\ row'[q.invoice] = Written(row[q.invoice], q.seen, After(q.op, q.seen))
           /\ \A i \in Invoice : i # q.invoice => row'[i] = row[i]
           /\ open' = [open EXCEPT ![r] = {}]
           /\ q.op \in BuyerOp => row'[q.invoice].paid = row[q.invoice].paid
           /\ q.op \in SupplierOp /\ Alone(r) =>
                row'[q.invoice].paid = (q.op = "approvePayment")
  <1>1. PICK q \in open[r] :
          /\ row' = [row EXCEPT ![q.invoice] = Written(@, q.seen, After(q.op, q.seen))]
          /\ open' = [open EXCEPT ![r] = {}]
    BY DEF Save
  <1>2. q \in Copy /\ \A p \in open[r] : p = q
    BY DEF TypeOK, CopyOK
  <1>3. /\ q.invoice \in Invoice /\ q.seen \in Row /\ row[q.invoice] \in Row
        /\ q.op \in BuyerOp \union SupplierOp
    BY <1>2 DEF TypeOK, Copy
  <1>4. /\ row'[q.invoice] = Written(row[q.invoice], q.seen, After(q.op, q.seen))
        /\ \A i \in Invoice : i # q.invoice => row'[i] = row[i]
    BY <1>1, <1>3 DEF TypeOK
  <1>5. q.op \in BuyerOp => row'[q.invoice].paid = row[q.invoice].paid
    BY <1>3, <1>4, AfterOp, WrittenColumns
  <1>6. ASSUME q.op \in SupplierOp, Alone(r)
        PROVE  row'[q.invoice].paid = (q.op = "approvePayment")
    <2>1. q.seen.paid = row[q.invoice].paid
      BY <1>6 DEF CopyOK
    <2> QED
      BY <1>3, <1>4, <1>6, <2>1, AfterOp, WrittenColumns
  <1> QED
    BY <1>1, <1>2, <1>4, <1>5, <1>6

\* Counting a reminder leaves the columns of buyer and supplier as they are.
LEMMA CountRow ==
  ASSUME TypeOK, NEW t \in todo, CountReminder(t)
  PROVE  \A i \in Invoice : /\ row'[i].paid = row[i].paid
                            /\ row'[i].requested = row[i].requested
  <1> DEFINE after == [t.seen EXCEPT !.reminders = OneMore(@)]
  <1>1. /\ t.invoice \in Invoice /\ t.seen \in Row /\ row[t.invoice] \in Row
        /\ after \in Row
    BY CountTyped DEF TypeOK
  <1>2. after.paid = t.seen.paid /\ after.requested = t.seen.requested
    BY <1>1 DEF Row
  <1>3. row' = [row EXCEPT ![t.invoice] = Written(@, t.seen, after)]
    BY DEF CountReminder, Counted
  <1>4. /\ row'[t.invoice] = Written(row[t.invoice], t.seen, after)
        /\ \A i \in Invoice : i # t.invoice => row'[i] = row[i]
    BY <1>1, <1>3 DEF TypeOK
  <1> HIDE DEF after
  <1> QED
    BY <1>1, <1>2, <1>4, WrittenColumns

LEMMA ElsewhereRows == ASSUME Elsewhere PROVE row' = row
  BY DEF Elsewhere, Lose, GrowOld, StartReminders, Skip, Mail, MailFails, CutOff

LEMMA LoadRows == ASSUME NEW r, NEW op, NEW i, Load(r, op, i) PROVE row' = row
  BY DEF Load

LEMMA CopiesInit == Init => Copies
  BY DEF Init, Copies, CopyOK

LEMMA SameCopies ==
  ASSUME TypeOK, Copies, NEW r \in Request, open'[r] = open[r] \/ open'[r] = {},
         \A i \in Invoice : row'[i].paid = row[i].paid
  PROVE  CopyOK(r)'
  <1>1. \A q \in open'[r] : q \in open[r] /\ q.invoice \in Invoice
    BY DEF TypeOK, Copy
  <1> QED
    BY <1>1 DEF Copies, CopyOK, Alone

LEMMA CopiesNext == TypeOK /\ Copies /\ [Next]_vars => Copies'
  <1> SUFFICES ASSUME TypeOK, Copies, [Next]_vars, NEW r \in Request PROVE CopyOK(r)'
    BY DEF Copies
  <1>1. ASSUME NEW x \in Request, NEW i \in Invoice, NEW op \in BuyerOp \union SupplierOp,
               Load(x, op, i), op \in SupplierOp => UserOf[x] = SupplierOf[i]
        PROVE  CopyOK(r)'
    <2>1. CASE x = r
      <3>1. open'[r] = {[op |-> op, invoice |-> i, seen |-> row[i]]} /\ row' = row
        BY <1>1, <2>1 DEF Load, TypeOK
      <3> QED
        BY <1>1, <2>1, <3>1 DEF CopyOK, Alone
    <2>2. CASE x # r
      BY <1>1, <2>2, SameCopies DEF Load, TypeOK
    <2> QED
      BY <2>1, <2>2
  <1>2. ASSUME NEW x \in Request, Save(x) PROVE CopyOK(r)'
    <2>1. PICK q \in open[x] :
            /\ q \in Copy
            /\ \A i \in Invoice : i # q.invoice => row'[i] = row[i]
            /\ open' = [open EXCEPT ![x] = {}]
            /\ q.op \in BuyerOp => row'[q.invoice].paid = row[q.invoice].paid
      BY <1>2, SaveRow DEF Copies
    <2>2. CASE x = r
      BY <2>1, <2>2 DEF CopyOK, TypeOK
    <2>3. CASE x # r
      <3>1. open'[r] = open[r]
        BY <2>1, <2>3 DEF TypeOK
      <3>2. ASSUME NEW p \in open[r], p.op \in SupplierOp, Alone(r)
            PROVE  row'[p.invoice].paid = row[p.invoice].paid
        <4>1. p.invoice \in Invoice /\ UserOf[r] = SupplierOf[p.invoice]
          BY <3>2 DEF Copies, CopyOK, TypeOK, Copy
        <4>2. CASE p.invoice # q.invoice
          BY <2>1, <4>1, <4>2
        <4>3. CASE p.invoice = q.invoice
          <5>1. q.op \notin SupplierOp
            BY <2>3, <3>2, <4>1, <4>3 DEF Copies, CopyOK, Alone
          <5>2. q.op \in BuyerOp
            BY <2>1, <5>1 DEF Copy
          <5> QED
            BY <2>1, <4>3, <5>2
        <4> QED
          BY <4>2, <4>3
      <3> QED
        BY <3>1, <3>2 DEF Copies, CopyOK, Alone
    <2> QED
      BY <2>2, <2>3
  <1>3. ASSUME NEW t \in todo, CountReminder(t) PROVE CopyOK(r)'
    BY <1>3, CountRow, SameCopies DEF CountReminder
  <1>4. CASE Elsewhere
    <2>1. open'[r] = open[r] \/ open'[r] = {}
      BY <1>4 DEF Elsewhere, Lose, GrowOld, StartReminders, Skip, Mail, MailFails, CutOff,
                  job, TypeOK
    <2> QED
      BY <1>4, <2>1, ElsewhereRows, SameCopies
  <1>5. CASE UNCHANGED vars
    BY <1>5, SameCopies DEF vars
  <1> QED
    BY <1>1, <1>2, <1>3, <1>4, <1>5, NextSteps

LEMMA CopiesAlways == Spec => [](TypeOK /\ Copies)
  BY TypedInit, TypedNext, CopiesInit, CopiesNext, PTL DEF Spec

\* Only the decision of its supplier changes whether an invoice is paid, for
\* any number of requests, users and invoices.
THEOREM PaidBySupplier == Spec => OnlySupplierSettles
  <1> DEFINE Decided(i) ==
        \E r \in Request : \E q \in open[r] :
          /\ UserOf[r] = SupplierOf[i]
          /\ q.invoice = i /\ q.op \in SupplierOp
          /\ open'[r] = {}
      Settles == \A i \in Invoice : row'[i].paid # row[i].paid => Decided(i)
  <1>1. TypeOK /\ Copies /\ [Next]_vars => [Settles]_vars
    <2> SUFFICES ASSUME TypeOK, Copies, Next, NEW i \in Invoice,
                        row'[i].paid # row[i].paid
                 PROVE  Decided(i)
      OBVIOUS
    <2>1. ASSUME NEW r \in Request, Save(r) PROVE Decided(i)
      <3>1. PICK q \in open[r] :
              /\ q \in Copy
              /\ \A k \in Invoice : k # q.invoice => row'[k] = row[k]
              /\ open' = [open EXCEPT ![r] = {}]
              /\ q.op \in BuyerOp => row'[q.invoice].paid = row[q.invoice].paid
        BY <2>1, SaveRow DEF Copies
      <3>2. q.invoice = i /\ q.op \in SupplierOp
        BY <3>1 DEF Copy
      <3>3. UserOf[r] = SupplierOf[i] /\ open'[r] = {}
        BY <3>1, <3>2 DEF Copies, CopyOK, TypeOK
      <3> QED
        BY <3>2, <3>3
    <2> HIDE DEF Decided
    <2> QED
      BY <2>1, NextSteps, CountRow, ElsewhereRows, LoadRows
  <1> QED
    BY <1>1, CopiesAlways, PTL DEF Spec, OnlySupplierSettles

\* A saved decision of a supplier who makes one request at a time holds.
THEOREM DecisionsHold == Spec => DecisionHolds
  <1> DEFINE Holds ==
        \A r \in Request : \A q \in open[r] :
          Alone(r) /\ q.op \in SupplierOp /\ Save(r) =>
            row'[q.invoice].paid = (q.op = "approvePayment")
  <1>1. TypeOK /\ Copies /\ [Next]_vars => [Holds]_vars
    BY SaveRow DEF Copies
  <1> QED
    BY <1>1, CopiesAlways, PTL DEF Spec, DecisionHolds

-----------------------------------------------------------------------------
(* Paid invoices. *)

\* A buyer's request in progress has seen the invoice unpaid.
Checked == \A r \in Request : \A q \in open[r] : q.op \in BuyerOp => ~q.seen.paid

LEMMA CheckedNext == TypeOK /\ Checked /\ [Next]_vars => Checked'
  <1> SUFFICES ASSUME TypeOK, Checked, [Next]_vars PROVE Checked'
    OBVIOUS
  <1>1. ASSUME NEW r \in Request, NEW i \in Invoice, NEW op \in BuyerOp \union SupplierOp,
               Load(r, op, i), op \in BuyerOp => BuyerMay(UserOf[r], i)
        PROVE  Checked'
    BY <1>1 DEF Load, BuyerMay, Checked, TypeOK
  <1>2. CASE \A r \in Request : open'[r] = open[r] \/ open'[r] = {}
    BY <1>2 DEF Checked
  <1>3. ASSUME NEW r \in Request, Save(r) PROVE Checked'
    BY <1>2, <1>3 DEF Save, TypeOK
  <1>4. ASSUME NEW t \in todo, CountReminder(t) PROVE Checked'
    BY <1>2, <1>4 DEF CountReminder
  <1>5. CASE Elsewhere
    BY <1>2, <1>5 DEF Elsewhere, Lose, GrowOld, StartReminders, Skip, Mail, MailFails,
                      CutOff, job, TypeOK
  <1>6. CASE UNCHANGED vars
    BY <1>2, <1>6 DEF vars
  <1> QED
    BY <1>1, <1>3, <1>4, <1>5, <1>6, NextSteps

\* A paid invoice keeps the buyer's announcement until it is rejected or a
\* request is saved that was checked before the approval.
THEOREM PaidFrozen == Spec => PaidIsFrozen
  <1> DEFINE
      Moved(i) ==
        \E r \in Request : \E q \in open[r] :
          /\ q.invoice = i /\ open'[r] = {}
          /\ \/ q.op = "rejectPayment"
             \/ q.op \in BuyerOp /\ ~q.seen.paid
      Frozen ==
        \A i \in Invoice : row[i].paid /\ row'[i].paid =>
          row'[i].requested = row[i].requested \/ Moved(i)
      Inv == TypeOK /\ Copies /\ Checked
  <1>1. Init => Inv
    BY TypedInit, CopiesInit DEF Init, Checked
  <1>2. Inv /\ [Next]_vars => Inv'
    BY TypedNext, CopiesNext, CheckedNext
  <1>3. Inv /\ [Next]_vars => [Frozen]_vars
    <2> SUFFICES ASSUME Inv, Next, NEW i \in Invoice, row[i].paid, row'[i].paid
                 PROVE  row'[i].requested = row[i].requested \/ Moved(i)
      OBVIOUS
    <2>1. ASSUME NEW r \in Request, Save(r)
          PROVE  row'[i].requested = row[i].requested \/ Moved(i)
      <3>1. PICK q \in open[r] :
              /\ q \in Copy
              /\ row'[q.invoice] = Written(row[q.invoice], q.seen, After(q.op, q.seen))
              /\ \A k \in Invoice : k # q.invoice => row'[k] = row[k]
              /\ open' = [open EXCEPT ![r] = {}]
        BY <2>1, SaveRow DEF Copies
      <3>2. CASE q.invoice # i
        BY <3>1, <3>2
      <3>3. CASE q.invoice = i /\ q.op \in BuyerOp
        BY <3>1, <3>3 DEF Checked, TypeOK
      <3>4. CASE q.invoice = i /\ q.op = "approvePayment"
        <4>1. /\ q.seen \in Row /\ row[i] \in Row
              /\ q.op \in BuyerOp \union SupplierOp
          BY <3>1 DEF Copy, TypeOK
        <4>2. After(q.op, q.seen) \in Row /\ After(q.op, q.seen).requested = q.seen.requested
          BY <3>4, <4>1, AfterOp
        <4> QED
          BY <3>1, <3>4, <4>1, <4>2, WrittenColumns
      <3>5. CASE q.invoice = i /\ q.op = "rejectPayment"
        BY <3>1, <3>5 DEF TypeOK
      <3> QED
        BY <3>1, <3>2, <3>3, <3>4, <3>5 DEF Copy, SupplierOp
    <2> HIDE DEF Moved
    <2> QED
      BY <2>1, NextSteps, CountRow, ElsewhereRows, LoadRows
  <1> HIDE DEF Inv
  <1> QED
    BY <1>1, <1>2, <1>3, PTL DEF Spec, PaidIsFrozen

-----------------------------------------------------------------------------
(* Counting reminders. *)

\* The job's list has one copy of an invoice, which knows its count, and a
\* reminder that was mailed is ahead of the count.
ListOK ==
  /\ \A t, u \in todo : t.invoice = u.invoice => t = u
  /\ \A t \in todo : t.seen.reminders = row[t.invoice].reminders
  /\ \A t, u \in mailed : t = u

CountsOK ==
  /\ \A i \in Invoice : sent[i] <= MaxReminders
  /\ \A t \in mailed : OneMore(row[t.invoice].reminders) <= sent[t.invoice]
  /\ RemindersCounted

LEMMA OneMoreGrows ==
  ASSUME NEW m \in Nat, NEW n \in Nat
  PROVE  /\ OneMore(m) \in {m, m + 1}
         /\ m <= n => OneMore(m) <= OneMore(n)
         /\ m <= MaxReminders => OneMore(m) <= MaxReminders
         /\ m < MaxReminders => OneMore(m) = m + 1
         /\ m >= MaxReminders => OneMore(m) = m
  BY PaymentsAssumption DEF OneMore, PaymentsAssumption

LEMMA PendingBit == \A i \in Invoice : Pending(i) \in {0, 1}
  BY DEF Pending

\* The requests do not touch the counts.
LEMMA SameCounts ==
  ASSUME TypeOK, ListOK, CountsOK, UNCHANGED job,
         \A i \in Invoice : row'[i].reminders = row[i].reminders
  PROVE  ListOK' /\ CountsOK'
  <1>1. \A t \in todo : t.invoice \in Invoice
    BY DEF TypeOK, Todo
  <1>2. ListOK'
    BY <1>1 DEF ListOK, job
  <1>3. CountsOK'
    <2>1. mailed \subseteq todo
      BY DEF TypeOK
    <2> QED
      BY <1>1, <2>1 DEF CountsOK, RemindersCounted, Pending, job
  <1> QED
    BY <1>2, <1>3

LEMMA MailCounts ==
  ASSUME TypeOK, ListOK, CountsOK, NEW t \in todo, Mail(t)
  PROVE  ListOK' /\ CountsOK'
  <1>1. t.invoice \in Invoice
    BY CountTyped
  <1>2. /\ mailed = {} /\ mailed' = {t} /\ todo' = todo /\ row' = row /\ cuts' = cuts
        /\ sent' = [sent EXCEPT ![t.invoice] = OneMore(@)]
    BY DEF Mail
  <1>3. ListOK'
    BY <1>2 DEF ListOK
  <1>4. ASSUME NEW i \in Invoice
        PROVE  /\ sent'[i] <= MaxReminders
               /\ i = t.invoice => OneMore(row'[i].reminders) <= sent'[i]
               /\ row'[i].reminders <= sent'[i]
               /\ sent'[i] <= row'[i].reminders + Pending(i)' + cuts'
    <2>1. row[i].reminders \in Nat /\ sent[i] \in Nat /\ cuts \in Nat /\ MaxReminders \in Nat
      BY PaymentsAssumption DEF TypeOK, Row, PaymentsAssumption
    <2>2. /\ sent[i] <= MaxReminders /\ row[i].reminders <= sent[i]
          /\ sent[i] <= row[i].reminders + cuts
      BY <1>2, <2>1 DEF CountsOK, RemindersCounted, Pending
    <2>3. CASE i = t.invoice
      <3>1. sent'[i] = OneMore(sent[i]) /\ Pending(i)' = 1
        BY <1>1, <1>2, <2>3 DEF TypeOK, Pending
      <3>2. OneMore(row[i].reminders) \in Nat
        BY <2>1, OneMoreTyped
      <3> QED
        BY <1>2, <2>1, <2>2, <3>1, <3>2, OneMoreGrows
    <2>4. CASE i # t.invoice
      <3>1. sent'[i] = sent[i] /\ Pending(i)' = 0
        BY <1>1, <1>2, <2>4 DEF TypeOK, Pending
      <3> QED
        BY <1>2, <2>1, <2>2, <2>4, <3>1
    <2> QED
      BY <2>3, <2>4
  <1> QED
    BY <1>1, <1>2, <1>3, <1>4 DEF CountsOK, RemindersCounted

LEMMA CountCounts ==
  ASSUME TypeOK, ListOK, CountsOK, NEW t \in todo, CountReminder(t)
  PROVE  ListOK' /\ CountsOK'
  <1> DEFINE after == [t.seen EXCEPT !.reminders = OneMore(@)]
  <1>1. /\ t.invoice \in Invoice /\ t.seen \in Row /\ row[t.invoice] \in Row /\ after \in Row
        /\ after.reminders = OneMore(t.seen.reminders)
    BY CountTyped DEF TypeOK, Row
  <1>2. /\ t \in mailed /\ todo' = todo \ {t} /\ mailed' = {} /\ sent' = sent /\ cuts' = cuts
        /\ row' = [row EXCEPT ![t.invoice] = Written(@, t.seen, after)]
    BY DEF CountReminder, Counted
  <1>3. t.seen.reminders = row[t.invoice].reminders
    BY DEF ListOK
  <1> HIDE DEF after
  <1>4. /\ row'[t.invoice].reminders = OneMore(row[t.invoice].reminders)
        /\ \A i \in Invoice : i # t.invoice => row'[i] = row[i]
    BY <1>1, <1>2, <1>3, WrittenColumns DEF TypeOK
  <1>5. ListOK'
    <2>1. \A u \in todo' : u \in todo /\ u.invoice \in Invoice /\ u.invoice # t.invoice
      BY <1>2 DEF ListOK, TypeOK, Todo
    <2> QED
      BY <1>2, <1>4, <2>1 DEF ListOK
  <1>6. ASSUME NEW i \in Invoice
        PROVE  /\ row'[i].reminders <= sent[i]
               /\ sent[i] <= row'[i].reminders + Pending(i)' + cuts
    <2>1. /\ row[i].reminders \in Nat /\ sent[i] \in Nat /\ cuts \in Nat
          /\ MaxReminders \in Nat /\ Pending(i)' = 0
      BY <1>2, PaymentsAssumption DEF TypeOK, Row, Pending, PaymentsAssumption
    <2>2. /\ sent[i] <= MaxReminders /\ row[i].reminders <= sent[i]
          /\ sent[i] <= row[i].reminders + Pending(i) + cuts
      BY DEF CountsOK, RemindersCounted
    <2>3. CASE i = t.invoice
      <3>1. OneMore(row[i].reminders) <= sent[i] /\ Pending(i) = 1
        BY <1>2, <2>3 DEF CountsOK, Pending
      <3>2. CASE row[i].reminders < MaxReminders
        <4>1. row'[i].reminders = row[i].reminders + 1
          BY <1>4, <2>1, <2>3, <3>2, OneMoreGrows
        <4> QED
          BY <1>4, <2>1, <2>2, <2>3, <3>1, <4>1
      <3>3. CASE row[i].reminders >= MaxReminders
        <4>1. row'[i].reminders = row[i].reminders
          BY <1>4, <2>1, <2>3, <3>3, OneMoreGrows
        <4> QED
          BY <2>1, <2>2, <3>3, <4>1
      <3> QED
        BY <2>1, <3>2, <3>3
    <2>4. CASE i # t.invoice
      <3>1. row'[i] = row[i] /\ Pending(i) = 0
        BY <1>2, <1>4, <2>4 DEF ListOK, Pending
      <3> QED
        BY <2>1, <2>2, <3>1
    <2> QED
      BY <2>3, <2>4
  <1> QED
    BY <1>2, <1>5, <1>6 DEF CountsOK, RemindersCounted

LEMMA OtherCounts ==
  ASSUME TypeOK, ListOK, CountsOK, Elsewhere
  PROVE  ListOK' /\ CountsOK'
  <1>1. row' = row
    BY ElsewhereRows
  <1>2. ASSUME UNCHANGED job PROVE ListOK' /\ CountsOK'
    BY <1>1, <1>2, SameCounts
  <1>3. CASE StartReminders
    <2>1. /\ todo' = {[invoice |-> i, seen |-> row[i]] : i \in {k \in Invoice : Overdue(k)}}
          /\ mailed' = mailed /\ sent' = sent /\ cuts' = cuts /\ mailed = {}
      BY <1>3 DEF StartReminders, Idle
    <2>2. ListOK'
      BY <1>1, <2>1 DEF ListOK
    <2> QED
      BY <1>1, <2>1, <2>2 DEF CountsOK, RemindersCounted, Pending
  <1>4. ASSUME NEW t \in todo, Skip(t) \/ MailFails(t) PROVE ListOK' /\ CountsOK'
    <2>1. todo' \subseteq todo /\ mailed' = {} /\ sent' = sent /\ cuts' = cuts /\ mailed = {}
      BY <1>4 DEF Skip, MailFails
    <2>2. ListOK'
      BY <1>1, <2>1 DEF ListOK
    <2> QED
      BY <1>1, <2>1, <2>2 DEF CountsOK, RemindersCounted, Pending
  <1>5. CASE CutOff
    <2>1. todo' = {} /\ mailed' = {} /\ sent' = sent /\ cuts' = cuts + 1
      BY <1>5 DEF CutOff
    <2>2. ASSUME NEW i \in Invoice
          PROVE  sent[i] <= row[i].reminders + Pending(i)' + cuts'
      <3>1. /\ row[i].reminders \in Nat /\ sent[i] \in Nat /\ cuts \in Nat
            /\ Pending(i) \in {0, 1} /\ Pending(i)' = 0
        BY <2>1, PendingBit DEF TypeOK, Row, Pending
      <3> QED
        BY <2>1, <3>1 DEF CountsOK, RemindersCounted
    <2> QED
      BY <1>1, <2>1, <2>2 DEF ListOK, CountsOK, RemindersCounted
  <1> QED
    BY <1>2, <1>3, <1>4, <1>5, MailCounts DEF Elsewhere, Lose, GrowOld

LEMMA CountsNext ==
  TypeOK /\ Copies /\ ListOK /\ CountsOK /\ [Next]_vars => ListOK' /\ CountsOK'
  <1> SUFFICES ASSUME TypeOK, Copies, ListOK, CountsOK, [Next]_vars
               PROVE  ListOK' /\ CountsOK'
    OBVIOUS
  <1>1. ASSUME NEW r \in Request, Save(r) PROVE ListOK' /\ CountsOK'
    <2>1. PICK q \in open[r] :
            /\ q \in Copy
            /\ row'[q.invoice] = Written(row[q.invoice], q.seen, After(q.op, q.seen))
            /\ \A i \in Invoice : i # q.invoice => row'[i] = row[i]
      BY <1>1, SaveRow DEF Copies
    <2>2. row'[q.invoice].reminders = row[q.invoice].reminders
      <3>1. /\ q.seen \in Row /\ row[q.invoice] \in Row
            /\ q.op \in BuyerOp \union SupplierOp
        BY <2>1 DEF Copy, TypeOK
      <3> QED
        BY <2>1, <3>1, AfterOp, WrittenColumns
    <2> QED
      BY <1>1, <2>1, <2>2, SameCounts DEF Save
  <1>2. ASSUME NEW r, NEW op, NEW i, Load(r, op, i) PROVE ListOK' /\ CountsOK'
    BY <1>2, SameCounts DEF Load
  <1>3. CASE UNCHANGED vars
    BY <1>3, SameCounts DEF vars, job
  <1> QED
    BY <1>1, <1>2, <1>3, NextSteps, CountCounts, OtherCounts

\* The count of reminders follows the mails, whatever else is saved meanwhile.
THEOREM RemindersAreCounted == Spec => []RemindersCounted
  <1>1. Init => ListOK /\ CountsOK
    <2> SUFFICES ASSUME Init, NEW i \in Invoice
                 PROVE  /\ sent[i] <= MaxReminders
                        /\ row[i].reminders <= sent[i]
                        /\ sent[i] <= row[i].reminders + Pending(i) + cuts
      BY DEF Init, ListOK, CountsOK, RemindersCounted
    <2>1. row[i].reminders = 0 /\ sent[i] = 0 /\ cuts = 0 /\ Pending(i) = 0
      BY DEF Init, NewRow, Pending
    <2> QED
      BY <2>1, PaymentsAssumption DEF PaymentsAssumption
  <1>2. CountsOK => RemindersCounted
    BY DEF CountsOK
  <1> QED
    BY <1>1, <1>2, CopiesAlways, CountsNext, PTL DEF Spec

=============================================================================
