---------------------------- MODULE InvoiceLedger ----------------------------
(***************************************************************************)
(* A sales invoice, its payments and the general ledger: the operations of *)
(* invoices.service.ts with the journals gl-posting.service.ts posts for   *)
(* them, one request at a time and none failing. Online collections that   *)
(* overlap or stop half-way are the subject of OnlineCheckout.             *)
(*                                                                         *)
(* The ledger is kept per document, so that a balance says which document  *)
(* it belongs to: arInv is what the INV: and REV-INV: journals of an       *)
(* invoice left on accounts receivable, arPay and money what the PAY: and  *)
(* REV-PAY: journals of a payment left there and on the money accounts.    *)
(* VIEWED and OVERDUE, which no guard tells from SENT, are SENT.           *)
(***************************************************************************)
EXTENDS Integers, FiniteSets, Functions

CONSTANTS
  Invoices,      \* sales invoices
  Payments,      \* ids of payment rows
  Amounts,       \* amounts an invoice can total and a payment can have
  Links,         \* subset of BOOLEAN: may a payment name a linked bank account?
  OnlineAmounts  \* amounts online bills can have; none: no online payments

ASSUME LedgerConstants ==
  Amounts \subseteq Nat \ {0} /\ OnlineAmounts \subseteq Amounts
  /\ Links \subseteq BOOLEAN /\ Invoices # {}

ASSUME FinitelyManyPayments == IsFiniteSet(Payments)

VARIABLES
  status,   \* invoice.status, or absent, or removed
  pstatus,  \* invoice.paymentStatus
  paid,     \* invoice.paidAmount
  total,    \* invoice.total
  journal,  \* amount of the journal invoice.glJournalId names, 0 when null
  payment,  \* payment rows
  arInv,    \* accounts receivable: what the invoice's own journals left
  arPay,    \* accounts receivable: what the payment's journals left
  money,    \* money accounts: what the payment's journals left on each
  reversed  \* invoices for which a journal REV-INV:<id> exists

invoiceVars == <<status, pstatus, paid, total, journal>>
ledgerVars == <<arInv, arPay, money, reversed>>
vars == <<invoiceVars, payment, ledgerVars>>

Statuses == {"absent", "DRAFT", "SENT", "PAID", "CANCELLED", "removed"}
MoneyAccounts == {"method", "linked"}   \* the method's own account, a bank's
PaymentRow == [state : {"unused", "live", "deleted"},
               of : Invoices, amount : Nat, linked : BOOLEAN, posted : BOOLEAN]
NoMoney == [a \in MoneyAccounts |-> 0]

Init ==
  /\ status = [i \in Invoices |-> "absent"]
  /\ pstatus = [i \in Invoices |-> "UNPAID"]
  /\ paid = [i \in Invoices |-> 0]
  /\ total \in [Invoices -> Amounts]
  /\ journal = [i \in Invoices |-> 0]
  /\ payment = [p \in Payments |->
                  [state |-> "unused", of |-> CHOOSE i \in Invoices : TRUE,
                   amount |-> 0, linked |-> FALSE, posted |-> FALSE]]
  /\ arInv = [i \in Invoices |-> 0]
  /\ arPay = [p \in Payments |-> 0]
  /\ money = [p \in Payments |-> NoMoney]
  /\ reversed = {}

Exists(i) == status[i] \notin {"absent", "removed"}
Live(i) == {p \in Payments : payment[p].state = "live" /\ payment[p].of = i}
SumPaid(ps) == SumFunctionOnSet([p \in Payments |-> payment[p].amount], ps)
NoPayments(i) == paid[i] = 0 /\ Live(i) = {}
Row(i, amount, linked, posted) ==
  [state |-> "live", of |-> i, amount |-> amount, linked |-> linked,
   posted |-> posted]

(***************************************************************************)
(* gl-posting.service.ts                                                   *)
(***************************************************************************)
\* Faulty: posts again what is posted.
RepostInvoice(i) ==
  /\ journal' = [journal EXCEPT ![i] = total[i]]
  /\ arInv' = [arInv EXCEPT ![i] = @ - journal[i] + total[i]]
  /\ UNCHANGED reversed

\* postInvoice: nothing when glJournalId is set.
PostInvoice(i) ==
  /\ journal' = [journal EXCEPT ![i] = IF @ = 0 THEN total[i] ELSE @]
  /\ arInv' = [arInv EXCEPT ![i] = IF journal[i] = 0 THEN @ + total[i] ELSE @]
  /\ UNCHANGED reversed

\* Faulty: leaves glJournalId on the reversed journal.
ReverseKeepingJournal(i) ==
  /\ UNCHANGED journal
  /\ IF journal[i] = 0 \/ i \in reversed
       THEN UNCHANGED <<arInv, reversed>>
       ELSE /\ arInv' = [arInv EXCEPT ![i] = @ - journal[i]]
            /\ reversed' = reversed \cup {i}

\* reverseInvoiceEntry: nothing when a REV-INV: journal exists, and then
\* glJournalId stays too.
ReverseInvoice(i) ==
  IF journal[i] = 0 \/ i \in reversed
    THEN UNCHANGED <<journal, arInv, reversed>>
    ELSE /\ journal' = [journal EXCEPT ![i] = 0]
         /\ arInv' = [arInv EXCEPT ![i] = @ - journal[i]]
         /\ reversed' = reversed \cup {i}

\* postPayment of the rows ps, whose contents are those of row.
PostPayments(row, ps) ==
  /\ arPay' = [p \in Payments |-> IF p \in ps THEN arPay[p] - row[p].amount
                                              ELSE arPay[p]]
  /\ money' = [p \in Payments |->
       IF p \in ps
         THEN [money[p] EXCEPT ![IF row[p].linked THEN "linked" ELSE "method"]
                 = @ + row[p].amount]
         ELSE money[p]]

\* reversePaymentEntry of the rows ps: credits the account of the method, also
\* when the payment was posted to a linked bank account.
ReversePayments(ps) ==
  LET posted == {p \in ps : payment[p].posted} IN
  /\ arPay' = [p \in Payments |-> IF p \in posted THEN arPay[p] + payment[p].amount
                                                  ELSE arPay[p]]
  /\ money' = [p \in Payments |->
       IF p \in posted
         THEN [money[p] EXCEPT !["method"] = @ - payment[p].amount]
         ELSE money[p]]

DeletePayments(ps) ==
  payment' = [p \in Payments |->
    IF p \in ps THEN [payment[p] EXCEPT !.state = "deleted", !.posted = FALSE]
                ELSE payment[p]]

NoPaymentChange == UNCHANGED <<payment, arPay, money>>

(***************************************************************************)
(* invoices.service.ts                                                     *)
(***************************************************************************)
Create(i, t) ==
  /\ status[i] = "absent"
  /\ status' = [status EXCEPT ![i] = "DRAFT"]
  /\ total' = [total EXCEPT ![i] = t]
  /\ UNCHANGED <<pstatus, paid, journal, ledgerVars>> /\ NoPaymentChange

Update(i, t) ==
  /\ status[i] = "DRAFT" /\ NoPayments(i)
  /\ total' = [total EXCEPT ![i] = t]
  /\ UNCHANGED <<status, pstatus, paid, journal, ledgerVars>> /\ NoPaymentChange

Send(i) ==
  /\ status[i] \in {"DRAFT", "SENT"}
  /\ status' = [status EXCEPT ![i] = "SENT"]
  /\ PostInvoice(i)
  /\ UNCHANGED <<pstatus, paid, total>> /\ NoPaymentChange

\* updateStatus to DRAFT or to SENT, from whatever status.
SetStatus(i, s) ==
  /\ Exists(i) /\ NoPayments(i) /\ pstatus[i] = "UNPAID"
  /\ s \in {"DRAFT", "SENT"}
  /\ status' = [status EXCEPT ![i] = s]
  /\ IF s = "SENT" THEN PostInvoice(i) ELSE UNCHANGED <<journal, arInv, reversed>>
  /\ UNCHANGED <<pstatus, paid, total>> /\ NoPaymentChange

\* updateStatus to PAID: one cash payment of the total when there is none.
MarkPaid(i, p) ==
  LET rows == IF Live(i) = {}
                THEN [payment EXCEPT ![p] = Row(i, total[i], FALSE, FALSE)]
                ELSE payment
      due == {q \in Payments : /\ rows[q].state = "live" /\ rows[q].of = i
                               /\ ~rows[q].posted}
  IN
  /\ Exists(i)
  /\ Live(i) = {} => payment[p].state = "unused"
  /\ status' = [status EXCEPT ![i] = "PAID"]
  /\ pstatus' = [pstatus EXCEPT ![i] = "PAID"]
  /\ paid' = [paid EXCEPT ![i] = total[i]]
  /\ PostInvoice(i) /\ PostPayments(rows, due)
  /\ payment' = [q \in Payments |-> IF q \in due THEN [rows[q] EXCEPT !.posted = TRUE]
                                                 ELSE rows[q]]
  /\ UNCHANGED total

\* Faulty: deletes the payments and leaves their journals.
CancelUnreversed(i) ==
  /\ Exists(i) /\ status[i] # "CANCELLED"
  /\ DeletePayments(Live(i)) /\ UNCHANGED <<arPay, money>>
  /\ ReverseInvoice(i)
  /\ status' = [status EXCEPT ![i] = "CANCELLED"]
  /\ pstatus' = [pstatus EXCEPT ![i] = "UNPAID"]
  /\ paid' = [paid EXCEPT ![i] = 0]
  /\ UNCHANGED total

\* updateStatus to CANCELLED.
Cancel(i) ==
  /\ Exists(i) /\ status[i] # "CANCELLED"
  /\ ReversePayments(Live(i)) /\ DeletePayments(Live(i))
  /\ ReverseInvoice(i)
  /\ status' = [status EXCEPT ![i] = "CANCELLED"]
  /\ pstatus' = [pstatus EXCEPT ![i] = "UNPAID"]
  /\ paid' = [paid EXCEPT ![i] = 0]
  /\ UNCHANGED total

Unsend(i) ==
  /\ status[i] = "SENT" /\ NoPayments(i)
  /\ ReverseInvoice(i)
  /\ status' = [status EXCEPT ![i] = "DRAFT"]
  /\ UNCHANGED <<pstatus, paid, total>> /\ NoPaymentChange

\* What a settlement of amount leaves in the invoice row.
Settle(i, amount) ==
  LET full == paid[i] + amount >= total[i] IN
  /\ paid' = [paid EXCEPT ![i] = @ + amount]
  /\ pstatus' = [pstatus EXCEPT ![i] = IF full THEN "PAID" ELSE "PARTIAL"]
  /\ status' = [status EXCEPT ![i] = IF full THEN "PAID" ELSE @]

\* A new payment row of the invoice, and its journal.
Record(i, p, amount, linked) ==
  LET rows == [payment EXCEPT ![p] = Row(i, amount, linked, TRUE)] IN
  /\ payment[p].state = "unused"
  /\ Settle(i, amount) /\ payment' = rows /\ PostPayments(rows, {p})
  /\ UNCHANGED total

\* Faulty: posts the payment and not the invoice it settles.
RecordWithoutInvoice(i, p, amount, linked) ==
  /\ Exists(i) /\ status[i] # "CANCELLED" /\ pstatus[i] # "PAID"
  /\ amount <= total[i] - paid[i]
  /\ Record(i, p, amount, linked) /\ UNCHANGED <<journal, arInv, reversed>>

\* recordPayment / applyPayment.
RecordPayment(i, p, amount, linked) ==
  /\ Exists(i) /\ status[i] # "CANCELLED" /\ pstatus[i] # "PAID"
  /\ amount <= total[i] - paid[i]
  /\ Record(i, p, amount, linked) /\ PostInvoice(i)

\* create with payImmediately: the draft, then recordPayment of its total.
CreateCash(i, p, t) ==
  LET rows == [payment EXCEPT ![p] = Row(i, t, FALSE, TRUE)] IN
  /\ status[i] = "absent" /\ payment[p].state = "unused"
  /\ status' = [status EXCEPT ![i] = "PAID"]
  /\ pstatus' = [pstatus EXCEPT ![i] = "PAID"]
  /\ paid' = [paid EXCEPT ![i] = t]
  /\ total' = [total EXCEPT ![i] = t]
  /\ journal' = [journal EXCEPT ![i] = t]
  /\ arInv' = [arInv EXCEPT ![i] = @ + t]
  /\ payment' = rows /\ PostPayments(rows, {p})
  /\ UNCHANGED reversed

\* recalcAfterPayments: back to SENT, not to DRAFT, from PAID.
Recalc(i, newPaid) ==
  LET ps == IF newPaid = 0 THEN "UNPAID"
            ELSE IF newPaid >= total[i] THEN "PAID" ELSE "PARTIAL" IN
  /\ paid' = [paid EXCEPT ![i] = newPaid]
  /\ pstatus' = [pstatus EXCEPT ![i] = ps]
  /\ status' = [status EXCEPT ![i] = IF ps = "PAID" THEN "PAID"
                                     ELSE IF @ = "PAID" THEN "SENT" ELSE @]
  /\ UNCHANGED total

\* Faulty: adds up the payments before the reversed one is deleted.
ReverseBeforeDelete(i, p) ==
  /\ Exists(i) /\ status[i] # "CANCELLED" /\ p \in Live(i)
  /\ ReversePayments({p}) /\ DeletePayments({p})
  /\ Recalc(i, SumPaid(Live(i)))
  /\ UNCHANGED <<journal, arInv, reversed>>

ReversePayment(i, p) ==
  /\ Exists(i) /\ status[i] # "CANCELLED" /\ p \in Live(i)
  /\ ReversePayments({p}) /\ DeletePayments({p})
  /\ Recalc(i, SumPaid(Live(i) \ {p}))
  /\ UNCHANGED <<journal, arInv, reversed>>

\* Faulty: unpays the invoice and leaves its payment rows.
UnpayKeepingRows(i) ==
  /\ Exists(i) /\ status[i] # "CANCELLED" /\ ~NoPayments(i)
  /\ Recalc(i, 0)
  /\ NoPaymentChange
  /\ UNCHANGED <<journal, arInv, reversed>>

ReverseAllPayments(i) ==
  /\ Exists(i) /\ status[i] # "CANCELLED" /\ ~NoPayments(i)
  /\ ReversePayments(Live(i)) /\ DeletePayments(Live(i))
  /\ Recalc(i, 0)
  /\ UNCHANGED <<journal, arInv, reversed>>

Remove(i) ==
  /\ status[i] = "DRAFT" /\ NoPayments(i) /\ journal[i] = 0
  /\ status' = [status EXCEPT ![i] = "removed"]
  /\ UNCHANGED <<pstatus, paid, total, journal, ledgerVars>> /\ NoPaymentChange

(***************************************************************************)
(* payments.service.ts: the commit of an online bill of that amount, which *)
(* looks at what is left to pay and at nothing else of the invoice, and    *)
(* posts no journal.                                                       *)
(***************************************************************************)
FulfillOnline(i, p, requested) ==
  LET remaining == total[i] - paid[i]
      amount == IF requested <= remaining THEN requested ELSE remaining
  IN
  /\ Exists(i) /\ payment[p].state = "unused"
  /\ amount \in Nat \ {0}
  /\ payment' = [payment EXCEPT ![p] = Row(i, amount, FALSE, FALSE)]
  /\ Settle(i, amount)
  /\ UNCHANGED <<total, journal, ledgerVars>>

OnInvoice(i) ==
  \/ \E t \in Amounts : Create(i, t) \/ Update(i, t)
  \/ Send(i) \/ Cancel(i) \/ Unsend(i) \/ ReverseAllPayments(i) \/ Remove(i)
  \/ \E s \in {"DRAFT", "SENT"} : SetStatus(i, s)

OnPayment(i, p) ==
  \/ MarkPaid(i, p) \/ ReversePayment(i, p)
  \/ \E t \in Amounts : CreateCash(i, p, t)
  \/ \E a \in Amounts, l \in Links : RecordPayment(i, p, a, l)
  \/ \E a \in OnlineAmounts : FulfillOnline(i, p, a)

Next == \E i \in Invoices : OnInvoice(i) \/ \E p \in Payments : OnPayment(i, p)

Spec == Init /\ [][Next]_vars
-----------------------------------------------------------------------------
\* The books follow the documents: what an invoice's journals left on accounts
\* receivable is the journal its glJournalId names (none: nothing is left), and
\* a payment's journals left its amount while it is there and posted, and
\* nothing once it is reversed and deleted, over any sequence of requests.
BooksFollowReferences ==
  /\ \A i \in Invoices : arInv[i] = journal[i]
  /\ \A p \in Payments :
       arPay[p] = IF payment[p].state = "live" /\ payment[p].posted
                    THEN -payment[p].amount ELSE 0

\* However payments are recorded, marked, reversed and collected online, the
\* invoice and its payment rows agree: the rows never exceed paidAmount nor
\* paidAmount the total, both statuses say which case it is, a cancelled invoice
\* holds no payment but one collected online after it was cancelled, and
\* paidAmount never counts money without a row behind it (which findOne's repair
\* would turn into a "legacy" payment).
SettlementBounds ==
  \A i \in Invoices :
    /\ SumPaid(Live(i)) <= paid[i]
    /\ Exists(i) => paid[i] <= total[i]
    /\ pstatus[i] = IF paid[i] = 0 THEN "UNPAID"
                    ELSE IF paid[i] >= total[i] THEN "PAID" ELSE "PARTIAL"
    /\ status[i] = "PAID" <=> pstatus[i] = "PAID"
    /\ status[i] = "CANCELLED" => \A p \in Live(i) : ~payment[p].posted
    /\ paid[i] > 0 => Live(i) # {}

\* A reversed payment leaves nothing on the money accounts; but one that was
\* posted to a linked bank account, whose reversal is on the account of its
\* method, leaves its amount on the one and its opposite on the other.
ReversalRestoresMoney ==
  \A p \in Payments : payment[p].state = "deleted" =>
    LET off == IF payment[p].linked THEN payment[p].amount ELSE 0 IN
    money[p] = [a \in MoneyAccounts |-> IF a = "linked" THEN off ELSE -off]

\* An invoice is in the ledger as long as a posted payment of it is, through
\* every order of unsending, cancelling and reversing, and out of it once it is
\* cancelled: only an invoice that was reversed before, whose REV-INV entry is
\* found and taken for this one's, keeps its receivable.
CollectionIsPosted ==
  \A i \in Invoices :
    /\ \A p \in Live(i) : payment[p].posted => journal[i] # 0
    /\ status[i] = "CANCELLED" /\ journal[i] # 0 => i \in reversed

\* A posted receivable never changes its amount by an edit: between posting and
\* reversal the journal stays what it was.
PostedIsFrozen ==
  [][\A i \in Invoices :
       journal[i] # 0 /\ journal'[i] # journal[i] =>
         journal'[i] = 0 /\ i \in reversed' \ reversed]_vars

\* Money counted as paid is only taken back with a payment row it came from.
PaidOnlyDropsByReversal ==
  [][\A i \in Invoices : paid'[i] < paid[i] =>
       \E p \in Live(i) : payment'[p].state = "deleted"]_vars
=============================================================================
