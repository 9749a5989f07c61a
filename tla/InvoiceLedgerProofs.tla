------------------------ MODULE InvoiceLedgerProofs -------------------------
(***************************************************************************)
(* Invoices, payments and the ledger agree, for any invoices, payments and *)
(* amounts. The ledger is kept per document and needs no sum; what an      *)
(* invoice's payment rows add up to is proved with the lemmas on sums.     *)
(***************************************************************************)
EXTENDS InvoiceLedger, FiniteSetTheorems, TLAPS

LedgerType ==
  /\ status \in [Invoices -> Statuses] /\ total \in [Invoices -> Amounts]
  /\ journal \in [Invoices -> Nat] /\ arInv \in [Invoices -> Int]
  /\ payment \in [Payments -> PaymentRow] /\ arPay \in [Payments -> Int]

\* An invoice that was never created has posted nothing.
AbsentUnposted == \A i \in Invoices : status[i] = "absent" => journal[i] = 0

InvoiceBooks == \A i \in Invoices : arInv[i] = journal[i]

Entry(row) == IF row.state = "live" /\ row.posted THEN -row.amount ELSE 0
PaymentBooks == \A p \in Payments : arPay[p] = Entry(payment[p])

IInv == LedgerType /\ AbsentUnposted /\ InvoiceBooks /\ PaymentBooks

\* The half of the state an invoice's own journals change, and the half the
\* journals of its payments change.
InvoiceSide == /\ journal \in [Invoices -> Nat] /\ arInv \in [Invoices -> Int]
               /\ InvoiceBooks
PaymentSide == /\ payment \in [Payments -> PaymentRow]
               /\ arPay \in [Payments -> Int] /\ PaymentBooks

-----------------------------------------------------------------------------
\* Posting an invoice moves receivable and glJournalId together.
LEMMA PostInvoiceKeeps ==
  ASSUME IInv, NEW i \in Invoices, PostInvoice(i)
  PROVE  InvoiceSide' /\ \A j \in Invoices \ {i} : journal'[j] = journal[j]
<1>1. total[i] \in Nat
  BY LedgerConstants DEF IInv, LedgerType
<1> QED BY <1>1 DEF PostInvoice, InvoiceSide, InvoiceBooks, IInv, LedgerType

\* Reversing an invoice moves both back, or neither.
LEMMA ReverseInvoiceKeeps ==
  ASSUME IInv, NEW i \in Invoices, ReverseInvoice(i)
  PROVE  InvoiceSide' /\ \A j \in Invoices \ {i} : journal'[j] = journal[j]
  BY DEF ReverseInvoice, InvoiceSide, InvoiceBooks, IInv, LedgerType

\* A request that posts nothing keeps either side.
LEMMA SameInvoiceSide ==
  ASSUME IInv, UNCHANGED <<journal, arInv>>
  PROVE  InvoiceSide'
  BY DEF InvoiceSide, InvoiceBooks, IInv, LedgerType

LEMMA SamePaymentSide ==
  ASSUME IInv, UNCHANGED <<payment, arPay>>
  PROVE  PaymentSide'
  BY DEF PaymentSide, PaymentBooks, IInv, LedgerType

\* Reversing the journals of payments and deleting their rows leaves the
\* receivable as if they had never been there.
LEMMA ReverseDeleteKeeps ==
  ASSUME IInv, NEW ps \in SUBSET Payments, \A p \in ps : payment[p].state = "live",
         ReversePayments(ps), DeletePayments(ps)
  PROVE  PaymentSide'
<1>1. payment' \in [Payments -> PaymentRow]
  BY DEF DeletePayments, PaymentRow, IInv, LedgerType
<1>2. arPay' \in [Payments -> Int]
  BY DEF ReversePayments, PaymentRow, IInv, LedgerType
<1>3. ASSUME NEW p \in Payments PROVE arPay'[p] = Entry(payment'[p])
  <2>1. CASE p \in ps
    <3>1. payment[p] \in PaymentRow /\ arPay[p] = Entry(payment[p])
      BY DEF IInv, LedgerType, PaymentBooks
    <3>2. arPay'[p] = IF payment[p].posted THEN arPay[p] + payment[p].amount
                                           ELSE arPay[p]
      BY <2>1 DEF ReversePayments
    <3>3. arPay'[p] = 0
      BY <2>1, <3>1, <3>2 DEF Entry, PaymentRow
    <3>4. payment'[p].state = "deleted"
      BY <2>1, <3>1 DEF DeletePayments, PaymentRow
    <3> QED BY <3>3, <3>4 DEF Entry
  <2>2. CASE p \notin ps
    BY <2>2 DEF ReversePayments, DeletePayments, IInv, PaymentBooks, Entry
  <2> QED BY <2>1, <2>2
<1> QED BY <1>1, <1>2, <1>3 DEF PaymentSide, PaymentBooks

\* What posting the rows ps takes off accounts receivable, payment by payment.
LEMMA PostPaymentsEffect ==
  ASSUME NEW row, NEW ps, arPay \in [Payments -> Int],
         \A p \in Payments : p \in ps => row[p].amount \in Nat,
         PostPayments(row, ps)
  PROVE  /\ arPay' \in [Payments -> Int]
         /\ \A p \in Payments :
              arPay'[p] = IF p \in ps THEN arPay[p] - row[p].amount ELSE arPay[p]
<1>1. arPay' = [p \in Payments |-> IF p \in ps THEN arPay[p] - row[p].amount
                                              ELSE arPay[p]]
  BY DEF PostPayments
<1>2. ASSUME NEW p \in Payments
      PROVE  (IF p \in ps THEN arPay[p] - row[p].amount ELSE arPay[p]) \in Int
  <2>1. CASE p \in ps
    <3>1. row[p].amount \in Int
      BY <2>1
    <3> QED BY <2>1, <3>1
  <2> QED BY <2>1
<1> QED BY <1>1, <1>2

\* A new payment row, posted as it is recorded.
LEMMA RecordKeeps ==
  ASSUME IInv, NEW p \in Payments, NEW i \in Invoices, NEW amount \in Nat,
         NEW linked \in BOOLEAN, payment[p].state = "unused",
         NEW row, row = [payment EXCEPT ![p] = Row(i, amount, linked, TRUE)],
         payment' = row, PostPayments(row, {p})
  PROVE  PaymentSide'
<1>1. row \in [Payments -> PaymentRow] /\ row[p] = Row(i, amount, linked, TRUE)
  BY DEF Row, PaymentRow, IInv, LedgerType
<1>2. arPay[p] = 0
  BY DEF IInv, PaymentBooks, Entry
<1>3. row[p].amount = amount
  BY <1>1 DEF Row
<1>4. /\ arPay' \in [Payments -> Int]
      /\ \A q \in Payments : arPay'[q] = IF q \in {p} THEN arPay[q] - row[q].amount
                                                     ELSE arPay[q]
  <2>1. arPay \in [Payments -> Int]
    BY DEF IInv, LedgerType
  <2> DEFINE ps == {p}
             rows == row
  <2>2. \A q \in Payments : q \in ps => rows[q].amount \in Nat
    BY <1>3
  <2>3. PostPayments(rows, ps)
    OBVIOUS
  <2> HIDE DEF ps, rows
  <2>4. /\ arPay' \in [Payments -> Int]
        /\ \A q \in Payments : arPay'[q] = IF q \in ps THEN arPay[q] - rows[q].amount
                                                      ELSE arPay[q]
    BY <2>1, <2>2, <2>3, PostPaymentsEffect
  <2> QED BY <2>4 DEF ps, rows
<1>5. arPay'[p] = -amount
  <2>1. arPay'[p] = 0 - amount
    BY <1>2, <1>3, <1>4
  <2> QED BY <2>1
<1>6. ASSUME NEW q \in Payments PROVE arPay'[q] = Entry(row[q])
  <2>1. CASE q = p
    BY <1>1, <1>5, <2>1 DEF Entry, Row
  <2>2. CASE q # p
    BY <1>4, <2>2 DEF IInv, LedgerType, PaymentBooks
  <2> QED BY <2>1, <2>2
<1> QED BY <1>1, <1>4, <1>6 DEF PaymentSide, PaymentBooks

-----------------------------------------------------------------------------
\* Marking an invoice PAID posts the rows that were not posted, a new one too.
LEMMA MarkPaidKeeps ==
  ASSUME IInv, NEW i \in Invoices, NEW p \in Payments, MarkPaid(i, p)
  PROVE  PaymentSide'
<1> DEFINE rows == IF Live(i) = {}
                     THEN [payment EXCEPT ![p] = Row(i, total[i], FALSE, FALSE)]
                     ELSE payment
           due == {q \in Payments : /\ rows[q].state = "live" /\ rows[q].of = i
                                    /\ ~rows[q].posted}
<1> USE DEF IInv, LedgerType
<1>1. total[i] \in Nat
  BY LedgerConstants
<1>2. rows \in [Payments -> PaymentRow]
  BY <1>1 DEF Row, PaymentRow
<1>3. /\ PostPayments(rows, due)
      /\ payment' = [q \in Payments |-> IF q \in due
                       THEN [rows[q] EXCEPT !.posted = TRUE] ELSE rows[q]]
  BY DEF MarkPaid
<1>4. payment' \in [Payments -> PaymentRow]
  <2>1. ASSUME NEW q \in Payments
        PROVE  [rows[q] EXCEPT !.posted = TRUE] \in PaymentRow
    BY <1>2 DEF PaymentRow
  <2> HIDE DEF rows, due
  <2> QED BY <1>2, <1>3, <2>1
<1>5. \A q \in Payments : rows[q].amount \in Nat
  BY <1>2 DEF PaymentRow
<1>6. /\ arPay' \in [Payments -> Int]
      /\ \A q \in Payments : arPay'[q] = IF q \in due THEN arPay[q] - rows[q].amount
                                                     ELSE arPay[q]
  <2> HIDE DEF rows, due
  <2> QED BY <1>3, <1>5, PostPaymentsEffect
<1>8. \A q \in Payments : arPay[q] = Entry(rows[q])
  <2>1. CASE Live(i) = {}
    <3>1. payment[p].state = "unused"
      BY <2>1 DEF MarkPaid
    <3>2. arPay[p] = 0
      BY <3>1 DEF PaymentBooks, Entry
    <3>3. Entry(rows[p]) = 0
      BY <2>1 DEF Entry, Row
    <3>4. \A q \in Payments \ {p} : rows[q] = payment[q]
      BY <2>1
    <3> QED BY <3>2, <3>3, <3>4 DEF PaymentBooks
  <2>2. CASE Live(i) # {}
    BY <2>2 DEF PaymentBooks
  <2> QED BY <2>1, <2>2
<1>9. ASSUME NEW q \in Payments PROVE arPay'[q] = Entry(payment'[q])
  <2>1. CASE q \in due
    <3>1. arPay[q] = 0
      BY <1>8, <2>1 DEF Entry
    <3>2. arPay'[q] = 0 - rows[q].amount
      BY <1>6, <2>1, <3>1
    <3>3. payment'[q].state = "live" /\ payment'[q].posted
          /\ payment'[q].amount = rows[q].amount
      BY <1>2, <1>3, <2>1 DEF PaymentRow
    <3>4. -rows[q].amount = 0 - rows[q].amount
      <4>1. \A n \in Nat : -n = 0 - n
        OBVIOUS
      <4> HIDE DEF rows
      <4> QED BY <1>5, <4>1
    <3> QED BY <3>2, <3>3, <3>4 DEF Entry
  <2>2. CASE q \notin due
    BY <1>3, <1>6, <1>8, <2>2
  <2> QED BY <2>1, <2>2
<1> QED BY <1>4, <1>6, <1>9 DEF PaymentSide, PaymentBooks

\* An online payment row comes unposted and leaves the ledger alone.
LEMMA OnlineKeeps ==
  ASSUME IInv, NEW i \in Invoices, NEW p \in Payments, NEW r \in OnlineAmounts,
         FulfillOnline(i, p, r)
  PROVE  PaymentSide'
<1>1. PICK amount \in Nat : payment' = [payment EXCEPT ![p] = Row(i, amount, FALSE, FALSE)]
  BY DEF FulfillOnline
<1>2. payment[p].state = "unused" /\ arPay' = arPay
  BY DEF FulfillOnline, ledgerVars
<1>3. payment' \in [Payments -> PaymentRow]
  BY <1>1 DEF Row, PaymentRow, IInv, LedgerType
<1>4. arPay[p] = 0
  BY <1>2 DEF IInv, PaymentBooks, Entry
<1>5. ASSUME NEW q \in Payments PROVE arPay'[q] = Entry(payment'[q])
  <2>1. CASE q = p
    BY <1>1, <1>2, <1>4, <2>1 DEF Entry, Row, IInv, LedgerType
  <2>2. CASE q # p
    BY <1>1, <1>2, <2>2 DEF IInv, LedgerType, PaymentBooks
  <2> QED BY <2>1, <2>2
<1> QED BY <1>2, <1>3, <1>5 DEF PaymentSide, PaymentBooks, IInv, LedgerType

-----------------------------------------------------------------------------
LEMMA InitIInv == Init => IInv
<1> SUFFICES ASSUME Init PROVE IInv
  OBVIOUS
<1>1. payment \in [Payments -> PaymentRow]
  BY LedgerConstants DEF Init, PaymentRow
<1> QED BY <1>1, LedgerConstants DEF Init, Statuses, IInv, LedgerType, AbsentUnposted,
        InvoiceBooks, PaymentBooks, Entry

LEMMA NextIInv == IInv /\ [Next]_vars => IInv'
<1> SUFFICES ASSUME IInv, [Next]_vars PROVE IInv'
  OBVIOUS
<1> USE DEF vars, invoiceVars, ledgerVars
<1>s. status' \in [Invoices -> Statuses]
  <2>1. ASSUME NEW i \in Invoices, NEW s \in Statuses, status' = [status EXCEPT ![i] = s]
        PROVE  status' \in [Invoices -> Statuses]
    BY <2>1 DEF IInv, LedgerType
  <2>2. ASSUME NEW i \in Invoices, OnInvoice(i) PROVE status' \in [Invoices -> Statuses]
    BY <2>2, <2>1 DEF OnInvoice, Create, Update, Send, SetStatus, Cancel, Unsend,
       ReverseAllPayments, Recalc, Remove, Statuses, IInv, LedgerType
  <2>3. ASSUME NEW i \in Invoices, NEW p \in Payments, OnPayment(i, p)
        PROVE  status' \in [Invoices -> Statuses]
    BY <2>3, <2>1 DEF OnPayment, MarkPaid, ReversePayment, Recalc, CreateCash,
       RecordPayment, Record, FulfillOnline, Settle, Statuses, IInv, LedgerType
  <2>4. CASE UNCHANGED vars
    BY <2>4 DEF IInv, LedgerType
  <2> QED BY <2>2, <2>3, <2>4 DEF Next
<1>0. ASSUME total' \in [Invoices -> Amounts], InvoiceSide', PaymentSide',
             AbsentUnposted'
      PROVE  IInv'
  BY <1>0, <1>s DEF IInv, LedgerType, InvoiceSide, PaymentSide
<1>1. ASSUME NEW i \in Invoices, OnInvoice(i) PROVE IInv'
  <2>1. ASSUME NEW t \in Amounts, Create(i, t) \/ Update(i, t) PROVE IInv'
    <3>1. total' \in [Invoices -> Amounts]
      BY <2>1 DEF Create, Update, IInv, LedgerType
    <3>2. AbsentUnposted'
      BY <2>1 DEF Create, Update, AbsentUnposted, IInv, LedgerType
    <3> QED BY <2>1, <3>1, <3>2, <1>0, SameInvoiceSide, SamePaymentSide
            DEF Create, Update, NoPaymentChange
  <2>2. ASSUME Send(i) \/ Unsend(i) \/ \E s \in {"DRAFT", "SENT"} : SetStatus(i, s)
        PROVE  IInv'
    <3>1. \/ PostInvoice(i) \/ ReverseInvoice(i) \/ UNCHANGED <<journal, arInv>>
      BY <2>2 DEF Send, Unsend, SetStatus
    <3>2. InvoiceSide'
      BY <3>1, PostInvoiceKeeps, ReverseInvoiceKeeps, SameInvoiceSide
    <3>3. \A j \in Invoices \ {i} : journal'[j] = journal[j]
      BY <3>1, PostInvoiceKeeps, ReverseInvoiceKeeps
    <3>4. status'[i] # "absent" \/ journal'[i] = journal[i]
      BY <2>2 DEF Send, Unsend, SetStatus, Exists, IInv, LedgerType
    <3>5. \A j \in Invoices : status'[j] = "absent" => status[j] = "absent" /\ j # i
      BY <2>2 DEF Send, Unsend, SetStatus, Exists, IInv, LedgerType
    <3>6. AbsentUnposted'
      BY <3>3, <3>5 DEF AbsentUnposted, IInv, LedgerType
    <3>7. total' = total /\ UNCHANGED <<payment, arPay>>
      BY <2>2 DEF Send, Unsend, SetStatus, NoPaymentChange
    <3> QED BY <1>0, <3>2, <3>6, <3>7, SamePaymentSide DEF IInv, LedgerType
  <2>3. CASE Cancel(i)
    <3>1. PaymentSide'
      BY <2>3, ReverseDeleteKeeps DEF Cancel, Live
    <3>2. InvoiceSide' /\ \A j \in Invoices \ {i} : journal'[j] = journal[j]
      BY <2>3, ReverseInvoiceKeeps DEF Cancel
    <3>3. \A j \in Invoices : status'[j] = "absent" => status[j] = "absent" /\ j # i
      BY <2>3 DEF Cancel, Exists, IInv, LedgerType
    <3>4. AbsentUnposted'
      BY <3>2, <3>3 DEF AbsentUnposted, IInv, LedgerType
    <3> QED BY <1>0, <2>3, <3>1, <3>2, <3>4 DEF Cancel, IInv, LedgerType
  <2>4. CASE ReverseAllPayments(i)
    <3>1. PaymentSide'
      BY <2>4, ReverseDeleteKeeps DEF ReverseAllPayments, Live
    <3>2. AbsentUnposted'
      BY <2>4 DEF ReverseAllPayments, Recalc, AbsentUnposted, IInv, LedgerType, Exists
    <3> QED BY <1>0, <2>4, <3>1, <3>2, SameInvoiceSide
            DEF ReverseAllPayments, Recalc, IInv, LedgerType
  <2>5. CASE Remove(i)
    <3>1. AbsentUnposted'
      BY <2>5 DEF Remove, AbsentUnposted, IInv, LedgerType
    <3> QED BY <1>0, <2>5, <3>1, SameInvoiceSide, SamePaymentSide
            DEF Remove, NoPaymentChange, IInv, LedgerType
  <2> QED BY <1>1, <2>1, <2>2, <2>3, <2>4, <2>5 DEF OnInvoice
<1>2. ASSUME NEW i \in Invoices, NEW p \in Payments, OnPayment(i, p) PROVE IInv'
  <2>1. CASE MarkPaid(i, p)
    <3>1. PaymentSide'
      BY <2>1, MarkPaidKeeps
    <3>2. InvoiceSide' /\ \A j \in Invoices \ {i} : journal'[j] = journal[j]
      BY <2>1, PostInvoiceKeeps DEF MarkPaid
    <3>3. AbsentUnposted'
      BY <2>1, <3>2 DEF MarkPaid, Exists, AbsentUnposted, IInv, LedgerType
    <3> QED BY <1>0, <2>1, <3>1, <3>2, <3>3 DEF MarkPaid, IInv, LedgerType
  <2>2. CASE ReversePayment(i, p)
    <3>1. PaymentSide'
      BY <2>2, ReverseDeleteKeeps DEF ReversePayment, Live
    <3>2. AbsentUnposted'
      BY <2>2 DEF ReversePayment, Recalc, AbsentUnposted, IInv, LedgerType, Exists
    <3> QED BY <1>0, <2>2, <3>1, <3>2, SameInvoiceSide
            DEF ReversePayment, Recalc, IInv, LedgerType
  <2>3. ASSUME NEW t \in Amounts, CreateCash(i, p, t) PROVE IInv'
    <3>1. t \in Nat /\ journal[i] = 0 /\ arInv[i] = 0
      BY <2>3, LedgerConstants DEF CreateCash, IInv, AbsentUnposted, InvoiceBooks
    <3>2. PaymentSide'
      BY <2>3, <3>1, RecordKeeps DEF CreateCash
    <3>3. InvoiceSide'
      BY <2>3, <3>1 DEF CreateCash, InvoiceSide, InvoiceBooks, IInv, LedgerType
    <3>4. AbsentUnposted' /\ total' \in [Invoices -> Amounts]
      BY <2>3 DEF CreateCash, AbsentUnposted, IInv, LedgerType
    <3> QED BY <1>0, <3>2, <3>3, <3>4
  <2>4. ASSUME NEW a \in Amounts, NEW l \in Links, RecordPayment(i, p, a, l)
        PROVE  IInv'
    <3>1. a \in Nat /\ l \in BOOLEAN
      BY LedgerConstants
    <3>2. PaymentSide'
      BY <2>4, <3>1, RecordKeeps DEF RecordPayment, Record
    <3>3. InvoiceSide' /\ \A j \in Invoices \ {i} : journal'[j] = journal[j]
      BY <2>4, PostInvoiceKeeps DEF RecordPayment
    <3>4. \A j \in Invoices : status'[j] = "absent" => status[j] = "absent" /\ j # i
      BY <2>4 DEF RecordPayment, Record, Settle, Exists, IInv, LedgerType
    <3>5. AbsentUnposted'
      BY <3>3, <3>4 DEF AbsentUnposted, IInv, LedgerType
    <3> QED BY <1>0, <2>4, <3>2, <3>3, <3>5 DEF RecordPayment, Record, IInv, LedgerType
  <2>5. ASSUME NEW a \in OnlineAmounts, FulfillOnline(i, p, a) PROVE IInv'
    <3>1. PaymentSide'
      BY <2>5, OnlineKeeps
    <3>2. AbsentUnposted'
      BY <2>5 DEF FulfillOnline, Settle, AbsentUnposted, IInv, LedgerType, Exists
    <3> QED BY <1>0, <2>5, <3>1, <3>2, SameInvoiceSide
            DEF FulfillOnline, IInv, LedgerType
  <2> QED BY <1>2, <2>1, <2>2, <2>3, <2>4, <2>5 DEF OnPayment
<1>3. CASE UNCHANGED vars
  BY <1>3 DEF IInv, LedgerType, AbsentUnposted, InvoiceBooks, PaymentBooks
<1> QED BY <1>1, <1>2, <1>3 DEF Next

\* Over any sequence of the invoice's operations, what its journals left in
\* accounts receivable is what the documents refer to, and every reversed
\* payment has left nothing.
THEOREM BooksFollow == Spec => []BooksFollowReferences
<1>1. IInv => BooksFollowReferences
  BY DEF IInv, InvoiceBooks, PaymentBooks, Entry, BooksFollowReferences
<1> QED BY <1>1, InitIInv, NextIInv, PTL DEF Spec

-----------------------------------------------------------------------------
(***************************************************************************)
(* Sums over finite sets. SumFunctionOnSet is a recursive function over    *)
(* the subsets of its set; what it computes is proved with the             *)
(* well-foundedness of the strict subset order.                            *)
(***************************************************************************)
\* One unfolding of the recursion behind SumFunctionOnSet.
SumBody(f, g, s) ==
  IF s = {} THEN 0 ELSE f[CHOOSE x \in s : TRUE] + g[s \ {CHOOSE x \in s : TRUE}]
IsSum(f, S, g) == g = [s \in SUBSET S |-> SumBody(f, g, s)]

\* What the library's sum unfolds to.
LEMMA SumIs ==
  ASSUME NEW f, NEW S
  PROVE  SumFunctionOnSet(f, S) = (CHOOSE g : IsSum(f, S, g))[S]
BY DEF SumFunctionOnSet, FoldFunctionOnSet, MapThenFoldSet, IsSum, SumBody

\* A family of subsets of a finite set has a smallest member.
LEMMA SmallestSubset ==
  ASSUME NEW S, IsFiniteSet(S), NEW F \in SUBSET SUBSET S, F # {}
  PROVE  \E T \in F : \A U \in F : ~(U \subseteq T /\ U # T)
<1> DEFINE R == StrictSubsetOrdering(S)
<1>1. IsWellFoundedOn(R, SUBSET S)
  BY FS_StrictSubsetOrderingWellFounded, FS_FiniteSubsetsOfFinite
<1>2. \E T \in F : \A U \in F : ~(<<U, T>> \in R)
  <2> HIDE DEF R
  <2> QED BY <1>1, WFMin
<1> QED BY <1>2 DEF StrictSubsetOrdering

\* A sum function of a set is, restricted, one of each of its subsets.
LEMMA SumRestricts ==
  ASSUME NEW f, NEW S, NEW g, IsSum(f, S, g), NEW T \in SUBSET S
  PROVE  IsSum(f, T, [s \in SUBSET T |-> g[s]])
<1> DEFINE h == [s \in SUBSET T |-> g[s]]
<1>1. ASSUME NEW s \in SUBSET T PROVE h[s] = SumBody(f, h, s)
  <2>1. h[s] = g[s] /\ g[s] = SumBody(f, g, s)
    BY DEF IsSum
  <2>2. s # {} => h[s \ {CHOOSE x \in s : TRUE}] = g[s \ {CHOOSE x \in s : TRUE}]
    OBVIOUS
  <2> QED BY <2>1, <2>2 DEF SumBody
<1> QED BY <1>1 DEF IsSum

\* A finite set has one sum function, and it exists.
LEMMA SumUnique ==
  ASSUME NEW f, NEW S, IsFiniteSet(S), NEW g, NEW h, IsSum(f, S, g), IsSum(f, S, h)
  PROVE  g = h
<1> DEFINE F == {s \in SUBSET S : g[s] # h[s]}
<1>1. CASE F = {}
  BY <1>1 DEF IsSum
<1>2. CASE F # {}
  <2>0. F \in SUBSET SUBSET S
    OBVIOUS
  <2>1. PICK s \in F : \A U \in F : ~(U \subseteq s /\ U # s)
    <3> HIDE DEF F
    <3> QED BY <1>2, <2>0, SmallestSubset
  <2>2. g[s] = SumBody(f, g, s) /\ h[s] = SumBody(f, h, s)
    BY DEF IsSum
  <2>3. s # {}
    BY <2>2 DEF SumBody
  <2> DEFINE x == CHOOSE x \in s : TRUE
  <2>4. x \in s
    BY <2>3
  <2>5. s \ {x} \in SUBSET S /\ s \ {x} \notin F
    BY <2>1, <2>4
  <2> QED BY <2>2, <2>3, <2>5 DEF SumBody
<1> QED BY <1>1, <1>2

Iter(f, S) == CHOOSE g : IsSum(f, S, g)

LEMMA SumExists ==
  ASSUME NEW f, NEW S, IsFiniteSet(S)
  PROVE  IsSum(f, S, Iter(f, S))
<1> DEFINE F == {T \in SUBSET S : ~\E g : IsSum(f, T, g)}
<1>1. SUFFICES F = {}
  <2>1. S \notin F
    BY <1>1
  <2> QED BY <2>1 DEF Iter
<1>2. SUFFICES ASSUME F # {} PROVE FALSE
  OBVIOUS
<1>3. PICK T \in F : \A U \in F : ~(U \subseteq T /\ U # T)
  <2>1. F \in SUBSET SUBSET S
    OBVIOUS
  <2> HIDE DEF F
  <2> QED BY <1>2, <2>1, SmallestSubset
<1>4. ASSUME NEW U \in SUBSET T, U # T PROVE IsSum(f, U, Iter(f, U)) /\ IsFiniteSet(U)
  <2>1. U \notin F /\ U \in SUBSET S
    BY <1>3, <1>4
  <2>2. IsFiniteSet(U)
    BY <2>1, FS_Subset
  <2> QED BY <2>1, <2>2 DEF Iter
<1> DEFINE W == [s \in SUBSET T |-> Iter(f, s)[s]]
           V == [s \in SUBSET T |-> IF s = T THEN SumBody(f, W, T) ELSE W[s]]
<1>5. ASSUME NEW U \in SUBSET T, U # T PROVE W[U] = SumBody(f, W, U)
  <2>1. W[U] = Iter(f, U)[U]
    OBVIOUS
  <2>2. Iter(f, U)[U] = SumBody(f, Iter(f, U), U)
    <3> DEFINE g == Iter(f, U)
    <3>1. IsSum(f, U, g)
      BY <1>4, <1>5
    <3> HIDE DEF g
    <3>2. g[U] = SumBody(f, g, U)
      BY <3>1 DEF IsSum
    <3> QED BY <3>2 DEF g
  <2>3. ASSUME U # {} PROVE Iter(f, U)[U \ {CHOOSE x \in U : TRUE}] = W[U \ {CHOOSE x \in U : TRUE}]
    <3> DEFINE x == CHOOSE x \in U : TRUE
               R == U \ {x}
               g == Iter(f, U)
               h == [s \in SUBSET R |-> g[s]]
    <3>1. x \in U /\ R \in SUBSET T /\ R # T /\ R \in SUBSET U
      BY <2>3, <1>5
    <3>2. IsSum(f, R, h)
      BY <1>4, <1>5, <3>1, SumRestricts
    <3>3. IsSum(f, R, Iter(f, R)) /\ IsFiniteSet(R)
      BY <1>4, <3>1
    <3>4. h = Iter(f, R)
      BY <3>2, <3>3, SumUnique
    <3>5. h[R] = g[R] /\ W[R] = Iter(f, R)[R]
      BY <3>1
    <3> QED BY <3>4, <3>5
  <2> QED BY <2>1, <2>2, <2>3 DEF SumBody
<1>6. ASSUME NEW s \in SUBSET T PROVE V[s] = SumBody(f, V, s)
  <2> DEFINE x == CHOOSE x \in s : TRUE
  <2>1. V[s] = SumBody(f, W, s)
    BY <1>5
  <2>2. s # {} => V[s \ {x}] = W[s \ {x}]
    <3>1. s # {} => x \in s
      OBVIOUS
    <3>2. s # {} => s \ {x} # T /\ s \ {x} \in SUBSET T
      BY <3>1
    <3> QED BY <3>2
  <2> HIDE DEF W, V
  <2> QED BY <2>1, <2>2 DEF SumBody
<1>7. IsSum(f, T, V)
  BY <1>6 DEF IsSum
<1> QED BY <1>3, <1>7

\* The sum of a finite set: nothing, or the chosen element's term and the rest.
LEMMA SumRec ==
  ASSUME NEW f, NEW S, IsFiniteSet(S)
  PROVE  /\ S = {} => SumFunctionOnSet(f, S) = 0
         /\ S # {} => \E x \in S : SumFunctionOnSet(f, S) = f[x] + SumFunctionOnSet(f, S \ {x})
<1> DEFINE g == Iter(f, S)
<1>1. IsSum(f, S, g) /\ SumFunctionOnSet(f, S) = g[S]
  BY SumExists, SumIs DEF Iter
<1>2. g[S] = SumBody(f, g, S)
  <2> HIDE DEF g
  <2> QED BY <1>1 DEF IsSum
<1>3. S = {} => SumFunctionOnSet(f, S) = 0
  BY <1>1, <1>2 DEF SumBody
<1>4. ASSUME S # {}
      PROVE  \E x \in S : SumFunctionOnSet(f, S) = f[x] + SumFunctionOnSet(f, S \ {x})
  <2> DEFINE x == CHOOSE x \in S : TRUE
             R == S \ {x}
             h == [s \in SUBSET R |-> g[s]]
  <2>1. x \in S /\ R \in SUBSET S
    BY <1>4
  <2>2. IsFiniteSet(R)
    BY <2>1, FS_Subset
  <2>3. IsSum(f, R, h)
    BY <1>1, <2>1, SumRestricts
  <2>4. IsSum(f, R, Iter(f, R)) /\ SumFunctionOnSet(f, R) = Iter(f, R)[R]
    BY <2>2, SumExists, SumIs DEF Iter
  <2>5. h = Iter(f, R)
    BY <2>2, <2>3, <2>4, SumUnique
  <2>6. g[R] = SumFunctionOnSet(f, R)
    BY <2>4, <2>5
  <2> QED BY <1>1, <1>2, <1>4, <2>1, <2>6 DEF SumBody
<1> QED BY <1>3, <1>4

\* The order does not matter: any element's term may be taken out first.
LEMMA SumRemove ==
  ASSUME NEW S, IsFiniteSet(S), NEW f, \A x \in S : f[x] \in Int
  PROVE  /\ SumFunctionOnSet(f, S) \in Int
         /\ \A y \in S : SumFunctionOnSet(f, S) = f[y] + SumFunctionOnSet(f, S \ {y})
<1> DEFINE Sum(T) == SumFunctionOnSet(f, T)
           Good(T) == Sum(T) \in Int /\ \A y \in T : Sum(T) = f[y] + Sum(T \ {y})
           F == {T \in SUBSET S : ~Good(T)}
<1> HIDE DEF Sum
<1>1. CASE F = {}
  BY <1>1 DEF Sum
<1>2. CASE F # {}
  <2>0. F \in SUBSET SUBSET S
    OBVIOUS
  <2>1. PICK T \in F : \A U \in F : ~(U \subseteq T /\ U # T)
    <3> HIDE DEF F
    <3> QED BY <1>2, <2>0, SmallestSubset
  <2>2. IsFiniteSet(T) /\ T \in SUBSET S
    BY FS_Subset
  <2>3. ASSUME NEW y \in T PROVE Good(T \ {y})
    BY <2>1
  <2>4. CASE T = {}
    BY <2>2, <2>4, SumRec DEF Sum
  <2>5. CASE T # {}
    <3>1. PICK x \in T : Sum(T) = f[x] + Sum(T \ {x})
      BY <2>2, <2>5, SumRec DEF Sum
    <3>2. Sum(T \ {x}) \in Int /\ f[x] \in Int
      BY <2>2, <2>3
    <3>3. ASSUME NEW y \in T, y # x PROVE Sum(T) = f[y] + Sum(T \ {y})
      <4>1. Sum(T \ {x}) = f[y] + Sum((T \ {x}) \ {y})
        BY <2>3, <3>3
      <4>2. Sum(T \ {y}) = f[x] + Sum((T \ {y}) \ {x})
        BY <2>3, <3>3
      <4>3. (T \ {x}) \ {y} = (T \ {y}) \ {x}
        OBVIOUS
      <4>4. Sum((T \ {x}) \ {y}) \in Int
        <5>1. (T \ {x}) \ {y} \notin F
          BY <2>1
        <5> QED BY <2>2, <5>1
      <4>5. f[y] \in Int
        BY <2>2
      <4> DEFINE a == f[x]
                 b == f[y]
                 rest == Sum((T \ {x}) \ {y})
      <4>6. Sum(T) = a + (b + rest) /\ Sum(T \ {y}) = a + rest
        BY <3>1, <4>1, <4>2, <4>3
      <4>7. a \in Int /\ b \in Int /\ rest \in Int
        BY <3>2, <4>4, <4>5
      <4> HIDE DEF a, b, rest
      <4>8. a + (b + rest) = b + (a + rest)
        BY ONLY <4>7
      <4> QED BY <4>6, <4>8 DEF b
    <3>4. Sum(T) \in Int
      BY <3>1, <3>2
    <3>5. Good(T)
      BY <3>1, <3>3, <3>4
    <3> QED BY <3>5
  <2> QED BY <2>4, <2>5
<1> QED BY <1>1, <1>2

\* Equal terms have equal sums.
LEMMA SumSame ==
  ASSUME NEW S, IsFiniteSet(S), NEW f, NEW g, \A x \in S : f[x] \in Int /\ g[x] = f[x]
  PROVE  SumFunctionOnSet(g, S) = SumFunctionOnSet(f, S)
<1> DEFINE F == {T \in SUBSET S : SumFunctionOnSet(g, T) # SumFunctionOnSet(f, T)}
<1>1. CASE F = {}
  BY <1>1
<1>2. CASE F # {}
  <2>0. F \in SUBSET SUBSET S
    OBVIOUS
  <2>1. PICK T \in F : \A U \in F : ~(U \subseteq T /\ U # T)
    <3> HIDE DEF F
    <3> QED BY <1>2, <2>0, SmallestSubset
  <2>2. IsFiniteSet(T) /\ T \in SUBSET S
    BY FS_Subset
  <2>3. CASE T = {}
    BY <2>2, <2>3, SumRec
  <2>4. CASE T # {}
    <3>1. PICK y : y \in T
      BY <2>4
    <3>2. SumFunctionOnSet(f, T) = f[y] + SumFunctionOnSet(f, T \ {y})
      BY <2>2, <3>1, SumRemove
    <3>3. SumFunctionOnSet(g, T) = g[y] + SumFunctionOnSet(g, T \ {y})
      BY <2>2, <3>1, SumRemove
    <3>4. T \ {y} \notin F
      BY <2>1, <3>1
    <3> QED BY <2>2, <3>1, <3>2, <3>3, <3>4
  <2> QED BY <2>3, <2>4
<1> QED BY <1>1, <1>2

\* A sum of naturals is one.
LEMMA SumNat ==
  ASSUME NEW S, IsFiniteSet(S), NEW f, \A x \in S : f[x] \in Nat
  PROVE  SumFunctionOnSet(f, S) \in Nat
<1> DEFINE F == {T \in SUBSET S : SumFunctionOnSet(f, T) \notin Nat}
<1>1. CASE F = {}
  BY <1>1
<1>2. CASE F # {}
  <2>0. F \in SUBSET SUBSET S
    OBVIOUS
  <2>1. PICK T \in F : \A U \in F : ~(U \subseteq T /\ U # T)
    <3> HIDE DEF F
    <3> QED BY <1>2, <2>0, SmallestSubset
  <2>2. IsFiniteSet(T) /\ T \in SUBSET S
    BY FS_Subset
  <2>3. CASE T = {}
    BY <2>2, <2>3, SumRec
  <2>4. CASE T # {}
    <3>1. PICK y \in T : SumFunctionOnSet(f, T) = f[y] + SumFunctionOnSet(f, T \ {y})
      BY <2>2, <2>4, SumRec
    <3>2. T \ {y} \notin F
      BY <2>1, <3>1
    <3> QED BY <2>2, <3>1, <3>2
  <2> QED BY <2>3, <2>4
<1> QED BY <1>1, <1>2

\* What payment rows add up to.
SumOf(rows, ps) == SumFunctionOnSet([p \in Payments |-> rows[p].amount], ps)

LEMMA SumOfRows ==
  ASSUME NEW rows \in [Payments -> PaymentRow], NEW ps \in SUBSET Payments
  PROVE  /\ SumOf(rows, ps) \in Nat
         /\ SumOf(rows, {}) = 0
         /\ \A p \in ps : SumOf(rows, ps) = rows[p].amount + SumOf(rows, ps \ {p})
<1> DEFINE f == [p \in Payments |-> rows[p].amount]
<1>1. IsFiniteSet(ps) /\ IsFiniteSet({})
  BY FinitelyManyPayments, FS_Subset, FS_EmptySet
<1>2. \A p \in ps : f[p] \in Nat /\ f[p] = rows[p].amount
  BY DEF PaymentRow
<1> HIDE DEF f
<1>3. SumFunctionOnSet(f, ps) \in Nat
  BY <1>1, <1>2, SumNat
<1>4. \A p \in ps : SumFunctionOnSet(f, ps) = f[p] + SumFunctionOnSet(f, ps \ {p})
  BY <1>1, <1>2, SumRemove
<1>5. SumFunctionOnSet(f, {}) = 0
  BY <1>1, SumRec
<1> QED BY <1>2, <1>3, <1>4, <1>5 DEF SumOf, f

LEMMA SumOfSameRows ==
  ASSUME NEW rows \in [Payments -> PaymentRow], NEW new \in [Payments -> PaymentRow],
         NEW ps \in SUBSET Payments, \A p \in ps : new[p].amount = rows[p].amount
  PROVE  SumOf(new, ps) = SumOf(rows, ps)
<1> DEFINE f == [p \in Payments |-> rows[p].amount]
           g == [p \in Payments |-> new[p].amount]
<1>1. IsFiniteSet(ps)
  BY FinitelyManyPayments, FS_Subset
<1>2. \A p \in ps : f[p] \in Int /\ g[p] = f[p]
  BY DEF PaymentRow
<1> HIDE DEF f, g
<1>3. SumFunctionOnSet(g, ps) = SumFunctionOnSet(f, ps)
  BY <1>1, <1>2, SumSame
<1> QED BY <1>3 DEF SumOf, f, g

-----------------------------------------------------------------------------
(***************************************************************************)
(* Money and settlement: a second invariant on top of the first.           *)
(***************************************************************************)
\* What a payment row has left on the money accounts.
Left(row) ==
  IF row.state = "live" /\ row.posted
    THEN [a \in MoneyAccounts |-> IF (a = "linked") = row.linked THEN row.amount ELSE 0]
  ELSE IF row.state = "deleted" /\ row.linked
    THEN [a \in MoneyAccounts |-> IF a = "linked" THEN row.amount ELSE -row.amount]
  ELSE NoMoney

\* A payment that is not posted names no bank account.
MoneyBooks ==
  \A p \in Payments :
    /\ money[p] = Left(payment[p])
    /\ payment[p].state = "live" /\ ~payment[p].posted => ~payment[p].linked

\* An invoice, its statuses, its payment rows and its journal agree.
Agrees(i) ==
  /\ SumOf(payment, Live(i)) <= paid[i]
  /\ Exists(i) => paid[i] <= total[i]
  /\ pstatus[i] = IF paid[i] = 0 THEN "UNPAID"
                  ELSE IF paid[i] >= total[i] THEN "PAID" ELSE "PARTIAL"
  /\ status[i] = "PAID" <=> pstatus[i] = "PAID"
  /\ status[i] = "CANCELLED" => \A p \in Live(i) : ~payment[p].posted
  /\ paid[i] > 0 => Live(i) # {}
  /\ status[i] = "absent" => paid[i] = 0 /\ Live(i) = {}
  /\ \A p \in Live(i) : payment[p].posted => journal[i] # 0
  /\ status[i] = "CANCELLED" /\ journal[i] # 0 => i \in reversed

SInv ==
  /\ IInv
  /\ paid \in [Invoices -> Nat] /\ pstatus \in [Invoices -> {"UNPAID", "PARTIAL", "PAID"}]
  /\ reversed \subseteq Invoices
  /\ MoneyBooks
  /\ \A i \in Invoices : Agrees(i)

\* Taking back payments of an invoice leaves the money where it was, but for
\* the two accounts a linked payment crosses.
LEMMA ReverseMoney ==
  ASSUME IInv, MoneyBooks, NEW ps \in SUBSET Payments,
         \A p \in ps : payment[p].state = "live",
         ReversePayments(ps), DeletePayments(ps)
  PROVE  MoneyBooks'
<1>1. ASSUME NEW p \in Payments, p \notin ps
      PROVE  money'[p] = money[p] /\ payment'[p] = payment[p]
  BY <1>1 DEF ReversePayments, DeletePayments
<1>2. ASSUME NEW p \in ps PROVE money'[p] = Left(payment'[p]) /\ payment'[p].state = "deleted"
  <2>1. /\ payment[p] \in PaymentRow /\ payment[p].state = "live"
        /\ money[p] = Left(payment[p])
        /\ ~payment[p].posted => ~payment[p].linked
    BY DEF IInv, LedgerType, MoneyBooks
  <2>2. payment'[p] = [payment[p] EXCEPT !.state = "deleted", !.posted = FALSE]
    BY DEF DeletePayments
  <2>3. /\ payment'[p].state = "deleted" /\ payment'[p].linked = payment[p].linked
        /\ payment'[p].amount = payment[p].amount
    BY <2>1, <2>2 DEF PaymentRow
  <2>4. CASE payment[p].posted
    <3>1. money'[p] = [money[p] EXCEPT !["method"] = @ - payment[p].amount]
      BY <2>4 DEF ReversePayments
    <3>2. money[p] = [a \in MoneyAccounts |->
                        IF (a = "linked") = payment[p].linked THEN payment[p].amount ELSE 0]
      BY <2>1, <2>4 DEF Left
    <3>3. /\ DOMAIN money'[p] = MoneyAccounts /\ payment[p].amount \in Nat
          /\ payment[p].linked \in BOOLEAN
      BY <2>1, <3>1, <3>2 DEF PaymentRow
    <3>4. CASE payment[p].linked
      <4>1. /\ money'[p]["linked"] = payment[p].amount
            /\ money'[p]["method"] = 0 - payment[p].amount
        BY <3>1, <3>2, <3>4 DEF MoneyAccounts
      <4>2. \A n \in Nat : 0 - n = -n
        OBVIOUS
      <4>3. money'[p] = [a \in MoneyAccounts |->
                           IF a = "linked" THEN payment[p].amount ELSE -payment[p].amount]
        BY <3>1, <3>2, <3>3, <4>1, <4>2 DEF MoneyAccounts
      <4> QED BY <2>3, <3>4, <4>3 DEF Left
    <3>5. CASE ~payment[p].linked
      <4>1. money'[p]["linked"] = 0 /\ money'[p]["method"] = 0
        BY <3>1, <3>2, <3>3, <3>5 DEF MoneyAccounts
      <4>2. money'[p] = NoMoney
        BY <3>1, <3>2, <4>1 DEF MoneyAccounts, NoMoney
      <4> QED BY <2>3, <3>5, <4>2 DEF Left
    <3> QED BY <3>4, <3>5
  <2>5. CASE ~payment[p].posted
    <3>1. money'[p] = money[p]
      BY <2>5 DEF ReversePayments
    <3> QED BY <2>1, <2>3, <2>5, <3>1 DEF Left
  <2> QED BY <2>4, <2>5
<1> QED BY <1>1, <1>2 DEF MoneyBooks

\* A payment's journal puts its amount where its row says.
LEMMA PostMoney ==
  ASSUME IInv, MoneyBooks, NEW rows \in [Payments -> PaymentRow], NEW ps,
         \A p \in Payments : p \in ps => money[p] = NoMoney /\ rows[p].state = "live",
         \A p \in Payments : p \notin ps => rows[p] = payment[p],
         PostPayments(rows, ps),
         \A p \in Payments : p \in ps => payment'[p] = [rows[p] EXCEPT !.posted = TRUE],
         \A p \in Payments : p \notin ps => payment'[p] = rows[p]
  PROVE  MoneyBooks'
<1>1. ASSUME NEW p \in Payments, p \notin ps PROVE money'[p] = money[p]
  BY <1>1 DEF PostPayments
<1>2. ASSUME NEW p \in Payments, p \in ps
      PROVE  money'[p] = Left(payment'[p]) /\ payment'[p].posted
  <2>1. /\ rows[p].amount \in Nat /\ rows[p].linked \in BOOLEAN
        /\ payment'[p].state = "live" /\ payment'[p].posted
        /\ payment'[p].amount = rows[p].amount /\ payment'[p].linked = rows[p].linked
    BY <1>2 DEF PaymentRow
  <2>2. money'[p] = [money[p] EXCEPT ![IF rows[p].linked THEN "linked" ELSE "method"]
                                       = @ + rows[p].amount]
    BY <1>2 DEF PostPayments
  <2>3. money[p] = [a \in MoneyAccounts |-> 0]
    BY <1>2 DEF NoMoney
  <2>4. money'[p] = [a \in MoneyAccounts |->
                       IF (a = "linked") = rows[p].linked THEN rows[p].amount ELSE 0]
    BY <2>1, <2>2, <2>3 DEF MoneyAccounts
  <2> QED BY <2>1, <2>4 DEF Left
<1> QED BY <1>1, <1>2 DEF MoneyBooks

\* Money follows the rows through every request.
LEMMA NextMoney == SInv /\ [Next]_vars => MoneyBooks'
<1> SUFFICES ASSUME SInv, [Next]_vars PROVE MoneyBooks'
  OBVIOUS
<1>0. IInv /\ MoneyBooks
  BY DEF SInv
<1>1. CASE UNCHANGED <<payment, money>>
  BY <1>0, <1>1 DEF MoneyBooks
<1>2. ASSUME NEW i \in Invoices, Cancel(i) \/ ReverseAllPayments(i)
               \/ \E p \in Payments : ReversePayment(i, p)
      PROVE  MoneyBooks'
  BY <1>0, <1>2, ReverseMoney DEF Cancel, ReverseAllPayments, ReversePayment, Live
<1>3. ASSUME NEW i \in Invoices, NEW p \in Payments, NEW amount \in Nat,
             NEW linked \in BOOLEAN, payment[p].state = "unused",
             NEW rows, rows = [payment EXCEPT ![p] = Row(i, amount, linked, TRUE)],
             payment' = rows, PostPayments(rows, {p})
      PROVE  MoneyBooks'
  <2>1. /\ rows \in [Payments -> PaymentRow] /\ rows[p] = Row(i, amount, linked, TRUE)
        /\ \A q \in Payments \ {p} : rows[q] = payment[q]
    BY <1>0, <1>3 DEF IInv, LedgerType, PaymentRow, Row
  <2>2. money[p] = NoMoney
    BY <1>0, <1>3 DEF MoneyBooks, Left
  <2>3. rows[p].state = "live" /\ rows[p] = [rows[p] EXCEPT !.posted = TRUE]
    <3>0. rows[p] \in PaymentRow
      BY <2>1
    <3>1. rows[p].state = "live" /\ rows[p].posted = TRUE
      BY <2>1, <3>0 DEF Row, PaymentRow
    <3>2. \A x \in PaymentRow : x.posted = TRUE => [x EXCEPT !.posted = TRUE] = x
      BY DEF PaymentRow
    <3> QED BY <3>0, <3>1, <3>2
  <2> DEFINE ps == {p}
  <2>4. /\ \A q \in Payments : q \in ps => money[q] = NoMoney /\ rows[q].state = "live"
        /\ \A q \in Payments : q \notin ps => rows[q] = payment[q]
        /\ \A q \in Payments : q \in ps => payment'[q] = [rows[q] EXCEPT !.posted = TRUE]
        /\ \A q \in Payments : q \notin ps => payment'[q] = rows[q]
        /\ PostPayments(rows, ps)
    BY <1>3, <2>1, <2>2, <2>3
  <2> HIDE DEF ps
  <2> QED BY <1>0, <2>1, <2>4, PostMoney
<1>4. ASSUME NEW i \in Invoices, NEW p \in Payments, MarkPaid(i, p) PROVE MoneyBooks'
  <2> DEFINE rows == IF Live(i) = {}
                       THEN [payment EXCEPT ![p] = Row(i, total[i], FALSE, FALSE)]
                       ELSE payment
             due == {q \in Payments : /\ rows[q].state = "live" /\ rows[q].of = i
                                      /\ ~rows[q].posted}
             new == [q \in Payments |-> IF q \in due THEN [rows[q] EXCEPT !.posted = TRUE]
                                                     ELSE rows[q]]
  <2>1. total[i] \in Nat
    BY <1>0, LedgerConstants DEF IInv, LedgerType
  <2>2. rows \in [Payments -> PaymentRow]
    BY <1>0, <2>1 DEF IInv, LedgerType, Row, PaymentRow
  <2>3. PostPayments(rows, due) /\ payment' = new
    BY <1>4 DEF MarkPaid
  <2>4. ASSUME NEW q \in Payments, q \in due PROVE money[q] = NoMoney
    <3>1. CASE rows[q] = payment[q]
      BY <1>0, <2>4, <3>1 DEF MoneyBooks, Left
    <3>2. CASE q = p /\ Live(i) = {}
      BY <1>0, <1>4, <3>2 DEF MarkPaid, MoneyBooks, Left
    <3> QED BY <1>0, <3>1, <3>2 DEF IInv, LedgerType
  <2>5. \A q \in Payments : q \notin due => rows[q] = payment[q]
    <3>1. CASE Live(i) = {}
      <4>1. rows[p] = Row(i, total[i], FALSE, FALSE) /\ \A q \in Payments \ {p} : rows[q] = payment[q]
        BY <1>0, <3>1 DEF IInv, LedgerType
      <4>2. p \in due
        BY <4>1 DEF Row
      <4> HIDE DEF rows, due
      <4> QED BY <4>1, <4>2
    <3>2. CASE Live(i) # {}
      BY <3>2
    <3> QED BY <3>1, <3>2
  <2>6. \A q \in Payments : q \in due => rows[q].state = "live"
    OBVIOUS
  <2>7. /\ \A q \in Payments : q \in due => payment'[q] = [rows[q] EXCEPT !.posted = TRUE]
        /\ \A q \in Payments : q \notin due => payment'[q] = rows[q]
    BY <2>3
  <2> HIDE DEF rows, due, new
  <2>8. \A q \in Payments : q \in due => money[q] = NoMoney /\ rows[q].state = "live"
    BY <2>4, <2>6
  <2> QED BY <1>0, <2>2, <2>3, <2>5, <2>7, <2>8, PostMoney
<1>5. ASSUME NEW i \in Invoices, NEW p \in Payments, NEW r \in OnlineAmounts,
             FulfillOnline(i, p, r)
      PROVE  MoneyBooks'
  <2>1. PICK amount \in Nat : payment' = [payment EXCEPT ![p] = Row(i, amount, FALSE, FALSE)]
    BY <1>5 DEF FulfillOnline
  <2>2. money' = money /\ money[p] = NoMoney
    BY <1>0, <1>5 DEF FulfillOnline, ledgerVars, MoneyBooks, Left
  <2>3. /\ payment'[p] = Row(i, amount, FALSE, FALSE)
        /\ \A q \in Payments \ {p} : payment'[q] = payment[q]
    BY <1>0, <2>1 DEF IInv, LedgerType
  <2> QED BY <1>0, <2>2, <2>3 DEF MoneyBooks, Left, Row
<1>6. ASSUME NEW i \in Invoices, OnInvoice(i) PROVE MoneyBooks'
  BY <1>1, <1>2, <1>6 DEF OnInvoice, Create, Update, Send, Unsend, Remove, SetStatus,
     NoPaymentChange, ledgerVars
<1>7. ASSUME NEW i \in Invoices, NEW p \in Payments, OnPayment(i, p) PROVE MoneyBooks'
  <2>1. ASSUME NEW t \in Amounts, CreateCash(i, p, t) PROVE MoneyBooks'
    BY <1>3, <2>1, LedgerConstants DEF CreateCash
  <2>2. ASSUME NEW a \in Amounts, NEW l \in Links, RecordPayment(i, p, a, l)
        PROVE  MoneyBooks'
    BY <1>3, <2>2, LedgerConstants DEF RecordPayment, Record
  <2> QED BY <1>2, <1>4, <1>5, <1>7, <2>1, <2>2 DEF OnPayment
<1> QED BY <1>1, <1>6, <1>7 DEF Next, vars, ledgerVars
-----------------------------------------------------------------------------
\* An invoice whose row, journal and payment rows a request leaves alone still
\* agrees with them.
LEMMA Untouched ==
  ASSUME SInv, NEW j \in Invoices, payment' \in [Payments -> PaymentRow],
         status'[j] = status[j], pstatus'[j] = pstatus[j], paid'[j] = paid[j],
         total'[j] = total[j], journal'[j] = journal[j], j \in reversed => j \in reversed',
         \A q \in Payments :
           \/ payment'[q] = payment[q]
           \/ /\ ~(payment[q].state = "live" /\ payment[q].of = j)
              /\ ~(payment'[q].state = "live" /\ payment'[q].of = j)
  PROVE  Agrees(j)'
<1>1. Live(j)' = Live(j) /\ \A q \in Live(j) : payment'[q] = payment[q]
  BY DEF Live
<1>2. payment \in [Payments -> PaymentRow] /\ Live(j) \in SUBSET Payments
  BY DEF SInv, IInv, LedgerType, Live
<1>3. SumOf(payment', Live(j)) = SumOf(payment, Live(j))
  BY <1>1, <1>2, SumOfSameRows
<1>4. Agrees(j)
  BY DEF SInv
<1> QED BY <1>1, <1>3, <1>4 DEF Agrees, Exists

\* Deleting payments of an invoice takes them, and no other, from its rows.
LEMMA DeletedRows ==
  ASSUME IInv, NEW i \in Invoices, NEW ps \in SUBSET Live(i), DeletePayments(ps)
  PROVE  /\ payment' \in [Payments -> PaymentRow]
         /\ Live(i)' = Live(i) \ ps
         /\ \A q \in Live(i) \ ps : payment'[q] = payment[q]
         /\ \A j \in Invoices \ {i}, q \in Payments :
              \/ payment'[q] = payment[q]
              \/ /\ ~(payment[q].state = "live" /\ payment[q].of = j)
                 /\ ~(payment'[q].state = "live" /\ payment'[q].of = j)
<1>1. ps \subseteq Payments /\ \A q \in ps : payment[q].state = "live" /\ payment[q].of = i
  BY DEF Live
<1>2. \A q \in Payments : payment[q] \in PaymentRow
  BY DEF IInv, LedgerType
<1>3. \A q \in Payments : q \in ps =>
        payment'[q] = [payment[q] EXCEPT !.state = "deleted", !.posted = FALSE]
  BY DEF DeletePayments
<1>4. \A q \in Payments : q \notin ps => payment'[q] = payment[q]
  BY DEF DeletePayments
<1>5. \A q \in ps : payment'[q] \in PaymentRow /\ payment'[q].state = "deleted"
  <2>1. ASSUME NEW q \in ps PROVE payment'[q] \in PaymentRow /\ payment'[q].state = "deleted"
    <3>1. payment[q] \in PaymentRow
      BY <1>1, <1>2
    <3>2. payment'[q] = [payment[q] EXCEPT !.state = "deleted", !.posted = FALSE]
      BY <1>1, <1>3
    <3> QED BY <3>1, <3>2 DEF PaymentRow
  <2> QED BY <2>1
<1>6. payment' \in [Payments -> PaymentRow]
  BY <1>2, <1>4, <1>5 DEF DeletePayments
<1>7. Live(i)' = Live(i) \ ps
  BY <1>1, <1>4, <1>5 DEF Live
<1>8. \A q \in Live(i) \ ps : payment'[q] = payment[q]
  BY <1>4 DEF Live
<1> QED BY <1>1, <1>4, <1>5, <1>6, <1>7, <1>8

\* A new payment row adds its amount to those of its invoice.
LEMMA AddedRow ==
  ASSUME IInv, NEW i \in Invoices, NEW p \in Payments, payment[p].state = "unused",
         NEW row \in PaymentRow, row.state = "live", row.of = i,
         payment' = [payment EXCEPT ![p] = row]
  PROVE  /\ payment' \in [Payments -> PaymentRow]
         /\ Live(i)' = Live(i) \cup {p} /\ p \notin Live(i)
         /\ \A q \in Live(i) : payment'[q] = payment[q]
         /\ payment'[p] = row
         /\ SumOf(payment', Live(i)') = SumOf(payment, Live(i)) + row.amount
         /\ \A j \in Invoices \ {i}, q \in Payments :
              \/ payment'[q] = payment[q]
              \/ /\ ~(payment[q].state = "live" /\ payment[q].of = j)
                 /\ ~(payment'[q].state = "live" /\ payment'[q].of = j)
<1>1. payment \in [Payments -> PaymentRow]
  BY DEF IInv, LedgerType
<1>2. /\ payment'[p] = row
      /\ \A q \in Payments \ {p} : payment'[q] = payment[q]
  BY <1>1
<1>3. payment' \in [Payments -> PaymentRow]
  BY <1>1
<1>4. /\ payment'[p].state = "live" /\ payment'[p].of = i /\ payment'[p].amount = row.amount
      /\ row.amount \in Nat
  BY <1>2 DEF PaymentRow
<1>5. Live(i)' = Live(i) \cup {p} /\ p \notin Live(i) /\ Live(i) \in SUBSET Payments
  BY <1>2, <1>4 DEF Live
<1>6. SumOf(payment', Live(i)') = SumOf(payment, Live(i)) + row.amount
  <2>1. PICK new, L, M : new = payment' /\ L = Live(i) /\ M = Live(i)'
    OBVIOUS
  <2>2. /\ new \in [Payments -> PaymentRow] /\ new[p].amount = row.amount
        /\ L \in SUBSET Payments /\ M \in SUBSET Payments /\ p \in M /\ M \ {p} = L
        /\ \A q \in L : new[q].amount = payment[q].amount
    BY <1>2, <1>3, <1>4, <1>5, <2>1
  <2>3. SumOf(new, M) = new[p].amount + SumOf(new, M \ {p})
    BY <2>2, SumOfRows
  <2>4. SumOf(new, L) = SumOf(payment, L)
    BY <1>1, <2>2, SumOfSameRows
  <2>5. SumOf(payment, L) \in Nat
    BY <1>1, <2>2, SumOfRows
  <2>6. SumOf(new, M) = row.amount + SumOf(payment, L)
    BY <2>2, <2>3, <2>4
  <2>7. SumOf(new, M) = SumOf(payment, L) + row.amount
    BY <1>4, <2>5, <2>6
  <2> QED BY <2>1, <2>7
<1> QED BY <1>2, <1>3, <1>4, <1>5, <1>6 DEF Live

-----------------------------------------------------------------------------
\* Requests that touch no payment: the invoice's row still agrees with its rows.
LEMMA RowOnly ==
  ASSUME SInv, NEW i \in Invoices,
         \/ \E t \in Amounts : Create(i, t) \/ Update(i, t)
         \/ Send(i) \/ Unsend(i) \/ Remove(i) \/ \E s \in {"DRAFT", "SENT"} : SetStatus(i, s)
  PROVE  \A j \in Invoices : Agrees(j)'
<1> USE DEF SInv, IInv, LedgerType
<1>1. UNCHANGED payment
  BY DEF Create, Update, Send, Unsend, Remove, SetStatus, NoPaymentChange
<1>2. ASSUME NEW j \in Invoices, j # i PROVE Agrees(j)'
  <2>1. /\ status'[j] = status[j] /\ pstatus'[j] = pstatus[j] /\ paid'[j] = paid[j]
        /\ total'[j] = total[j] /\ journal'[j] = journal[j] /\ (j \in reversed => j \in reversed')
    BY <1>2 DEF Create, Update, Send, Unsend, Remove, SetStatus, PostInvoice,
       ReverseInvoice, ledgerVars
  <2> QED BY <1>1, <2>1, Untouched
<1>3. Agrees(i)'
  <2>1. Live(i)' = Live(i) /\ SumOf(payment, Live(i))' = SumOf(payment, Live(i))
    BY <1>1 DEF Live
  <2>2. Agrees(i) /\ total[i] \in Nat \ {0} /\ paid[i] \in Nat
    BY LedgerConstants
  <2>3. ASSUME NEW t \in Amounts, Create(i, t) \/ Update(i, t) PROVE Agrees(i)'
    <3>1. t \in Nat \ {0}
      BY LedgerConstants
    <3>2. paid[i] = 0 /\ status'[i] = "DRAFT" /\ status[i] # "PAID"
      BY <2>2, <2>3 DEF Create, Update, NoPayments, Agrees
    <3> QED BY <1>1, <2>1, <2>2, <2>3, <3>1, <3>2 DEF Create, Update, Agrees, ledgerVars, Exists
  <2>4. CASE Send(i)
    BY <1>1, <2>1, <2>2, <2>4 DEF Send, PostInvoice, Agrees, Exists
  <2>5. CASE Unsend(i)
    BY <1>1, <2>1, <2>2, <2>5 DEF Unsend, ReverseInvoice, NoPayments, Agrees, Exists
  <2>6. CASE Remove(i)
    BY <1>1, <2>1, <2>2, <2>6 DEF Remove, NoPayments, Agrees, Exists, ledgerVars
  <2>7. ASSUME NEW s \in {"DRAFT", "SENT"}, SetStatus(i, s) PROVE Agrees(i)'
    BY <1>1, <2>1, <2>2, <2>7 DEF SetStatus, PostInvoice, NoPayments, Agrees, Exists
  <2> QED BY <2>3, <2>4, <2>5, <2>6, <2>7
<1> QED BY <1>2, <1>3

\* Requests that take payments back: what is left of them is what counts.
LEMMA AllTakenBack ==
  ASSUME SInv, NEW i \in Invoices, Cancel(i) \/ ReverseAllPayments(i)
  PROVE  \A j \in Invoices : Agrees(j)'
<1> USE DEF SInv, IInv, LedgerType
<1>1. DeletePayments(Live(i))
  BY DEF Cancel, ReverseAllPayments
<1>2. payment' \in [Payments -> PaymentRow] /\ Live(i)' = {}
  BY <1>1, DeletedRows
<1>3. ASSUME NEW j \in Invoices, j # i PROVE Agrees(j)'
  <2>1. /\ status'[j] = status[j] /\ pstatus'[j] = pstatus[j] /\ paid'[j] = paid[j]
        /\ total'[j] = total[j] /\ journal'[j] = journal[j] /\ (j \in reversed => j \in reversed')
    BY <1>3 DEF Cancel, ReverseAllPayments, Recalc, ReverseInvoice
  <2>2. \A q \in Payments :
          \/ payment'[q] = payment[q]
          \/ /\ ~(payment[q].state = "live" /\ payment[q].of = j)
             /\ ~(payment'[q].state = "live" /\ payment'[q].of = j)
    BY <1>1, <1>3, DeletedRows
  <2> QED BY <1>2, <2>1, <2>2, Untouched
<1>4. /\ Agrees(i) /\ total[i] \in Nat \ {0} /\ paid[i] \in Nat
      /\ SumOf(payment, Live(i))' = 0
  <2>1. PICK new : new = payment'
    OBVIOUS
  <2>2. SumOf(new, {}) = 0
    BY <1>2, <2>1, SumOfRows
  <2> QED BY <1>2, <2>1, <2>2, LedgerConstants
<1>5. ASSUME Cancel(i) PROVE Agrees(i)'
  <2>1. /\ status'[i] = "CANCELLED" /\ pstatus'[i] = "UNPAID" /\ paid'[i] = 0
        /\ total'[i] = total[i] /\ ReverseInvoice(i)
    BY <1>5 DEF Cancel
  <2>2. journal'[i] # 0 => i \in reversed'
    BY <2>1 DEF ReverseInvoice
  <2> HIDE DEF SInv, IInv, LedgerType
  <2> QED BY <1>2, <1>4, <2>1, <2>2 DEF Agrees
<1>6. ASSUME ReverseAllPayments(i) PROVE Agrees(i)'
  <2>1. /\ pstatus'[i] = "UNPAID" /\ paid'[i] = 0 /\ total'[i] = total[i]
        /\ status'[i] \notin {"PAID", "CANCELLED"}
    BY <1>4, <1>6 DEF ReverseAllPayments, Recalc
  <2> HIDE DEF SInv, IInv, LedgerType
  <2> QED BY <1>2, <1>4, <2>1 DEF Agrees
<1> QED BY <1>3, <1>5, <1>6

LEMMA OneTakenBack ==
  ASSUME SInv, NEW i \in Invoices, NEW p \in Payments, ReversePayment(i, p)
  PROVE  \A j \in Invoices : Agrees(j)'
<1> USE DEF SInv, IInv, LedgerType
<1>1. /\ DeletePayments({p}) /\ {p} \in SUBSET Live(i) /\ p \in Live(i)
      /\ Recalc(i, SumPaid(Live(i) \ {p})) /\ Exists(i) /\ status[i] # "CANCELLED"
      /\ UNCHANGED <<journal, reversed>>
  BY DEF ReversePayment
<1>2. /\ payment' \in [Payments -> PaymentRow]
      /\ Live(i)' = Live(i) \ {p}
      /\ \A q \in Live(i) \ {p} : payment'[q] = payment[q]
  BY <1>1, DeletedRows
<1>3. ASSUME NEW j \in Invoices, j # i PROVE Agrees(j)'
  <2>1. /\ status'[j] = status[j] /\ pstatus'[j] = pstatus[j] /\ paid'[j] = paid[j]
        /\ total'[j] = total[j] /\ journal'[j] = journal[j] /\ (j \in reversed => j \in reversed')
    BY <1>1, <1>3 DEF Recalc
  <2>2. \A q \in Payments :
          \/ payment'[q] = payment[q]
          \/ /\ ~(payment[q].state = "live" /\ payment[q].of = j)
             /\ ~(payment'[q].state = "live" /\ payment'[q].of = j)
    BY <1>1, <1>3, DeletedRows
  <2> QED BY <1>2, <2>1, <2>2, Untouched
<1>4. PICK L, new : L = Live(i) \ {p} /\ new = payment'
  OBVIOUS
<1>5. PICK n \in Nat : /\ SumPaid(L) = n /\ SumOf(new, L) = n
                       /\ n <= paid[i] /\ (n > 0 => L # {})
  <2>1. /\ L \in SUBSET Payments /\ Live(i) \in SUBSET Payments
        /\ new \in [Payments -> PaymentRow] /\ payment \in [Payments -> PaymentRow]
    BY <1>2, <1>4 DEF Live
  <2>2. SumOf(new, L) = SumOf(payment, L)
    <3>1. \A q \in L : new[q].amount = payment[q].amount
      BY <1>2, <1>4
    <3> QED BY <2>1, <3>1, SumOfSameRows
  <2>3. SumOf(payment, L) \in Nat /\ (L = {} => SumOf(payment, L) = 0)
    BY <2>1, SumOfRows
  <2>4. SumOf(payment, Live(i)) = payment[p].amount + SumOf(payment, L)
    BY <1>1, <1>4, <2>1, SumOfRows
  <2>5. SumOf(payment, Live(i)) <= paid[i] /\ payment[p].amount \in Nat
    BY <2>1 DEF Agrees, PaymentRow
  <2> DEFINE n == SumOf(payment, L)
  <2>6. n <= paid[i]
    <3>1. paid[i] \in Nat
      OBVIOUS
    <3> QED BY <2>3, <2>4, <2>5, <3>1
  <2>7. SumPaid(L) = n
    BY DEF SumPaid, SumOf
  <2> QED BY <2>2, <2>3, <2>6, <2>7
<1>6. Agrees(i)'
  <2>1. /\ Agrees(i) /\ total[i] \in Nat \ {0} /\ paid[i] \in Nat
    BY LedgerConstants
  <2>2. SumOf(payment, Live(i))' = n /\ Live(i)' = L
    BY <1>2, <1>4, <1>5
  <2>3. Recalc(i, n)
    BY <1>1, <1>4, <1>5
  <2>4. \A q \in L : payment'[q] = payment[q] /\ q \in Live(i)
    BY <1>2, <1>4
  <2> QED BY <1>1, <1>5, <2>1, <2>2, <2>3, <2>4 DEF Recalc, Agrees, Exists
<1> QED BY <1>3, <1>6

\* Requests that record a payment: paidAmount grows with the rows.
LEMMA Recorded ==
  ASSUME SInv, NEW i \in Invoices, NEW p \in Payments, payment[p].state = "unused",
         NEW row \in PaymentRow, row.state = "live", row.of = i,
         payment' = [payment EXCEPT ![p] = row],
         NEW amount \in Nat \ {0}, row.amount = amount,
         Exists(i), amount <= total[i] - paid[i], Settle(i, amount),
         UNCHANGED <<total, reversed>>,
         \/ row.posted /\ PostInvoice(i) /\ status[i] # "CANCELLED"
         \/ ~row.posted /\ UNCHANGED journal
  PROVE  \A j \in Invoices : Agrees(j)'
<1> USE DEF SInv, IInv, LedgerType
<1>1. /\ payment' \in [Payments -> PaymentRow]
      /\ Live(i)' = Live(i) \cup {p} /\ p \notin Live(i)
      /\ \A q \in Live(i) : payment'[q] = payment[q]
      /\ payment'[p] = row
      /\ SumOf(payment', Live(i)') = SumOf(payment, Live(i)) + amount
  <2> HIDE DEF SInv, IInv, LedgerType
  <2> QED BY AddedRow DEF SInv
<1>2. ASSUME NEW j \in Invoices, j # i PROVE Agrees(j)'
  <2>1. /\ status'[j] = status[j] /\ pstatus'[j] = pstatus[j] /\ paid'[j] = paid[j]
        /\ total'[j] = total[j] /\ journal'[j] = journal[j] /\ (j \in reversed => j \in reversed')
    BY <1>2 DEF Settle, PostInvoice
  <2>2. \A q \in Payments :
          \/ payment'[q] = payment[q]
          \/ /\ ~(payment[q].state = "live" /\ payment[q].of = j)
             /\ ~(payment'[q].state = "live" /\ payment'[q].of = j)
    BY <1>2, AddedRow
  <2> QED BY <1>1, <2>1, <2>2, Untouched
<1>3. /\ Agrees(i) /\ total[i] \in Nat \ {0} /\ paid[i] \in Nat
      /\ SumOf(payment, Live(i)) \in Nat
  <2>1. Live(i) \in SUBSET Payments
    BY DEF Live
  <2> QED BY <2>1, SumOfRows, LedgerConstants
<1>4. Agrees(i)'
  <2> DEFINE full == paid[i] + amount >= total[i]
  <2>1. /\ paid'[i] = paid[i] + amount
        /\ pstatus'[i] = IF full THEN "PAID" ELSE "PARTIAL"
        /\ status'[i] = IF full THEN "PAID" ELSE status[i]
        /\ total'[i] = total[i]
    BY DEF Settle
  <2>2. /\ journal[i] # 0 => journal'[i] = journal[i]
        /\ row.posted => journal'[i] # 0
        /\ ~row.posted => journal'[i] = journal[i]
    BY <1>3 DEF PostInvoice
  <2>3. SumOf(payment, Live(i))' <= paid'[i] /\ paid'[i] > 0 /\ paid'[i] <= total'[i]
    BY <1>1, <1>3, <2>1 DEF Agrees
  <2>4. pstatus[i] # "PAID" /\ status[i] # "PAID"
    BY <1>3 DEF Agrees
  <2>5. payment'[p].posted <=> row.posted
    BY <1>1
  <2>6. /\ pstatus'[i] = IF paid'[i] = 0 THEN "UNPAID"
                         ELSE IF paid'[i] >= total'[i] THEN "PAID" ELSE "PARTIAL"
        /\ status'[i] = "PAID" <=> pstatus'[i] = "PAID"
        /\ status'[i] # "absent"
    BY <1>3, <2>1, <2>3, <2>4 DEF Exists
  <2>7. status'[i] = "CANCELLED" => status[i] = "CANCELLED" /\ ~row.posted
    BY <2>1
  <2>8. \A q \in Live(i)' : payment'[q].posted => journal'[i] # 0
    BY <1>1, <1>3, <2>2, <2>5 DEF Agrees
  <2>9. status'[i] = "CANCELLED" => \A q \in Live(i)' : ~payment'[q].posted
    BY <1>1, <1>3, <2>5, <2>7 DEF Agrees
  <2>10. status'[i] = "CANCELLED" /\ journal'[i] # 0 => i \in reversed'
    BY <1>3, <2>2, <2>7 DEF Agrees
  <2>11. Live(i)' # {}
    BY <1>1
  <2> QED BY <2>3, <2>6, <2>8, <2>9, <2>10, <2>11 DEF Agrees
<1> QED BY <1>2, <1>4

LEMMA RecordPaymentAgrees ==
  ASSUME SInv, NEW i \in Invoices, NEW p \in Payments, NEW a \in Amounts, NEW l \in Links,
         RecordPayment(i, p, a, l)
  PROVE  \A j \in Invoices : Agrees(j)'
<1> DEFINE row == Row(i, a, l, TRUE)
<1>1. a \in Nat \ {0} /\ l \in BOOLEAN
  BY LedgerConstants
<1>2. /\ row \in PaymentRow /\ row.state = "live" /\ row.of = i
      /\ row.amount = a /\ row.posted
  BY <1>1 DEF Row, PaymentRow
<1>3. /\ payment' = [payment EXCEPT ![p] = row] /\ payment[p].state = "unused"
      /\ Exists(i) /\ a <= total[i] - paid[i] /\ Settle(i, a)
      /\ UNCHANGED <<total, reversed>> /\ PostInvoice(i) /\ status[i] # "CANCELLED"
  BY DEF RecordPayment, Record, PostInvoice
<1> HIDE DEF row
<1> QED BY <1>1, <1>2, <1>3, Recorded

LEMMA FulfillOnlineAgrees ==
  ASSUME SInv, NEW i \in Invoices, NEW p \in Payments, NEW r \in OnlineAmounts,
         FulfillOnline(i, p, r)
  PROVE  \A j \in Invoices : Agrees(j)'
<1>1. PICK amount \in Nat \ {0} :
        /\ amount = IF r <= total[i] - paid[i] THEN r ELSE total[i] - paid[i]
        /\ payment' = [payment EXCEPT ![p] = Row(i, amount, FALSE, FALSE)]
        /\ Settle(i, amount)
  BY DEF FulfillOnline
<1> DEFINE row == Row(i, amount, FALSE, FALSE)
<1>2. /\ row \in PaymentRow /\ row.state = "live" /\ row.of = i
      /\ row.amount = amount /\ ~row.posted
  BY DEF Row, PaymentRow
<1>3. r \in Nat /\ total[i] \in Nat /\ paid[i] \in Nat
  BY LedgerConstants DEF SInv, IInv, LedgerType
<1>4. amount <= total[i] - paid[i]
  BY <1>1, <1>3
<1>5. /\ payment[p].state = "unused" /\ Exists(i)
      /\ UNCHANGED <<total, reversed>> /\ UNCHANGED journal
  BY DEF FulfillOnline, ledgerVars
<1>6. payment' = [payment EXCEPT ![p] = row]
  BY <1>1
<1> HIDE DEF row
<1> QED BY <1>1, <1>2, <1>4, <1>5, <1>6, Recorded

\* A new invoice paid at once.
LEMMA CreateCashAgrees ==
  ASSUME SInv, NEW i \in Invoices, NEW p \in Payments, NEW t \in Amounts,
         CreateCash(i, p, t)
  PROVE  \A j \in Invoices : Agrees(j)'
<1> DEFINE row == Row(i, t, FALSE, TRUE)
<1>1. t \in Nat \ {0} /\ IInv
  BY LedgerConstants DEF SInv
<1>2. /\ row \in PaymentRow /\ row.state = "live" /\ row.of = i
      /\ row.amount = t
  BY <1>1 DEF Row, PaymentRow
<1>3. /\ payment' = [payment EXCEPT ![p] = row] /\ payment[p].state = "unused"
  BY DEF CreateCash
<1> HIDE DEF row
<1>4. /\ payment' \in [Payments -> PaymentRow]
      /\ Live(i)' = Live(i) \cup {p}
      /\ SumOf(payment', Live(i)') = SumOf(payment, Live(i)) + row.amount
      /\ \A j \in Invoices \ {i}, q \in Payments :
           \/ payment'[q] = payment[q]
           \/ /\ ~(payment[q].state = "live" /\ payment[q].of = j)
              /\ ~(payment'[q].state = "live" /\ payment'[q].of = j)
  BY <1>1, <1>2, <1>3, AddedRow
<1> USE DEF SInv, IInv, LedgerType
<1>5. ASSUME NEW j \in Invoices, j # i PROVE Agrees(j)'
  <2>1. /\ status'[j] = status[j] /\ pstatus'[j] = pstatus[j] /\ paid'[j] = paid[j]
        /\ total'[j] = total[j] /\ journal'[j] = journal[j] /\ (j \in reversed => j \in reversed')
    BY <1>5 DEF CreateCash
  <2>2. \A q \in Payments :
          \/ payment'[q] = payment[q]
          \/ /\ ~(payment[q].state = "live" /\ payment[q].of = j)
             /\ ~(payment'[q].state = "live" /\ payment'[q].of = j)
    BY <1>4, <1>5
  <2> QED BY <1>4, <2>1, <2>2, Untouched
<1>6. Agrees(i)'
  <2>1. Live(i) = {} /\ SumOf(payment, {}) = 0
    BY SumOfRows DEF CreateCash, Agrees
  <2>2. SumOf(payment', Live(i)') = t
    BY <1>1, <1>2, <1>4, <2>1
  <2>3. /\ status'[i] = "PAID" /\ pstatus'[i] = "PAID" /\ paid'[i] = t /\ total'[i] = t
        /\ journal'[i] = t
    BY DEF CreateCash
  <2>4. SumOf(payment, Live(i))' = t /\ Live(i)' # {}
    BY <1>4, <2>2
  <2> HIDE DEF SInv, IInv, LedgerType
  <2> QED BY <1>1, <2>3, <2>4 DEF Agrees
<1> QED BY <1>5, <1>6

\* Marked PAID: the rows there are count for no more than the total, and a row of
\* the total is made when there is none.
LEMMA MarkPaidAgrees ==
  ASSUME SInv, NEW i \in Invoices, NEW p \in Payments, MarkPaid(i, p)
  PROVE  \A j \in Invoices : Agrees(j)'
<1> DEFINE rows == IF Live(i) = {}
                     THEN [payment EXCEPT ![p] = Row(i, total[i], FALSE, FALSE)]
                     ELSE payment
           due == {q \in Payments : /\ rows[q].state = "live" /\ rows[q].of = i
                                    /\ ~rows[q].posted}
           lives == {q \in Payments : rows[q].state = "live" /\ rows[q].of = i}
<1> USE DEF SInv, IInv, LedgerType
<1>1. total[i] \in Nat \ {0} /\ paid[i] \in Nat /\ Agrees(i) /\ Exists(i)
  BY LedgerConstants DEF MarkPaid
<1>2. rows \in [Payments -> PaymentRow]
  BY <1>1 DEF Row, PaymentRow
<1>3. payment' = [q \in Payments |-> IF q \in due THEN [rows[q] EXCEPT !.posted = TRUE]
                                                  ELSE rows[q]]
  BY DEF MarkPaid
<1>4. SumOf(rows, lives) <= total[i] /\ lives # {}
  <2>1. CASE Live(i) = {}
    <3>1. /\ rows[p] = Row(i, total[i], FALSE, FALSE)
          /\ \A q \in Payments \ {p} : rows[q] = payment[q]
      BY <2>1
    <3>2. lives = {p} /\ rows[p].amount = total[i]
      BY <2>1, <3>1 DEF Live, Row
    <3>3. SumOf(rows, {p}) = rows[p].amount + SumOf(rows, {p} \ {p}) /\ SumOf(rows, {}) = 0
      <4> HIDE DEF rows
      <4> QED BY <1>2, SumOfRows
    <3>4. {p} \ {p} = {}
      OBVIOUS
    <3>5. SumOf(rows, {p}) = total[i]
      <4> HIDE DEF rows
      <4>1. SumOf(rows, {p}) = total[i] + 0
        BY <3>2, <3>3, <3>4, Zenon
      <4> QED BY <1>1, <4>1
    <3> HIDE DEF rows, lives
    <3> QED BY <1>1, <3>2, <3>5
  <2>2. CASE Live(i) # {}
    <3>1. rows = payment /\ lives = Live(i)
      BY <2>2 DEF Live
    <3>2. SumOf(payment, Live(i)) \in Nat
      BY SumOfRows DEF Live
    <3>3. SumOf(payment, Live(i)) <= paid[i] /\ paid[i] <= total[i]
      BY <1>1 DEF Agrees
    <3> HIDE DEF rows, lives
    <3> QED BY <1>1, <2>2, <3>1, <3>2, <3>3
  <2> QED BY <2>1, <2>2
<1>5. ASSUME NEW q \in Payments
      PROVE  /\ payment'[q] \in PaymentRow /\ payment'[q].amount = rows[q].amount
             /\ payment'[q].state = rows[q].state /\ payment'[q].of = rows[q].of
             /\ q \notin due => payment'[q] = rows[q]
  <2>1. rows[q] \in PaymentRow
    BY <1>2
  <2>2. payment'[q] = [rows[q] EXCEPT !.posted = TRUE] \/ payment'[q] = rows[q]
    BY <1>3
  <2>3. q \notin due => payment'[q] = rows[q]
    BY <1>3
  <2> HIDE DEF rows, due
  <2> QED BY <2>1, <2>2, <2>3 DEF PaymentRow
<1>6. payment' \in [Payments -> PaymentRow] /\ Live(i)' = lives
  <2> HIDE DEF rows, due
  <2> QED BY <1>3, <1>5 DEF Live
<1>7. SumOf(payment', lives) = SumOf(rows, lives)
  <2>1. \A q \in lives : payment'[q].amount = rows[q].amount
    BY <1>5
  <2>2. PICK new, L, R : new = payment' /\ L = lives /\ R = rows
    OBVIOUS
  <2>3. /\ L \in SUBSET Payments /\ new \in [Payments -> PaymentRow] /\ R \in [Payments -> PaymentRow]
        /\ \A q \in L : new[q].amount = R[q].amount
    BY <1>2, <1>6, <2>1, <2>2
  <2>4. SumOf(new, L) = SumOf(R, L)
    BY <2>3, SumOfSameRows
  <2> HIDE DEF rows, lives
  <2> QED BY <2>2, <2>4
<1>8. ASSUME NEW j \in Invoices, j # i PROVE Agrees(j)'
  <2>1. /\ status'[j] = status[j] /\ pstatus'[j] = pstatus[j] /\ paid'[j] = paid[j]
        /\ total'[j] = total[j] /\ journal'[j] = journal[j] /\ (j \in reversed => j \in reversed')
    BY <1>8 DEF MarkPaid, PostInvoice
  <2>2. ASSUME NEW q \in Payments
        PROVE  \/ payment'[q] = payment[q]
               \/ /\ ~(payment[q].state = "live" /\ payment[q].of = j)
                  /\ ~(payment'[q].state = "live" /\ payment'[q].of = j)
    <3>1. CASE rows[q] = payment[q]
      <4>1. q \notin due \/ rows[q].of = i
        OBVIOUS
      <4> HIDE DEF rows, due
      <4> QED BY <1>5, <1>8, <3>1, <4>1
    <3>2. CASE q = p /\ Live(i) = {}
      <4>1. payment[q].state = "unused" /\ rows[q].of = i
        BY <3>2 DEF MarkPaid, Row
      <4> HIDE DEF rows, due
      <4> QED BY <1>5, <1>8, <4>1
    <3> QED BY <3>1, <3>2
  <2> HIDE DEF rows, due, lives
  <2> QED BY <1>6, <2>1, <2>2, Untouched
<1>9. Agrees(i)'
  <2>1. /\ status'[i] = "PAID" /\ pstatus'[i] = "PAID" /\ paid'[i] = total[i]
        /\ total'[i] = total[i] /\ journal'[i] # 0
    BY <1>1 DEF MarkPaid, PostInvoice
  <2>2. SumOf(payment, Live(i))' <= total[i] /\ Live(i)' # {}
    <3> HIDE DEF rows, due, lives
    <3> QED BY <1>4, <1>6, <1>7
  <2> HIDE DEF SInv, IInv, LedgerType
  <2> QED BY <1>1, <2>1, <2>2 DEF Agrees
<1> QED BY <1>8, <1>9

-----------------------------------------------------------------------------
LEMMA NextAgrees == SInv /\ [Next]_vars => \A j \in Invoices : Agrees(j)'
<1> SUFFICES ASSUME SInv, [Next]_vars PROVE \A j \in Invoices : Agrees(j)'
  OBVIOUS
<1>1. ASSUME NEW i \in Invoices, OnInvoice(i) PROVE \A j \in Invoices : Agrees(j)'
  BY <1>1, RowOnly, AllTakenBack DEF OnInvoice
<1>2. ASSUME NEW i \in Invoices, NEW p \in Payments, OnPayment(i, p)
      PROVE  \A j \in Invoices : Agrees(j)'
  BY <1>2, MarkPaidAgrees, OneTakenBack, CreateCashAgrees, RecordPaymentAgrees,
     FulfillOnlineAgrees DEF OnPayment
<1>3. CASE UNCHANGED vars
  <2>1. payment' \in [Payments -> PaymentRow]
    BY <1>3 DEF vars, SInv, IInv, LedgerType
  <2> QED BY <1>3, <2>1, Untouched DEF vars, invoiceVars, ledgerVars
<1> QED BY <1>1, <1>2, <1>3 DEF Next

LEMMA InitSInv == Init => SInv
<1> SUFFICES ASSUME Init PROVE SInv
  OBVIOUS
<1>1. IInv
  BY InitIInv
<1>2. MoneyBooks
  BY DEF Init, MoneyBooks, Left
<1>3. paid \in [Invoices -> Nat] /\ pstatus \in [Invoices -> {"UNPAID", "PARTIAL", "PAID"}]
  BY DEF Init
<1>4. ASSUME NEW i \in Invoices PROVE Agrees(i)
  <2>1. Live(i) = {} /\ payment \in [Payments -> PaymentRow] /\ {} \in SUBSET Payments
    BY <1>1 DEF Init, Live, IInv, LedgerType
  <2>2. SumOf(payment, Live(i)) = 0
    BY <2>1, SumOfRows
  <2>3. status[i] = "absent" /\ pstatus[i] = "UNPAID" /\ paid[i] = 0
    BY DEF Init
  <2> QED BY <2>1, <2>2, <2>3 DEF Agrees, Exists
<1> QED BY <1>1, <1>2, <1>3, <1>4 DEF SInv, Init

\* The types of paidAmount, the payment status and the reversed set.
LEMMA NextSType ==
  SInv /\ [Next]_vars => /\ paid' \in [Invoices -> Nat]
                         /\ pstatus' \in [Invoices -> {"UNPAID", "PARTIAL", "PAID"}]
                         /\ reversed' \subseteq Invoices
<1> SUFFICES ASSUME SInv, [Next]_vars
             PROVE  /\ paid' \in [Invoices -> Nat]
                    /\ pstatus' \in [Invoices -> {"UNPAID", "PARTIAL", "PAID"}]
                    /\ reversed' \subseteq Invoices
  OBVIOUS
<1> DEFINE SType == /\ paid \in [Invoices -> Nat]
                    /\ pstatus \in [Invoices -> {"UNPAID", "PARTIAL", "PAID"}]
                    /\ reversed \subseteq Invoices
<1>1. SType /\ IInv
  BY DEF SInv
<1>2. ASSUME NEW i \in Invoices, OnInvoice(i) PROVE SType'
  BY <1>1, <1>2 DEF OnInvoice, Create, Update, Send, Unsend, Remove, SetStatus, Cancel,
     ReverseAllPayments, Recalc, PostInvoice, ReverseInvoice, ledgerVars
<1>3. ASSUME NEW i \in Invoices, NEW p \in Payments, OnPayment(i, p) PROVE SType'
  <2>1. CASE MarkPaid(i, p)
    BY <1>1, <2>1, LedgerConstants DEF MarkPaid, PostInvoice, IInv, LedgerType
  <2>2. CASE ReversePayment(i, p)
    <3>1. SumPaid(Live(i) \ {p}) \in Nat
      <4>1. Live(i) \ {p} \in SUBSET Payments /\ payment \in [Payments -> PaymentRow]
        BY <1>1 DEF Live, IInv, LedgerType
      <4> QED BY <4>1, SumOfRows DEF SumPaid, SumOf
    <3> QED BY <1>1, <2>2, <3>1 DEF ReversePayment, Recalc
  <2>3. ASSUME NEW t \in Amounts, CreateCash(i, p, t) PROVE SType'
    BY <1>1, <2>3, LedgerConstants DEF CreateCash
  <2>4. ASSUME NEW a \in Nat, Settle(i, a), UNCHANGED reversed PROVE SType'
    BY <1>1, <2>4 DEF Settle
  <2>5. ASSUME NEW a \in Amounts, NEW l \in Links, RecordPayment(i, p, a, l) PROVE SType'
    <3>1. a \in Nat /\ Settle(i, a) /\ UNCHANGED reversed
      BY <2>5, LedgerConstants DEF RecordPayment, Record, PostInvoice
    <3> QED BY <2>4, <3>1
  <2>6. ASSUME NEW r \in OnlineAmounts, FulfillOnline(i, p, r) PROVE SType'
    <3>1. \E a \in Nat : Settle(i, a) /\ UNCHANGED reversed
      BY <2>6 DEF FulfillOnline, ledgerVars
    <3> QED BY <2>4, <3>1
  <2> QED BY <1>3, <2>1, <2>2, <2>3, <2>5, <2>6 DEF OnPayment
<1>4. CASE UNCHANGED vars
  BY <1>1, <1>4 DEF vars, invoiceVars, ledgerVars
<1> QED BY <1>2, <1>3, <1>4 DEF Next

LEMMA NextSInv == SInv /\ [Next]_vars => SInv'
<1> SUFFICES ASSUME SInv, [Next]_vars PROVE SInv'
  OBVIOUS
<1> QED BY NextIInv, NextSType, NextMoney, NextAgrees DEF SInv

LEMMA AlwaysSInv == Spec => []SInv
BY InitSInv, NextSInv, PTL DEF Spec

\* However payments are recorded, marked, collected online and taken back, the
\* invoice's row and its payment rows agree.
THEOREM SettlementHolds == Spec => []SettlementBounds
<1>1. SInv => SettlementBounds
  <2>1. \A i \in Invoices : SumPaid(Live(i)) = SumOf(payment, Live(i))
    BY DEF SumPaid, SumOf
  <2> QED BY <2>1 DEF SInv, Agrees, SettlementBounds
<1> QED BY <1>1, AlwaysSInv, PTL

\* A payment taken back leaves nothing on the money accounts, but for one posted
\* to a linked bank account, which leaves the two accounts apart by its amount.
THEOREM ReversalTakesMoneyBack == Spec => []ReversalRestoresMoney
<1>1. SInv => ReversalRestoresMoney
  <2> SUFFICES ASSUME SInv, NEW p \in Payments, payment[p].state = "deleted"
               PROVE  money[p] = [a \in MoneyAccounts |->
                        IF a = "linked"
                          THEN IF payment[p].linked THEN payment[p].amount ELSE 0
                          ELSE -(IF payment[p].linked THEN payment[p].amount ELSE 0)]
    BY DEF ReversalRestoresMoney
  <2>1. money[p] = Left(payment[p])
    BY DEF SInv, MoneyBooks
  <2>2. CASE payment[p].linked
    BY <2>1, <2>2 DEF Left
  <2>3. CASE ~payment[p].linked
    <3>1. \A n \in Nat : -n = 0 - n
      OBVIOUS
    <3>2. PICK off : off = IF payment[p].linked THEN payment[p].amount ELSE 0
      OBVIOUS
    <3>3. off = 0 /\ off \in Nat
      BY <2>3, <3>2
    <3>4. -off = 0
      <4>1. -off = 0 - off
        BY <3>1, <3>3
      <4>2. 0 - off = 0
        BY <3>3
      <4> QED BY <4>1, <4>2
    <3>5. money[p] = [a \in MoneyAccounts |-> IF a = "linked" THEN off ELSE -off]
      BY <2>1, <2>3, <3>3, <3>4 DEF Left, NoMoney
    <3> QED BY <3>2, <3>5
  <2> QED BY <2>2, <2>3
<1> QED BY <1>1, AlwaysSInv, PTL

\* An invoice with a posted payment is in the ledger, and one that is cancelled
\* out of it unless it had been reversed before.
THEOREM CollectedInvoiceIsPosted == Spec => []CollectionIsPosted
<1>1. SInv => CollectionIsPosted
  BY DEF SInv, Agrees, CollectionIsPosted
<1> QED BY <1>1, AlwaysSInv, PTL

\* Between posting and reversal the journal of an invoice stays what it was.
THEOREM PostedStays == Spec => PostedIsFrozen
<1>1. SInv /\ [Next]_vars =>
        [\A i \in Invoices : journal[i] # 0 /\ journal'[i] # journal[i] =>
           journal'[i] = 0 /\ i \in reversed' \ reversed]_vars
  <2> DEFINE Frozen == \A i \in Invoices : journal[i] # 0 /\ journal'[i] # journal[i] =>
                         journal'[i] = 0 /\ i \in reversed' \ reversed
  <2> SUFFICES ASSUME SInv, Next PROVE Frozen
    OBVIOUS
  <2>0. journal \in [Invoices -> Nat] /\ AbsentUnposted
    BY DEF SInv, IInv, LedgerType
  <2>1. ASSUME NEW i \in Invoices,
               PostInvoice(i) \/ ReverseInvoice(i) \/ UNCHANGED journal
        PROVE  Frozen
    BY <2>0, <2>1 DEF PostInvoice, ReverseInvoice
  <2>2. ASSUME NEW i \in Invoices, OnInvoice(i) PROVE Frozen
    BY <2>1, <2>2 DEF OnInvoice, Create, Update, Send, Unsend, Remove, SetStatus, Cancel,
       ReverseAllPayments
  <2>3. ASSUME NEW i \in Invoices, NEW p \in Payments, OnPayment(i, p) PROVE Frozen
    <3>1. ASSUME NEW t \in Amounts, CreateCash(i, p, t) PROVE Frozen
      BY <2>0, <3>1 DEF CreateCash, AbsentUnposted
    <3> QED BY <2>1, <2>3, <3>1 DEF OnPayment, MarkPaid, ReversePayment, RecordPayment,
            FulfillOnline
  <2> QED BY <2>2, <2>3 DEF Next
<1> QED BY <1>1, AlwaysSInv, PTL DEF Spec, PostedIsFrozen

\* Money counted as paid is only taken back together with a row it came from: an
\* invoice that counts money has a payment row to take back.
THEOREM PaidDropsWithARow == Spec => PaidOnlyDropsByReversal
<1>1. SInv /\ [Next]_vars =>
        [\A i \in Invoices : paid'[i] < paid[i] =>
           \E p \in Live(i) : payment'[p].state = "deleted"]_vars
  <2> DEFINE Kept(i) == paid'[i] < paid[i] => \E p \in Live(i) : payment'[p].state = "deleted"
  <2> SUFFICES ASSUME SInv, Next PROVE \A i \in Invoices : Kept(i)
    OBVIOUS
  <2>0. paid \in [Invoices -> Nat] /\ payment \in [Payments -> PaymentRow]
    BY DEF SInv, IInv, LedgerType
  <2>1. ASSUME NEW i \in Invoices, OnInvoice(i) PROVE \A j \in Invoices : Kept(j)
    <3>1. ASSUME NEW p \in Live(i), DeletePayments(Live(i)) PROVE payment'[p].state = "deleted"
      BY <2>0, <3>1 DEF DeletePayments, Live, PaymentRow
    <3>2. ASSUME DeletePayments(Live(i)), paid' = [paid EXCEPT ![i] = 0]
          PROVE  \A j \in Invoices : Kept(j)
      <4>1. \A j \in Invoices \ {i} : paid'[j] = paid[j]
        BY <2>0, <3>2
      <4>2. \A j \in Invoices \ {i} : Kept(j)
        BY <2>0, <4>1
      <4>3. CASE paid[i] = 0
        <5>1. paid'[i] = 0
          BY <2>0, <3>2
        <5> QED BY <4>2, <4>3, <5>1
      <4>4. CASE paid[i] # 0
        <5>1. Live(i) # {}
          BY <2>0, <4>4 DEF SInv, Agrees
        <5> QED BY <3>1, <3>2, <4>2, <5>1
      <4> QED BY <4>3, <4>4
    <3>3. CASE UNCHANGED paid
      BY <2>0, <3>3
    <3> QED BY <2>1, <3>2, <3>3 DEF OnInvoice, Create, Update, Send, Unsend, Remove,
            SetStatus, Cancel, ReverseAllPayments, Recalc
  <2>2. ASSUME NEW i \in Invoices, NEW p \in Payments, OnPayment(i, p)
        PROVE  \A j \in Invoices : Kept(j)
    <3>1. ASSUME NEW q \in Nat, q >= paid[i], paid' = [paid EXCEPT ![i] = q]
          PROVE  \A j \in Invoices : Kept(j)
      BY <2>0, <3>1
    <3>2. CASE MarkPaid(i, p)
      <4>1. total[i] \in Nat /\ total[i] >= paid[i] /\ paid' = [paid EXCEPT ![i] = total[i]]
        BY <3>2, LedgerConstants DEF MarkPaid, SInv, Agrees, IInv, LedgerType
      <4> QED BY <3>1, <4>1
    <3>3. CASE ReversePayment(i, p)
      <4>1. p \in Live(i) /\ payment'[p].state = "deleted"
        BY <2>0, <3>3 DEF ReversePayment, DeletePayments, Live, PaymentRow
      <4>2. \A j \in Invoices \ {i} : paid'[j] = paid[j]
        BY <2>0, <3>3 DEF ReversePayment, Recalc
      <4> QED BY <2>0, <4>1, <4>2
    <3>4. ASSUME NEW t \in Amounts, CreateCash(i, p, t) PROVE \A j \in Invoices : Kept(j)
      <4>1. t \in Nat /\ paid' = [paid EXCEPT ![i] = t]
        BY <3>4, LedgerConstants DEF CreateCash
      <4>2. t >= paid[i]
        BY <3>4, <4>1 DEF CreateCash, SInv, Agrees
      <4> QED BY <3>1, <4>1, <4>2
    <3>5. ASSUME NEW a \in Nat, Settle(i, a) PROVE \A j \in Invoices : Kept(j)
      <4>1. paid[i] + a \in Nat /\ paid[i] + a >= paid[i]
        BY <2>0
      <4> QED BY <3>1, <3>5, <4>1 DEF Settle
    <3>6. ASSUME NEW a \in Amounts, NEW l \in Links, RecordPayment(i, p, a, l)
          PROVE  \A j \in Invoices : Kept(j)
      BY <3>5, <3>6, LedgerConstants DEF RecordPayment, Record
    <3>7. ASSUME NEW r \in OnlineAmounts, FulfillOnline(i, p, r)
          PROVE  \A j \in Invoices : Kept(j)
      BY <3>5, <3>7 DEF FulfillOnline
    <3> QED BY <2>2, <3>2, <3>3, <3>4, <3>6, <3>7 DEF OnPayment
  <2> QED BY <2>1, <2>2 DEF Next
<1> QED BY <1>1, AlwaysSInv, PTL DEF Spec, PaidOnlyDropsByReversal
=============================================================================
