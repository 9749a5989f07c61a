------------------------ MODULE OnlineCheckoutProofs ------------------------
(***************************************************************************)
(* Proofs about the online checkout, for any number of bills, invoices,    *)
(* requests, crashes and failed transactions.                              *)
(***************************************************************************)
EXTENDS OnlineCheckoutProps, FiniteSetTheorems, TLAPS

\* A request that has claimed a bill holds the lock of the bill's row, and the
\* bill is still PENDING in what is committed. A busy request serves a bill.
ClaimHeld ==
  \A h \in Handlers :
    /\ req[h].pc # "idle" => req[h].bill \in Bills
    /\ req[h].pc \in {"readInvoice", "commit"} =>
         /\ rowLock[req[h].bill] = h
         /\ bill[req[h].bill].status = "PENDING"
    /\ req[h].pc = "readInvoice" => IsCollection(req[h].bill)

\* The customer agreed to pay on the gateway's page; a bill asks for that.
Agreed(b) == session[b] \in {"approved", "charged"}
Due(b) == bill[b].amount > 0 /\ Gateway[b] # "MOCK_CARD"

\* How an unpaid bill is kept from the claim: no event and no fulfilment of a
\* bill that asks for an agreement without one, and only the request that made
\* the bill opens its session, once.
OpenedOnce ==
  /\ \A b \in Bills : bill[b].status = "absent" => session[b] = "none"
  /\ \A h \in Handlers :
       /\ ~At(h, "idle") => bill[req[h].bill].status # "absent"
       /\ At(h, "session") => session[req[h].bill] = "none"
  /\ \A g, h \in Handlers :
       At(g, "session") /\ At(h, "session") /\ req[g].bill = req[h].bill => g = h
Approval ==
  /\ PaidOnlyWhenApproved
  /\ \A b \in Bills : hooks[b] # {} => Agreed(b)
  /\ \A h \in Handlers :
       req[h].pc \in {"fulfil", "claim", "readInvoice", "commit"} /\ Due(req[h].bill)
         => Agreed(req[h].bill)

\* The money of collections. A bill asks for the whole invoice, so an invoice is
\* unpaid or paid in full, whatever a commit had read; a PAID bill has its
\* session stored, and a paid collection a paid invoice.
PaidInFull ==
  /\ \A i \in Invoices : /\ inv[i].paid \in {0, Total[i]}
                         /\ inv[i].pstatus = "PAID" <=> inv[i].paid = Total[i]
  /\ \A b \in Bills :
       /\ bill[b].status = "PAID" => bill[b].bound
       /\ pay[b] > 0 => bill[b].status = "PAID" /\ pay[b] <= bill[b].amount
       /\ IsCollection(b) /\ bill[b].status # "absent" => bill[b].amount = Total[Target[b]]
       /\ IsCollection(b) /\ bill[b].status = "PAID" => inv[Target[b]].paid = Total[Target[b]]
  /\ \A h \in Handlers : At(h, "commit") /\ IsCollection(req[h].bill) =>
       req[h].paid \in {0, inv[Target[req[h].bill]].paid}

IInv ==
  /\ TypeOK /\ ClaimHeld /\ SettledOnce
  /\ OpenedOnce /\ Approval /\ PaidInFull /\ PaidCheckIsClosed

-----------------------------------------------------------------------------

\* What a request's record may become keeps its type.
LEMMA GotoType ==
  ASSUME req \in [Handlers -> Request], NEW h \in Handlers, NEW step \in Steps,
         Goto(h, step)
  PROVE  req' \in [Handlers -> Request]
  BY DEF Goto, Request

LEMMA FinishType ==
  ASSUME req \in [Handlers -> Request], NEW h \in Handlers, Finish(h)
  PROVE  req' \in [Handlers -> Request]
  BY DEF Finish, Request, Idle, Steps

\* A request that moves on keeps its bill; no other request is touched.
LEMMA Moves ==
  ASSUME req \in [Handlers -> Request], NEW h \in Handlers, NEW step,
         Goto(h, step) \/ Finish(h)
  PROVE  /\ \A g \in Handlers \ {h} : req'[g] = req[g]
         /\ \/ req'[h].pc = step /\ req'[h].bill = req[h].bill
            \/ req'[h].pc = "idle"
  BY DEF Goto, Finish, Idle, Request

LEMMA ServeType ==
  ASSUME TypeOK, NEW h \in Handlers, NEW b \in Bills, NEW step \in Steps,
         Serve(h, b, step)
  PROVE  req' \in [Handlers -> Request]
<1>1. bill[b].bound \in BOOLEAN
  BY DEF TypeOK, BillRow
<1> QED BY <1>1 DEF Serve, Request, Idle, TypeOK

\* A commit of fulfillBillingInvoice keeps the bill, the lock and the count typed.
LEMMA SettleType ==
  ASSUME TypeOK, NEW h \in Handlers, NEW b \in Bills, SettleBill(h, b)
  PROVE  /\ bill' \in [Bills -> BillRow] /\ req' \in [Handlers -> Request]
         /\ rowLock' \in [Bills -> Handlers \cup {Nobody}]
         /\ applied' \in [Bills -> Nat]
         /\ UNCHANGED <<session, hooks, faults>>
<1>1. bill' \in [Bills -> BillRow]
  BY DEF SettleBill, TypeOK, BillRow, BillStatus
<1>2. req' \in [Handlers -> Request]
  BY FinishType DEF SettleBill, TypeOK
<1>3. rowLock' \in [Bills -> Handlers \cup {Nobody}] /\ applied' \in [Bills -> Nat]
  BY DEF SettleBill, TypeOK
<1> QED BY <1>1, <1>2, <1>3 DEF SettleBill, gateway

\* The initial state is well typed.
LEMMA InitType == Init => TypeOK
  BY CheckoutConstants DEF Init, TypeOK, BillStatus, Sessions, Steps, InvStatus,
     PayStatus, Idle, BillRow, InvoiceRow, Request

\* Every kind of step keeps the state well typed.
LEMMA NextType == TypeOK /\ ClaimHeld /\ [Next]_vars => TypeOK'
<1> SUFFICES ASSUME TypeOK, ClaimHeld, [Next]_vars PROVE TypeOK'
  OBVIOUS
<1> USE CheckoutConstants DEF TypeOK, gateway, books
<1>1. ASSUME NEW h \in Handlers, NEW b \in Bills, Arrive(h, b) PROVE TypeOK'
  <2>1. CASE CreateSubscriptionCheckout(h, b)
    <3>1. req' \in [Handlers -> Request]
      BY <2>1, ServeType DEF CreateSubscriptionCheckout, Steps
    <3> QED BY <2>1, <3>1 DEF CreateSubscriptionCheckout, BillRow, BillStatus
  <2>2. CASE CreateInvoiceCollectionCheckout(h, b)
    <3> DEFINE i == Target[b]
    <3>1. req' \in [Handlers -> Request]
      BY <2>2, ServeType DEF CreateInvoiceCollectionCheckout, Steps
    <3>2. i \in Invoices /\ inv[i].paid \in Nat /\ Total[i] \in Nat
          /\ inv[i].paid < Total[i]
      BY <2>2 DEF CreateInvoiceCollectionCheckout, IsCollection, InvoiceRow
    <3>3. Total[i] - inv[i].paid \in Nat
      BY <3>2
    <3>4. bill' \in [Bills -> BillRow]
      BY <2>2, <3>3 DEF CreateInvoiceCollectionCheckout, BillRow, BillStatus
    <3> QED BY <2>2, <3>1, <3>4 DEF CreateInvoiceCollectionCheckout
  <2>3. CASE CompleteCheckout(h, b)
    BY <2>3, ServeType DEF CompleteCheckout, Steps
  <2>4. CASE HandleWebhook(h, b)
    BY <2>4, ServeType DEF HandleWebhook, Steps
  <2>5. CASE ConfirmMockCardPayment(h, b)
    BY <2>5, ServeType DEF ConfirmMockCardPayment, Steps
  <2> QED BY <1>1, <2>1, <2>2, <2>3, <2>4, <2>5 DEF Arrive
<1>2. ASSUME NEW b \in Bills, CustomerPays(b) PROVE TypeOK'
  <2>1. session' \in [Bills -> Sessions]
    BY <1>2 DEF CustomerPays, Sessions
  <2>2. hooks' \in [Bills -> SUBSET Events]
    BY <1>2 DEF CustomerPays, Events
  <2> QED BY <1>2, <2>1, <2>2 DEF CustomerPays
<1>3. ASSUME NEW h \in Handlers, Proceed(h) PROVE TypeOK'
  <2> DEFINE b == req[h].bill
  <2>0. req[h].pc # "idle" => b \in Bills
    BY DEF ClaimHeld
  <2>1. CASE RunCheckout(h)
    <3>1. req' \in [Handlers -> Request]
      BY <2>1, GotoType, FinishType DEF RunCheckout, Steps
    <3>2. session' \in [Bills -> Sessions]
      BY <2>1 DEF RunCheckout, Sessions
    <3> QED BY <2>1, <3>1, <3>2 DEF RunCheckout
  <2>2. CASE StoreSession(h)
    <3>1. bill' \in [Bills -> BillRow]
      BY <2>2 DEF StoreSession, BillRow
    <3>2. req' \in [Handlers -> Request]
      BY <2>2, FinishType DEF StoreSession
    <3> QED BY <2>2, <3>1, <3>2 DEF StoreSession
  <2>3. CASE VerifyReturn(h)
    <3>1. req' \in [Handlers -> Request]
      BY <2>3, GotoType, FinishType DEF VerifyReturn, Steps
    <3>2. session' \in [Bills -> Sessions] /\ hooks' \in [Bills -> SUBSET Events]
      BY <2>3 DEF VerifyReturn, Sessions, Events
    <3> QED BY <2>3, <3>1, <3>2 DEF VerifyReturn
  <2>4. CASE ReadBill(h)
    <3>1. req' \in [Handlers -> Request]
      BY <2>4, GotoType, FinishType DEF ReadBill, Steps
    <3> QED BY <2>4, <3>1 DEF ReadBill
  <2>5. CASE Claim(h)
    <3>1. req' \in [Handlers -> Request]
      BY <2>5, GotoType, FinishType DEF Claim, Steps
    <3>2. rowLock' \in [Bills -> Handlers \cup {Nobody}]
      BY <2>5 DEF Claim
    <3> QED BY <2>5, <3>1, <3>2 DEF Claim
  <2>6. CASE ReadSalesInvoice(h)
    <3>1. b \in Bills
      BY <2>0, <2>6 DEF ReadSalesInvoice, At
    <3>2. Target[b] \in Invoices => inv[Target[b]].paid \in Nat
      BY DEF InvoiceRow
    <3>3. Target[b] \in Invoices
      BY <2>6, <3>1 DEF ReadSalesInvoice, ClaimHeld, At, IsCollection
    <3>4. req' \in [Handlers -> Request]
      <4>1. inv[Target[b]].paid \in Nat /\ "commit" \in Steps
        BY <3>2, <3>3 DEF Steps
      <4>2. req' = [req EXCEPT ![h].pc = "commit",
                               ![h].paid = inv[Target[b]].paid]
        BY <2>6 DEF ReadSalesInvoice
      <4>3. req'[h] = [req[h] EXCEPT !.pc = "commit", !.paid = inv[Target[b]].paid]
        BY <4>2
      <4>4. req'[h] \in Request
        BY <4>1, <4>3 DEF Request
      <4> QED BY <4>2, <4>4
    <3> QED BY <2>6, <3>4 DEF ReadSalesInvoice
  <2>7. CASE CommitSubscription(h)
    BY <2>0, <2>7, SettleType DEF CommitSubscription, At
  <2>8. CASE CommitNothingDue(h)
    BY <2>0, <2>8, SettleType DEF CommitNothingDue, At
  <2>9. CASE CommitCollection(h)
    <3> DEFINE i == Target[b]
               amount == Min2(bill[b].amount, Total[i] - req[h].paid)
    <3>1. b \in Bills /\ SettleBill(h, b) /\ i \in Invoices
      BY <2>0, <2>9 DEF CommitCollection, Collect, At, IsCollection
    <3>2. req[h].paid \in Nat /\ Total[i] \in Nat /\ req[h].paid < Total[i]
          /\ bill[b].amount \in Nat
      BY <3>1, <2>9 DEF CommitCollection, Collect, Request, BillRow
    <3>3. amount \in Nat /\ req[h].paid + amount \in Nat
      BY <3>2 DEF Min2
    <3>4. pay' \in [Bills -> Nat]
      BY <3>3, <2>9 DEF CommitCollection, Collect
    <3>5. inv' \in [Invoices -> InvoiceRow]
      BY <3>1, <3>3, <2>9 DEF CommitCollection, Collect, InvoiceRow, InvStatus, PayStatus
    <3>6. openCheck' \in SUBSET Invoices /\ plan' = plan
      BY <2>9 DEF CommitCollection, Collect
    <3> QED BY <3>1, <3>4, <3>5, <3>6, SettleType
  <2> QED BY <1>3, <2>1, <2>2, <2>3, <2>4, <2>5, <2>6, <2>7, <2>8, <2>9 DEF Proceed
<1>4. ASSUME NEW h \in Handlers, RequestFails(h) PROVE TypeOK'
  BY <1>4, FinishType DEF RequestFails, Unlock
<1>5. CASE ServerRestarts
  BY <1>5 DEF ServerRestarts, Unlock, Request, Idle, Steps
<1>6. CASE UNCHANGED vars
  BY <1>6 DEF vars
<1> QED BY <1>1, <1>2, <1>3, <1>4, <1>5, <1>6 DEF Next

-----------------------------------------------------------------------------
\* A request that moves on without touching bills and locks disturbs no claim.
LEMMA MovesOn ==
  ASSUME TypeOK, ClaimHeld, NEW h \in Handlers, ~At(h, "idle"),
         NEW step \in Steps \ {"idle", "readInvoice", "commit"},
         Goto(h, step) \/ Finish(h), UNCHANGED <<bill, rowLock>>
  PROVE  ClaimHeld'
<1>1. CASE Goto(h, step)
  BY <1>1 DEF Goto, TypeOK, ClaimHeld, Request, IsCollection, At
<1>2. CASE Finish(h)
  BY <1>2 DEF Finish, Idle, TypeOK, ClaimHeld, Request, IsCollection
<1> QED BY <1>1, <1>2

\* The claim survives every step: nobody but its holder releases the row, and
\* a bill whose row is locked stays PENDING in what is committed.
LEMMA NextClaim == TypeOK /\ ClaimHeld /\ [Next]_vars => ClaimHeld'
<1> SUFFICES ASSUME TypeOK, ClaimHeld, [Next]_vars PROVE ClaimHeld'
  OBVIOUS
<1> USE CheckoutConstants DEF gateway, books
<1>1. ASSUME NEW h \in Handlers, NEW b \in Bills, Arrive(h, b) PROVE ClaimHeld'
  <2> USE DEF Serve, Idle, Request, BillRow, TypeOK, ClaimHeld, At
  <2>1. CASE CreateSubscriptionCheckout(h, b)
    BY <2>1 DEF CreateSubscriptionCheckout, IsCollection
  <2>2. CASE CreateInvoiceCollectionCheckout(h, b)
    BY <2>2 DEF CreateInvoiceCollectionCheckout, IsCollection
  <2>3. CASE CompleteCheckout(h, b)
    BY <2>3 DEF CompleteCheckout, IsCollection
  <2>4. CASE HandleWebhook(h, b)
    BY <2>4 DEF HandleWebhook, IsCollection
  <2>5. CASE ConfirmMockCardPayment(h, b)
    BY <2>5 DEF ConfirmMockCardPayment, IsCollection
  <2> QED BY <1>1, <2>1, <2>2, <2>3, <2>4, <2>5 DEF Arrive
<1>2. ASSUME NEW b \in Bills, CustomerPays(b) PROVE ClaimHeld'
  BY <1>2 DEF CustomerPays, IsCollection, ClaimHeld
<1>3. ASSUME NEW h \in Handlers, Proceed(h) PROVE ClaimHeld'
  <2>0. ASSUME NEW step \in {"store", "fulfil", "claim"},
               Goto(h, step) \/ Finish(h), ~At(h, "idle"), UNCHANGED <<bill, rowLock>>
        PROVE  ClaimHeld'
    <3>1. step \in Steps \ {"idle", "readInvoice", "commit"}
      BY DEF Steps
    <3> QED BY <2>0, <3>1, MovesOn
  <2>1. CASE RunCheckout(h)
    BY <2>1, <2>0 DEF RunCheckout, At
  <2>2. CASE StoreSession(h)
    BY <2>2 DEF StoreSession, Goto, Finish, Idle,
       Request, BillRow, IsCollection, TypeOK, ClaimHeld, At
  <2>3. CASE VerifyReturn(h)
    BY <2>3, <2>0 DEF VerifyReturn, At
  <2>4. CASE ReadBill(h)
    BY <2>4, <2>0 DEF ReadBill, At
  <2>5. CASE Claim(h)
    <3> DEFINE b == req[h].bill
    <3>1. b \in Bills /\ rowLock[b] = Nobody /\ bill' = bill
      BY <2>5 DEF Claim, ClaimHeld, At
    <3>2. CASE bill[b].status = "PENDING"
      <4>1. rowLock' = [rowLock EXCEPT ![b] = h]
            /\ Goto(h, IF IsCollection(b) THEN "readInvoice" ELSE "commit")
        BY <2>5, <3>2 DEF Claim
      <4>2. \A g \in Handlers \ {h} : req'[g] = req[g]
        BY <4>1 DEF Goto, TypeOK
      <4>3. /\ req'[h].bill = b
            /\ req'[h].pc = IF IsCollection(b) THEN "readInvoice" ELSE "commit"
        BY <4>1 DEF Goto, TypeOK, Request
      <4> QED BY <3>1, <3>2, <4>1, <4>2, <4>3 DEF ClaimHeld, TypeOK
    <3>3. CASE bill[b].status # "PENDING"
      BY <2>5, <3>1, <3>3, <2>0 DEF Claim, At
    <3> QED BY <3>2, <3>3
  <2>6. CASE ReadSalesInvoice(h)
    BY <2>6 DEF ReadSalesInvoice, Goto, Finish, Idle,
       Request, BillRow, IsCollection, TypeOK, ClaimHeld, At
  <2>7. CASE CommitSubscription(h)
    BY <2>7 DEF CommitSubscription, SettleBill, Finish, Idle,
       Request, BillRow, IsCollection, TypeOK, ClaimHeld, At
  <2>8. CASE CommitNothingDue(h)
    BY <2>8 DEF CommitNothingDue, SettleBill, Finish, Idle,
       Request, BillRow, IsCollection, TypeOK, ClaimHeld, At
  <2>9. CASE CommitCollection(h)
    BY <2>9 DEF CommitCollection, Collect, SettleBill, Finish, Idle,
       Request, BillRow, IsCollection, TypeOK, ClaimHeld, At
  <2> QED BY <1>3, <2>1, <2>2, <2>3, <2>4, <2>5, <2>6, <2>7, <2>8, <2>9 DEF Proceed
<1>4. ASSUME NEW h \in Handlers, RequestFails(h) PROVE ClaimHeld'
  BY <1>4 DEF RequestFails, Unlock, Finish, Idle, IsCollection,
     TypeOK, ClaimHeld, At
<1>5. CASE ServerRestarts
  BY <1>5 DEF ServerRestarts, Unlock, Idle, TypeOK, ClaimHeld
<1>6. CASE UNCHANGED vars
  BY <1>6 DEF vars, IsCollection, ClaimHeld
<1> QED BY <1>1, <1>2, <1>3, <1>4, <1>5, <1>6 DEF Next

-----------------------------------------------------------------------------
\* What a step does to the bills, as the abstract specification sees it: it
\* settles one more PENDING bill with its effect, or it settles none.
Settles(b) ==
  /\ bill[b].status = "PENDING" /\ bill'[b].status = "PAID"
  /\ \A c \in Bills \ {b} : bill'[c].status = bill[c].status
  /\ applied' = [applied EXCEPT ![b] = @ + 1]
SettlesNone ==
  /\ \A c \in Bills : bill'[c].status = "PAID" <=> bill[c].status = "PAID"
  /\ applied' = applied

LEMMA StepSettles ==
  TypeOK /\ ClaimHeld /\ [Next]_vars => SettlesNone \/ \E b \in Bills : Settles(b)
<1> SUFFICES ASSUME TypeOK, ClaimHeld, [Next]_vars
             PROVE  SettlesNone \/ \E b \in Bills : Settles(b)
  OBVIOUS
<1> USE DEF books
<1>1. ASSUME NEW h \in Handlers, NEW b \in Bills, Arrive(h, b) PROVE SettlesNone
  <2>1. CASE CreateSubscriptionCheckout(h, b)
    BY <2>1 DEF CreateSubscriptionCheckout, SettlesNone, TypeOK, BillRow
  <2>2. CASE CreateInvoiceCollectionCheckout(h, b)
    BY <2>2 DEF CreateInvoiceCollectionCheckout, SettlesNone, TypeOK, BillRow
  <2> QED BY <1>1, <2>1, <2>2 DEF Arrive, CompleteCheckout, HandleWebhook,
          ConfirmMockCardPayment, SettlesNone
<1>2. ASSUME NEW b \in Bills, CustomerPays(b) PROVE SettlesNone
  BY <1>2 DEF CustomerPays, SettlesNone
<1>3. ASSUME NEW h \in Handlers, Proceed(h)
      PROVE  SettlesNone \/ \E b \in Bills : Settles(b)
  <2>1. ASSUME At(h, "commit"), SettleBill(h, req[h].bill)
        PROVE  Settles(req[h].bill) /\ req[h].bill \in Bills
    BY <2>1 DEF At, SettleBill, Settles, ClaimHeld, TypeOK, BillRow
  <2>2. CASE CommitSubscription(h) \/ CommitNothingDue(h) \/ CommitCollection(h)
    BY <2>1, <2>2 DEF CommitSubscription, CommitNothingDue, CommitCollection, Collect
  <2>3. CASE StoreSession(h)
    BY <2>3 DEF StoreSession, SettlesNone, TypeOK, BillRow
  <2>4. CASE RunCheckout(h) \/ VerifyReturn(h) \/ ReadBill(h) \/ Claim(h)
             \/ ReadSalesInvoice(h)
    BY <2>4 DEF RunCheckout, VerifyReturn, ReadBill, Claim, ReadSalesInvoice,
       SettlesNone
  <2> QED BY <1>3, <2>2, <2>3, <2>4 DEF Proceed
<1>4. ASSUME NEW h \in Handlers, RequestFails(h) PROVE SettlesNone
  BY <1>4 DEF RequestFails, SettlesNone
<1>5. CASE ServerRestarts
  BY <1>5 DEF ServerRestarts, SettlesNone
<1>6. CASE UNCHANGED vars
  BY <1>6 DEF vars, SettlesNone
<1> QED BY <1>1, <1>2, <1>3, <1>4, <1>5, <1>6 DEF Next

LEMMA NextOnce == IInv /\ [Next]_vars => SettledOnce'
<1> SUFFICES ASSUME IInv, [Next]_vars PROVE SettledOnce'
  OBVIOUS
<1>1. SettlesNone \/ \E b \in Bills : Settles(b)
  BY StepSettles DEF IInv
<1>2. CASE SettlesNone
  BY <1>2 DEF SettlesNone, IInv, SettledOnce
<1>3. ASSUME NEW b \in Bills, Settles(b) PROVE SettledOnce'
  BY <1>3 DEF Settles, IInv, SettledOnce, TypeOK
<1> QED BY <1>1, <1>2, <1>3

-----------------------------------------------------------------------------
\* What the steps of a request do to the requests, the bills and the sessions,
\* in the terms the invariants below need.
LEMMA Opens ==
  ASSUME TypeOK, NEW h \in Handlers, RunCheckout(h)
  PROVE  /\ \A g \in Handlers \ {h} : req'[g] = req[g]
         /\ req'[h].pc \in {"store", "idle"}
         /\ req'[h].pc = "idle" \/ req'[h].bill = req[h].bill
         /\ UNCHANGED <<bill, hooks>> /\ At(h, "session")
         /\ \A c \in Bills \ {req[h].bill} : session'[c] = session[c]
<1>1. CASE Goto(h, "store")
  BY <1>1, Moves DEF RunCheckout, TypeOK
<1>2. CASE Finish(h)
  BY <1>2, Moves DEF RunCheckout, TypeOK
<1> QED BY <1>1, <1>2 DEF RunCheckout

LEMMA Verifies ==
  ASSUME TypeOK, NEW h \in Handlers, VerifyReturn(h), req[h].bill \in Bills
  PROVE  /\ \A g \in Handlers \ {h} : req'[g] = req[g]
         /\ req'[h].pc \in {"idle", "fulfil"}
         /\ req'[h].pc = "fulfil" =>
              /\ req'[h].bill = req[h].bill
              /\ Gateway[req[h].bill] = "MOCK_CARD" \/ session'[req[h].bill] = "charged"
         /\ bill' = bill
         /\ \A c \in Bills : \/ session'[c] = session[c] /\ hooks'[c] = hooks[c]
                             \/ session[c] = "approved" /\ session'[c] = "charged"
<1> DEFINE b == req[h].bill
<1>1. \A c \in Bills : \/ session'[c] = session[c] /\ hooks'[c] = hooks[c]
                       \/ session[c] = "approved" /\ session'[c] = "charged"
  BY DEF VerifyReturn, TypeOK
<1>2. bill' = bill
  BY DEF VerifyReturn
<1>3. CASE Finish(h)
  BY <1>1, <1>2, <1>3 DEF Finish, Idle, TypeOK
<1>4. CASE Goto(h, "fulfil") /\ ~Finish(h)
  <2>1. req' = [req EXCEPT ![h].pc = "fulfil"]
    BY <1>4 DEF Goto
  <2>2. req'[h].pc = "fulfil" /\ req'[h].bill = b /\ \A g \in Handlers \ {h} : req'[g] = req[g]
    BY <2>1 DEF TypeOK, Request
  <2>3. b \in Bills => Gateway[b] = "MOCK_CARD" \/ session'[b] = "charged"
    BY <1>4 DEF VerifyReturn, TypeOK
  <2> QED BY <1>1, <1>2, <2>2, <2>3
<1> QED BY <1>3, <1>4 DEF VerifyReturn

LEMMA Reads ==
  ASSUME TypeOK, NEW h \in Handlers, ReadBill(h) \/ Claim(h) \/ ReadSalesInvoice(h)
  PROVE  /\ \A g \in Handlers \ {h} : req'[g] = req[g]
         /\ \/ req'[h].pc = "idle"
            \/ /\ req'[h].pc \in {"claim", "readInvoice", "commit"}
               /\ req'[h].bill = req[h].bill
         /\ UNCHANGED <<bill, session, hooks>>
         /\ req[h].pc \in {"fulfil", "claim", "readInvoice"}
<1>1. CASE ReadBill(h)
  BY <1>1, Moves DEF ReadBill, TypeOK, At, gateway
<1>2. CASE Claim(h)
  BY <1>2, Moves DEF Claim, TypeOK, At, gateway
<1>3. CASE ReadSalesInvoice(h)
  BY <1>3 DEF ReadSalesInvoice, TypeOK, Request, At, gateway
<1> QED BY <1>1, <1>2, <1>3

LEMMA Commits ==
  ASSUME TypeOK, ClaimHeld, NEW h \in Handlers, NEW b \in Bills, b = req[h].bill,
         CommitSubscription(h) \/ CommitNothingDue(h) \/ CommitCollection(h)
  PROVE  /\ At(h, "commit") /\ bill[b].status = "PENDING"
         /\ \A g \in Handlers \ {h} : req'[g] = req[g]
         /\ req'[h].pc = "idle" /\ UNCHANGED <<session, hooks>>
         /\ bill'[b].status = "PAID" /\ bill'[b].bound /\ bill'[b].amount = bill[b].amount
         /\ \A c \in Bills \ {b} : bill'[c] = bill[c]
<1>1. SettleBill(h, b) /\ At(h, "commit") /\ bill[b].status = "PENDING"
  BY DEF CommitSubscription, CommitNothingDue, CommitCollection, Collect, ClaimHeld, At
<1> QED BY <1>1 DEF SettleBill, Finish, Idle, TypeOK, BillRow, gateway

\* A session is opened once and only for a bill that exists.
LEMMA NextOpened == TypeOK /\ ClaimHeld /\ OpenedOnce /\ [Next]_vars => OpenedOnce'
<1> SUFFICES ASSUME TypeOK, ClaimHeld, OpenedOnce, [Next]_vars PROVE OpenedOnce'
  OBVIOUS
<1> USE CheckoutConstants DEF gateway, books
<1>1. ASSUME NEW h \in Handlers, NEW b \in Bills, Arrive(h, b) PROVE OpenedOnce'
  <2> USE DEF Serve, Idle, Request, BillRow, TypeOK, ClaimHeld, At, OpenedOnce
  <2>1. CASE CreateSubscriptionCheckout(h, b)
    BY <2>1 DEF CreateSubscriptionCheckout
  <2>2. CASE CreateInvoiceCollectionCheckout(h, b)
    BY <2>2 DEF CreateInvoiceCollectionCheckout
  <2>3. CASE CompleteCheckout(h, b)
    BY <2>3 DEF CompleteCheckout
  <2>4. CASE HandleWebhook(h, b)
    BY <2>4 DEF HandleWebhook
  <2>5. CASE ConfirmMockCardPayment(h, b)
    BY <2>5 DEF ConfirmMockCardPayment
  <2> QED BY <1>1, <2>1, <2>2, <2>3, <2>4, <2>5 DEF Arrive
<1>2. ASSUME NEW b \in Bills, CustomerPays(b) PROVE OpenedOnce'
  BY <1>2 DEF CustomerPays, OpenedOnce, TypeOK, ClaimHeld, At
<1>3. ASSUME NEW h \in Handlers, Proceed(h) PROVE OpenedOnce'
  <2>0. PICK b \in Bills : b = req[h].bill /\ bill[b].status # "absent"
    BY <1>3 DEF Proceed, RunCheckout, StoreSession, VerifyReturn, ReadBill, Claim,
       ReadSalesInvoice, CommitSubscription, CommitNothingDue, CommitCollection,
       ClaimHeld, OpenedOnce, At
  <2>1. CASE RunCheckout(h)
    BY <2>0, <2>1, Opens DEF ClaimHeld, At, OpenedOnce
  <2>2. CASE StoreSession(h)
    BY <2>2 DEF StoreSession, Finish, Idle, Request, BillRow, TypeOK, ClaimHeld, At, OpenedOnce
  <2>3. CASE VerifyReturn(h)
    <3>1. /\ \A g \in Handlers \ {h} : req'[g] = req[g]
          /\ req'[h].pc \in {"idle", "fulfil"}
          /\ req'[h].pc = "fulfil" =>
               /\ req'[h].bill = b
               /\ Gateway[b] = "MOCK_CARD" \/ session'[b] = "charged"
          /\ bill' = bill
          /\ \A c \in Bills : \/ session'[c] = session[c] /\ hooks'[c] = hooks[c]
                              \/ session[c] = "approved" /\ session'[c] = "charged"
      BY <2>0, <2>3, Verifies
    <3> QED BY <2>0, <3>1 DEF ClaimHeld, At, OpenedOnce
  <2>4. CASE ReadBill(h) \/ Claim(h) \/ ReadSalesInvoice(h)
    BY <2>0, <2>4, Reads DEF ClaimHeld, At, OpenedOnce
  <2>5. CASE CommitSubscription(h) \/ CommitNothingDue(h) \/ CommitCollection(h)
    <3>1. /\ \A g \in Handlers \ {h} : req'[g] = req[g]
          /\ req'[h].pc = "idle" /\ UNCHANGED <<session, hooks>>
          /\ bill'[b].status = "PAID" /\ bill'[b].amount = bill[b].amount
          /\ \A c \in Bills \ {b} : bill'[c] = bill[c]
      BY <2>0, <2>5, Commits
    <3> QED BY <2>0, <3>1 DEF ClaimHeld, At, OpenedOnce
  <2> QED BY <1>3, <2>1, <2>2, <2>3, <2>4, <2>5 DEF Proceed
<1>4. ASSUME NEW h \in Handlers, RequestFails(h) PROVE OpenedOnce'
  BY <1>4 DEF RequestFails, Finish, Idle, TypeOK, ClaimHeld, At, OpenedOnce
<1>5. CASE ServerRestarts
  BY <1>5 DEF ServerRestarts, Idle, TypeOK, At, OpenedOnce
<1>6. CASE UNCHANGED vars
  BY <1>6 DEF vars, At, OpenedOnce
<1> QED BY <1>1, <1>2, <1>3, <1>4, <1>5, <1>6 DEF Next

\* Nothing but an agreement of the customer makes an event or a fulfilment.
LEMMA NextApproval ==
  TypeOK /\ ClaimHeld /\ OpenedOnce /\ Approval /\ [Next]_vars => Approval'
<1> SUFFICES ASSUME TypeOK, ClaimHeld, OpenedOnce, Approval, [Next]_vars PROVE Approval'
  OBVIOUS
<1> USE CheckoutConstants DEF gateway, books, Agreed, Due, PaidOnlyWhenApproved
<1>1. ASSUME NEW h \in Handlers, NEW b \in Bills, Arrive(h, b) PROVE Approval'
  <2> USE DEF Serve, Idle, Request, BillRow, TypeOK, ClaimHeld, At, OpenedOnce, Approval
  <2>1. CASE CreateSubscriptionCheckout(h, b)
    BY <2>1 DEF CreateSubscriptionCheckout
  <2>2. CASE CreateInvoiceCollectionCheckout(h, b)
    <3>1. /\ \A c \in Bills \ {b} : bill'[c] = bill[c]
          /\ bill'[b].status = "PENDING" /\ bill[b].status = "absent"
          /\ UNCHANGED <<session, hooks>>
      BY <2>2 DEF CreateInvoiceCollectionCheckout
    <3>2. /\ \A g \in Handlers \ {h} : req'[g] = req[g]
          /\ req'[h].pc = "session"
      BY <2>2 DEF CreateInvoiceCollectionCheckout
    <3>3. \A g \in Handlers : ~At(g, "idle") => req[g].bill \in Bills \ {b}
      BY <3>1
    <3> HIDE DEF Serve, Idle, Request, BillRow, TypeOK, ClaimHeld
    <3> QED BY <3>1, <3>2, <3>3
  <2>3. CASE CompleteCheckout(h, b)
    BY <2>3 DEF CompleteCheckout
  <2>4. CASE HandleWebhook(h, b)
    BY <2>4 DEF HandleWebhook
  <2>5. CASE ConfirmMockCardPayment(h, b)
    BY <2>5 DEF ConfirmMockCardPayment
  <2> QED BY <1>1, <2>1, <2>2, <2>3, <2>4, <2>5 DEF Arrive
<1>2. ASSUME NEW b \in Bills, CustomerPays(b) PROVE Approval'
  BY <1>2 DEF CustomerPays, Approval, TypeOK, ClaimHeld, At
<1>3. ASSUME NEW h \in Handlers, Proceed(h) PROVE Approval'
  <2>0. PICK b \in Bills : b = req[h].bill /\ bill[b].status # "absent"
    BY <1>3 DEF Proceed, RunCheckout, StoreSession, VerifyReturn, ReadBill, Claim,
       ReadSalesInvoice, CommitSubscription, CommitNothingDue, CommitCollection,
       ClaimHeld, OpenedOnce, At
  <2>1. CASE RunCheckout(h)
    BY <2>0, <2>1, Opens DEF ClaimHeld, At, OpenedOnce, Approval
  <2>2. CASE StoreSession(h)
    BY <2>2 DEF StoreSession, Finish, Idle, Request, BillRow, TypeOK, ClaimHeld, At, OpenedOnce, Approval
  <2>3. CASE VerifyReturn(h)
    <3>1. /\ \A g \in Handlers \ {h} : req'[g] = req[g]
          /\ req'[h].pc \in {"idle", "fulfil"}
          /\ req'[h].pc = "fulfil" =>
               /\ req'[h].bill = b
               /\ Gateway[b] = "MOCK_CARD" \/ session'[b] = "charged"
          /\ bill' = bill
          /\ \A c \in Bills : \/ session'[c] = session[c] /\ hooks'[c] = hooks[c]
                              \/ session[c] = "approved" /\ session'[c] = "charged"
      BY <2>0, <2>3, Verifies
    <3> QED BY <2>0, <3>1 DEF ClaimHeld, At, OpenedOnce, Approval
  <2>4. CASE ReadBill(h) \/ Claim(h) \/ ReadSalesInvoice(h)
    BY <2>0, <2>4, Reads DEF ClaimHeld, At, OpenedOnce, Approval
  <2>5. CASE CommitSubscription(h) \/ CommitNothingDue(h) \/ CommitCollection(h)
    <3>1. /\ \A g \in Handlers \ {h} : req'[g] = req[g]
          /\ req'[h].pc = "idle" /\ UNCHANGED <<session, hooks>> /\ At(h, "commit")
          /\ bill'[b].status = "PAID" /\ bill'[b].amount = bill[b].amount
          /\ \A c \in Bills \ {b} : bill'[c] = bill[c]
      BY <2>0, <2>5, Commits
    <3> QED BY <2>0, <3>1 DEF ClaimHeld, At, OpenedOnce, Approval
  <2> QED BY <1>3, <2>1, <2>2, <2>3, <2>4, <2>5 DEF Proceed
<1>4. ASSUME NEW h \in Handlers, RequestFails(h) PROVE Approval'
  BY <1>4 DEF RequestFails, Finish, Idle, TypeOK, ClaimHeld, At, Approval
<1>5. CASE ServerRestarts
  BY <1>5 DEF ServerRestarts, Idle, TypeOK, At, Approval
<1>6. CASE UNCHANGED vars
  BY <1>6 DEF vars, At, Approval
<1> QED BY <1>1, <1>2, <1>3, <1>4, <1>5, <1>6 DEF Next

\* A commit that collects reads an unpaid invoice as unpaid, and pays it in full.
LEMMA Collects ==
  ASSUME TypeOK, ClaimHeld, PaidInFull, NEW h \in Handlers, NEW b \in Bills,
         b = req[h].bill, CommitCollection(h)
  PROVE  /\ IsCollection(b) /\ pay[b] = 0 /\ At(h, "commit")
         /\ pay' = [pay EXCEPT ![b] = Total[Target[b]]]
         /\ \A i \in Invoices \ {Target[b]} : inv'[i] = inv[i]
         /\ inv'[Target[b]].paid = Total[Target[b]] /\ inv'[Target[b]].pstatus = "PAID"
         /\ openCheck' = openCheck \ {Target[b]}
         /\ Total[Target[b]] = bill[b].amount
<1> DEFINE i == Target[b]
<1>1. /\ At(h, "commit") /\ IsCollection(b) /\ i \in Invoices
      /\ req[h].paid < Total[i] /\ pay[b] = 0
      /\ Collect(h, req[h].paid, Min2(bill[b].amount, Total[i] - req[h].paid))
  BY DEF CommitCollection, Collect, IsCollection
<1>2. Total[i] \in Nat \ {0} /\ bill[b].amount = Total[i] /\ req[h].paid = 0
  BY <1>1, CheckoutConstants DEF PaidInFull, ClaimHeld, At, TypeOK
<1>3. Collect(h, 0, Total[i])
  BY <1>1, <1>2 DEF Min2
<1>4. 0 + Total[i] >= Total[i] /\ 0 + Total[i] = Total[i]
  BY <1>2
<1>5. inv' = [inv EXCEPT ![i] = [status |-> "PAID", pstatus |-> "PAID", paid |-> Total[i]]]
      /\ pay' = [pay EXCEPT ![b] = Total[i]] /\ openCheck' = openCheck \ {i}
  BY <1>3, <1>4 DEF Collect
<1>6. /\ \A j \in Invoices \ {i} : inv'[j] = inv[j]
      /\ inv'[i].paid = Total[i] /\ inv'[i].pstatus = "PAID"
  BY <1>1, <1>5 DEF TypeOK
<1> QED BY <1>1, <1>2, <1>5, <1>6

\* Invoices stay unpaid or paid in full, and a check closes with its invoice.
LEMMA NextPaid ==
  ASSUME TypeOK, ClaimHeld, OpenedOnce, PaidInFull, PaidCheckIsClosed, [Next]_vars
  PROVE  PaidInFull' /\ PaidCheckIsClosed'
<1> USE CheckoutConstants DEF gateway, books
<1>1. ASSUME NEW h \in Handlers, NEW b \in Bills, Arrive(h, b)
      PROVE  PaidInFull' /\ PaidCheckIsClosed'
  <2> USE DEF Serve, Idle, Request, BillRow, TypeOK, ClaimHeld, At, PaidInFull,
              PaidCheckIsClosed
  <2>1. CASE CreateSubscriptionCheckout(h, b)
    BY <2>1 DEF CreateSubscriptionCheckout, IsCollection
  <2>2. CASE CreateInvoiceCollectionCheckout(h, b)
    <3>1. inv[Target[b]].paid = 0 /\ Target[b] \in Invoices
      BY <2>2 DEF CreateInvoiceCollectionCheckout, IsCollection
    <3>2. Total[Target[b]] - inv[Target[b]].paid = Total[Target[b]]
      BY <3>1
    <3>3. /\ bill'[b] = [status |-> "PENDING", bound |-> FALSE, amount |-> Total[Target[b]]]
          /\ \A c \in Bills \ {b} : bill'[c] = bill[c]
      <4>1. bill' = [bill EXCEPT ![b] = [status |-> "PENDING", bound |-> FALSE,
                                         amount |-> Total[Target[b]] - inv[Target[b]].paid]]
        BY <2>2 DEF CreateInvoiceCollectionCheckout
      <4>2. bill' = [bill EXCEPT ![b] = [status |-> "PENDING", bound |-> FALSE,
                                         amount |-> Total[Target[b]]]]
        BY <3>2, <4>1, Zenon
      <4> QED BY <4>2
    <3>4. ~(pay[b] > 0)
      BY <2>2 DEF CreateInvoiceCollectionCheckout
    <3> QED BY <2>2, <3>3, <3>4 DEF CreateInvoiceCollectionCheckout, IsCollection
  <2>3. CASE CompleteCheckout(h, b)
    BY <2>3 DEF CompleteCheckout, IsCollection
  <2>4. CASE HandleWebhook(h, b)
    BY <2>4 DEF HandleWebhook, IsCollection
  <2>5. CASE ConfirmMockCardPayment(h, b)
    BY <2>5 DEF ConfirmMockCardPayment, IsCollection
  <2> QED BY <1>1, <2>1, <2>2, <2>3, <2>4, <2>5 DEF Arrive
<1>2. ASSUME NEW b \in Bills, CustomerPays(b) PROVE PaidInFull' /\ PaidCheckIsClosed'
  BY <1>2 DEF CustomerPays, PaidInFull, PaidCheckIsClosed, At, IsCollection
<1>3. ASSUME NEW h \in Handlers, Proceed(h) PROVE PaidInFull' /\ PaidCheckIsClosed'
  <2> USE DEF PaidInFull, PaidCheckIsClosed, At, IsCollection
  <2>0. PICK b \in Bills : b = req[h].bill /\ bill[b].status # "absent"
    BY <1>3 DEF Proceed, RunCheckout, StoreSession, VerifyReturn, ReadBill, Claim,
       ReadSalesInvoice, CommitSubscription, CommitNothingDue, CommitCollection,
       ClaimHeld, OpenedOnce, At
  <2>1. CASE RunCheckout(h) \/ VerifyReturn(h)
    <3>1. /\ \A g \in Handlers \ {h} : req'[g] = req[g]
          /\ req'[h].pc \in {"store", "fulfil", "idle"}
          /\ UNCHANGED <<bill, books>>
      BY <2>0, <2>1, Opens, Verifies DEF RunCheckout, VerifyReturn
    <3> QED BY <3>1
  <2>2. CASE StoreSession(h)
    <3>1. /\ \A g \in Handlers \ {h} : req'[g] = req[g]
          /\ req'[h].pc = "idle" /\ UNCHANGED books
          /\ \A c \in Bills : /\ bill'[c].status = bill[c].status
                              /\ bill'[c].amount = bill[c].amount
                              /\ bill[c].bound => bill'[c].bound
      BY <2>2 DEF StoreSession, Finish, Idle, TypeOK, BillRow
    <3> QED BY <3>1
  <2>3. CASE ReadBill(h) \/ Claim(h) \/ ReadSalesInvoice(h)
    <3>1. /\ \A g \in Handlers \ {h} : req'[g] = req[g]
          /\ UNCHANGED <<bill, books>>
      BY <2>3, Reads DEF ReadBill, Claim, ReadSalesInvoice
    <3>2. req'[h].pc = "commit" /\ IsCollection(req'[h].bill) =>
            req'[h].bill = b /\ req'[h].paid = inv[Target[b]].paid
      <4>1. CASE ReadBill(h)
        BY <4>1 DEF ReadBill, Goto, Finish, Idle, TypeOK, Request
      <4>2. CASE Claim(h)
        BY <2>0, <4>2 DEF Claim, Goto, Finish, Idle, TypeOK, Request
      <4>3. CASE ReadSalesInvoice(h)
        BY <2>0, <4>3 DEF ReadSalesInvoice, TypeOK, Request
      <4> QED BY <2>3, <4>1, <4>2, <4>3
    <3> QED BY <3>1, <3>2
  <2>4. CASE CommitSubscription(h)
    BY <2>0, <2>4, Commits DEF CommitSubscription, TypeOK
  <2>5. CASE CommitNothingDue(h)
    <3>1. UNCHANGED <<inv, pay, openCheck>> /\ inv[Target[b]].paid = Total[Target[b]]
      BY <2>0, <2>5 DEF CommitNothingDue, TypeOK
    <3> QED BY <2>0, <2>5, <3>1, Commits DEF TypeOK
  <2>6. CASE CommitCollection(h)
    <3>1. /\ At(h, "commit") /\ bill[b].status = "PENDING"
          /\ \A g \in Handlers \ {h} : req'[g] = req[g]
          /\ req'[h].pc = "idle" /\ UNCHANGED <<session, hooks>>
          /\ bill'[b].status = "PAID" /\ bill'[b].bound /\ bill'[b].amount = bill[b].amount
          /\ \A c \in Bills \ {b} : bill'[c] = bill[c]
      BY <2>0, <2>6, Commits
    <3>2. /\ IsCollection(b)
          /\ pay' = [pay EXCEPT ![b] = Total[Target[b]]]
          /\ \A i \in Invoices \ {Target[b]} : inv'[i] = inv[i]
          /\ inv'[Target[b]].paid = Total[Target[b]] /\ inv'[Target[b]].pstatus = "PAID"
          /\ openCheck' = openCheck \ {Target[b]}
          /\ Total[Target[b]] = bill[b].amount
      BY <2>0, <2>6, Collects
    <3>3. PaidCheckIsClosed'
      BY <3>2 DEF TypeOK
    <3>4. \A i \in Invoices : /\ inv'[i].paid \in {0, Total[i]}
                              /\ inv'[i].pstatus = "PAID" <=> inv'[i].paid = Total[i]
                              /\ inv'[i].paid = inv[i].paid \/ inv'[i].paid = Total[i]
      BY <3>2
    <3>5. pay \in [Bills -> Nat] /\ Total[Target[b]] \in Nat
      BY <3>2 DEF TypeOK
    <3>6. \A c \in Bills : pay'[c] > 0 => bill'[c].status = "PAID" /\ pay'[c] <= bill'[c].amount
      BY <3>1, <3>2, <3>5
    <3> QED BY <3>1, <3>2, <3>3, <3>4, <3>6
  <2> QED BY <1>3, <2>1, <2>2, <2>3, <2>4, <2>5, <2>6 DEF Proceed
<1>4. ASSUME NEW h \in Handlers, RequestFails(h) PROVE PaidInFull' /\ PaidCheckIsClosed'
  BY <1>4 DEF RequestFails, Finish, Idle, TypeOK, At, PaidInFull, PaidCheckIsClosed, IsCollection
<1>5. CASE ServerRestarts
  BY <1>5 DEF ServerRestarts, Idle, TypeOK, At, PaidInFull, PaidCheckIsClosed, IsCollection
<1>6. CASE UNCHANGED vars
  BY <1>6 DEF vars, At, PaidInFull, PaidCheckIsClosed, IsCollection
<1> QED BY <1>1, <1>2, <1>3, <1>4, <1>5, <1>6 DEF Next

-----------------------------------------------------------------------------
(***************************************************************************)
(* Sums over finite sets. SumFunctionOnSet is a recursive function over    *)
(* the subsets of its set; what it computes is proved with the             *)
(* well-foundedness of the strict subset order.                            *)
(***************************************************************************)
\* One unfolding of the recursion behind SumFunctionOnSet.
SumBody(f, g, s) ==
  IF s = {} THEN 0 ELSE f[CHOOSE x \in s : TRUE] + g[s \ {CHOOSE x \in s : TRUE}]
IsSum(f, S, g) == g = [s \in SUBSET S |-> SumBody(f, g, s)]

\* What the library's sum unfolds to.
LEMMA SumIs ==
  ASSUME NEW f, NEW S
  PROVE  SumFunctionOnSet(f, S) = (CHOOSE g : IsSum(f, S, g))[S]
BY DEF SumFunctionOnSet, FoldFunctionOnSet, MapThenFoldSet, IsSum, SumBody

\* A family of subsets of a finite set has a smallest member.
LEMMA SmallestSubset ==
  ASSUME NEW S, IsFiniteSet(S), NEW F \in SUBSET SUBSET S, F # {}
  PROVE  \E T \in F : \A U \in F : ~(U \subseteq T /\ U # T)
<1> DEFINE R == StrictSubsetOrdering(S)
<1>1. IsWellFoundedOn(R, SUBSET S)
  BY FS_StrictSubsetOrderingWellFounded, FS_FiniteSubsetsOfFinite
<1>2. \E T \in F : \A U \in F : ~(<<U, T>> \in R)
  <2> HIDE DEF R
  <2> QED BY <1>1, WFMin
<1> QED BY <1>2 DEF StrictSubsetOrdering

\* A sum function of a set is, restricted, one of each of its subsets.
LEMMA SumRestricts ==
  ASSUME NEW f, NEW S, NEW g, IsSum(f, S, g), NEW T \in SUBSET S
  PROVE  IsSum(f, T, [s \in SUBSET T |-> g[s]])
<1> DEFINE h == [s \in SUBSET T |-> g[s]]
<1>1. ASSUME NEW s \in SUBSET T PROVE h[s] = SumBody(f, h, s)
  <2>1. h[s] = g[s] /\ g[s] = SumBody(f, g, s)
    BY DEF IsSum
  <2>2. s # {} => h[s \ {CHOOSE x \in s : TRUE}] = g[s \ {CHOOSE x \in s : TRUE}]
    OBVIOUS
  <2> QED BY <2>1, <2>2 DEF SumBody
<1> QED BY <1>1 DEF IsSum

\* A finite set has one sum function, and it exists.
LEMMA SumUnique ==
  ASSUME NEW f, NEW S, IsFiniteSet(S), NEW g, NEW h, IsSum(f, S, g), IsSum(f, S, h)
  PROVE  g = h
<1> DEFINE F == {s \in SUBSET S : g[s] # h[s]}
<1>1. CASE F = {}
  BY <1>1 DEF IsSum
<1>2. CASE F # {}
  <2>0. F \in SUBSET SUBSET S
    OBVIOUS
  <2>1. PICK s \in F : \A U \in F : ~(U \subseteq s /\ U # s)
    <3> HIDE DEF F
    <3> QED BY <1>2, <2>0, SmallestSubset
  <2>2. g[s] = SumBody(f, g, s) /\ h[s] = SumBody(f, h, s)
    BY DEF IsSum
  <2>3. s # {}
    BY <2>2 DEF SumBody
  <2> DEFINE x == CHOOSE x \in s : TRUE
  <2>4. x \in s
    BY <2>3
  <2>5. s \ {x} \in SUBSET S /\ s \ {x} \notin F
    BY <2>1, <2>4
  <2> QED BY <2>2, <2>3, <2>5 DEF SumBody
<1> QED BY <1>1, <1>2

Iter(f, S) == CHOOSE g : IsSum(f, S, g)

LEMMA SumExists ==
  ASSUME NEW f, NEW S, IsFiniteSet(S)
  PROVE  IsSum(f, S, Iter(f, S))
<1> DEFINE F == {T \in SUBSET S : ~\E g : IsSum(f, T, g)}
<1>1. SUFFICES F = {}
  <2>1. S \notin F
    BY <1>1
  <2> QED BY <2>1 DEF Iter
<1>2. SUFFICES ASSUME F # {} PROVE FALSE
  OBVIOUS
<1>3. PICK T \in F : \A U \in F : ~(U \subseteq T /\ U # T)
  <2>1. F \in SUBSET SUBSET S
    OBVIOUS
  <2> HIDE DEF F
  <2> QED BY <1>2, <2>1, SmallestSubset
<1>4. ASSUME NEW U \in SUBSET T, U # T PROVE IsSum(f, U, Iter(f, U)) /\ IsFiniteSet(U)
  <2>1. U \notin F /\ U \in SUBSET S
    BY <1>3, <1>4
  <2>2. IsFiniteSet(U)
    BY <2>1, FS_Subset
  <2> QED BY <2>1, <2>2 DEF Iter
<1> DEFINE W == [s \in SUBSET T |-> Iter(f, s)[s]]
           V == [s \in SUBSET T |-> IF s = T THEN SumBody(f, W, T) ELSE W[s]]
<1>5. ASSUME NEW U \in SUBSET T, U # T PROVE W[U] = SumBody(f, W, U)
  <2>1. W[U] = Iter(f, U)[U]
    OBVIOUS
  <2>2. Iter(f, U)[U] = SumBody(f, Iter(f, U), U)
    <3> DEFINE g == Iter(f, U)
    <3>1. IsSum(f, U, g)
      BY <1>4, <1>5
    <3> HIDE DEF g
    <3>2. g[U] = SumBody(f, g, U)
      BY <3>1 DEF IsSum
    <3> QED BY <3>2 DEF g
  <2>3. ASSUME U # {} PROVE Iter(f, U)[U \ {CHOOSE x \in U : TRUE}] = W[U \ {CHOOSE x \in U : TRUE}]
    <3> DEFINE x == CHOOSE x \in U : TRUE
               R == U \ {x}
               g == Iter(f, U)
               h == [s \in SUBSET R |-> g[s]]
    <3>1. x \in U /\ R \in SUBSET T /\ R # T /\ R \in SUBSET U
      BY <2>3, <1>5
    <3>2. IsSum(f, R, h)
      BY <1>4, <1>5, <3>1, SumRestricts
    <3>3. IsSum(f, R, Iter(f, R)) /\ IsFiniteSet(R)
      BY <1>4, <3>1
    <3>4. h = Iter(f, R)
      BY <3>2, <3>3, SumUnique
    <3>5. h[R] = g[R] /\ W[R] = Iter(f, R)[R]
      BY <3>1
    <3> QED BY <3>4, <3>5
  <2> QED BY <2>1, <2>2, <2>3 DEF SumBody
<1>6. ASSUME NEW s \in SUBSET T PROVE V[s] = SumBody(f, V, s)
  <2> DEFINE x == CHOOSE x \in s : TRUE
  <2>1. V[s] = SumBody(f, W, s)
    BY <1>5
  <2>2. s # {} => V[s \ {x}] = W[s \ {x}]
    <3>1. s # {} => x \in s
      OBVIOUS
    <3>2. s # {} => s \ {x} # T /\ s \ {x} \in SUBSET T
      BY <3>1
    <3> QED BY <3>2
  <2> HIDE DEF W, V
  <2> QED BY <2>1, <2>2 DEF SumBody
<1>7. IsSum(f, T, V)
  BY <1>6 DEF IsSum
<1> QED BY <1>3, <1>7

\* The sum of a finite set: nothing, or the chosen element's term and the rest.
LEMMA SumRec ==
  ASSUME NEW f, NEW S, IsFiniteSet(S)
  PROVE  /\ S = {} => SumFunctionOnSet(f, S) = 0
         /\ S # {} => \E x \in S : SumFunctionOnSet(f, S) = f[x] + SumFunctionOnSet(f, S \ {x})
<1> DEFINE g == Iter(f, S)
<1>1. IsSum(f, S, g) /\ SumFunctionOnSet(f, S) = g[S]
  BY SumExists, SumIs DEF Iter
<1>2. g[S] = SumBody(f, g, S)
  <2> HIDE DEF g
  <2> QED BY <1>1 DEF IsSum
<1>3. S = {} => SumFunctionOnSet(f, S) = 0
  BY <1>1, <1>2 DEF SumBody
<1>4. ASSUME S # {}
      PROVE  \E x \in S : SumFunctionOnSet(f, S) = f[x] + SumFunctionOnSet(f, S \ {x})
  <2> DEFINE x == CHOOSE x \in S : TRUE
             R == S \ {x}
             h == [s \in SUBSET R |-> g[s]]
  <2>1. x \in S /\ R \in SUBSET S
    BY <1>4
  <2>2. IsFiniteSet(R)
    BY <2>1, FS_Subset
  <2>3. IsSum(f, R, h)
    BY <1>1, <2>1, SumRestricts
  <2>4. IsSum(f, R, Iter(f, R)) /\ SumFunctionOnSet(f, R) = Iter(f, R)[R]
    BY <2>2, SumExists, SumIs DEF Iter
  <2>5. h = Iter(f, R)
    BY <2>2, <2>3, <2>4, SumUnique
  <2>6. g[R] = SumFunctionOnSet(f, R)
    BY <2>4, <2>5
  <2> QED BY <1>1, <1>2, <1>4, <2>1, <2>6 DEF SumBody
<1> QED BY <1>3, <1>4

\* The order does not matter: any element's term may be taken out first.
LEMMA SumRemove ==
  ASSUME NEW S, IsFiniteSet(S), NEW f, \A x \in S : f[x] \in Int
  PROVE  /\ SumFunctionOnSet(f, S) \in Int
         /\ \A y \in S : SumFunctionOnSet(f, S) = f[y] + SumFunctionOnSet(f, S \ {y})
<1> DEFINE Sum(T) == SumFunctionOnSet(f, T)
           Good(T) == Sum(T) \in Int /\ \A y \in T : Sum(T) = f[y] + Sum(T \ {y})
           F == {T \in SUBSET S : ~Good(T)}
<1> HIDE DEF Sum
<1>1. CASE F = {}
  BY <1>1 DEF Sum
<1>2. CASE F # {}
  <2>0. F \in SUBSET SUBSET S
    OBVIOUS
  <2>1. PICK T \in F : \A U \in F : ~(U \subseteq T /\ U # T)
    <3> HIDE DEF F
    <3> QED BY <1>2, <2>0, SmallestSubset
  <2>2. IsFiniteSet(T) /\ T \in SUBSET S
    BY FS_Subset
  <2>3. ASSUME NEW y \in T PROVE Good(T \ {y})
    BY <2>1
  <2>4. CASE T = {}
    BY <2>2, <2>4, SumRec DEF Sum
  <2>5. CASE T # {}
    <3>1. PICK x \in T : Sum(T) = f[x] + Sum(T \ {x})
      BY <2>2, <2>5, SumRec DEF Sum
    <3>2. Sum(T \ {x}) \in Int /\ f[x] \in Int
      BY <2>2, <2>3
    <3>3. ASSUME NEW y \in T, y # x PROVE Sum(T) = f[y] + Sum(T \ {y})
      <4>1. Sum(T \ {x}) = f[y] + Sum((T \ {x}) \ {y})
        BY <2>3, <3>3
      <4>2. Sum(T \ {y}) = f[x] + Sum((T \ {y}) \ {x})
        BY <2>3, <3>3
      <4>3. (T \ {x}) \ {y} = (T \ {y}) \ {x}
        OBVIOUS
      <4>4. Sum((T \ {x}) \ {y}) \in Int
        <5>1. (T \ {x}) \ {y} \notin F
          BY <2>1
        <5> QED BY <2>2, <5>1
      <4>5. f[y] \in Int
        BY <2>2
      <4> DEFINE a == f[x]
                 b == f[y]
                 rest == Sum((T \ {x}) \ {y})
      <4>6. Sum(T) = a + (b + rest) /\ Sum(T \ {y}) = a + rest
        BY <3>1, <4>1, <4>2, <4>3
      <4>7. a \in Int /\ b \in Int /\ rest \in Int
        BY <3>2, <4>4, <4>5
      <4> HIDE DEF a, b, rest
      <4>8. a + (b + rest) = b + (a + rest)
        BY ONLY <4>7
      <4> QED BY <4>6, <4>8 DEF b
    <3>4. Sum(T) \in Int
      BY <3>1, <3>2
    <3>5. Good(T)
      BY <3>1, <3>3, <3>4
    <3> QED BY <3>5
  <2> QED BY <2>4, <2>5
<1> QED BY <1>1, <1>2

\* Equal terms have equal sums.
LEMMA SumSame ==
  ASSUME NEW S, IsFiniteSet(S), NEW f, NEW g, \A x \in S : f[x] \in Int /\ g[x] = f[x]
  PROVE  SumFunctionOnSet(g, S) = SumFunctionOnSet(f, S)
<1> DEFINE F == {T \in SUBSET S : SumFunctionOnSet(g, T) # SumFunctionOnSet(f, T)}
<1>1. CASE F = {}
  BY <1>1
<1>2. CASE F # {}
  <2>0. F \in SUBSET SUBSET S
    OBVIOUS
  <2>1. PICK T \in F : \A U \in F : ~(U \subseteq T /\ U # T)
    <3> HIDE DEF F
    <3> QED BY <1>2, <2>0, SmallestSubset
  <2>2. IsFiniteSet(T) /\ T \in SUBSET S
    BY FS_Subset
  <2>3. CASE T = {}
    BY <2>2, <2>3, SumRec
  <2>4. CASE T # {}
    <3>1. PICK y : y \in T
      BY <2>4
    <3>2. SumFunctionOnSet(f, T) = f[y] + SumFunctionOnSet(f, T \ {y})
      BY <2>2, <3>1, SumRemove
    <3>3. SumFunctionOnSet(g, T) = g[y] + SumFunctionOnSet(g, T \ {y})
      BY <2>2, <3>1, SumRemove
    <3>4. T \ {y} \notin F
      BY <2>1, <3>1
    <3> QED BY <2>2, <3>1, <3>2, <3>3, <3>4
  <2> QED BY <2>3, <2>4
<1> QED BY <1>1, <1>2

-----------------------------------------------------------------------------
\* The inductive invariant holds in every reachable state.
THEOREM Invariance == Spec => []IInv
<1>1. Init => IInv
  <2> SUFFICES ASSUME Init PROVE IInv
    OBVIOUS
  <2>1. TypeOK /\ ClaimHeld /\ SettledOnce
    BY InitType DEF Init, ClaimHeld, SettledOnce, Idle
  <2>2. OpenedOnce /\ Approval
    BY DEF Init, Idle, At, OpenedOnce, Approval, PaidOnlyWhenApproved, Agreed, Due
  <2>3. PaidInFull /\ PaidCheckIsClosed
    BY CheckoutConstants DEF Init, Idle, At, PaidInFull, PaidCheckIsClosed
  <2> QED BY <2>1, <2>2, <2>3 DEF IInv
<1>2. IInv /\ [Next]_vars => IInv'
  BY NextType, NextClaim, NextOnce, NextOpened, NextApproval, NextPaid DEF IInv
<1> QED BY <1>1, <1>2, PTL DEF Spec

\* Type correctness, for every number of bills, invoices and requests.
THEOREM TypeCorrect == Spec => []TypeOK
  BY Invariance, PTL DEF IInv

\* The claim of fulfillBillingInvoice makes settlement exactly-once: the effect
\* of a bill is committed with its PAID mark, and never twice.
THEOREM FulfilledOnce == Spec => []SettledOnce
  BY Invariance, PTL DEF IInv

\* For a bill with something to pay, PAID always stands for a payment the
\* customer agreed to at the gateway: no return URL and no webhook makes it PAID
\* without one.
THEOREM NoAgreementNoPayment == Spec => []PaidOnlyWhenApproved
  BY Invariance, PTL DEF IInv, Approval

\* A payment row belongs to a PAID bill and stays within it, and a paid bill
\* without one stands for an invoice that other payments had settled.
THEOREM EveryPaymentBacked == Spec => []PaymentBacked
<1>1. IInv => PaymentBacked
  BY DEF IInv, TypeOK, PaidInFull, PaymentBacked, IsCollection
<1> QED BY <1>1, Invariance, PTL

\* The restaurant order of an invoice that was paid online is closed with it.
THEOREM CheckClosesWithPayment == Spec => []PaidCheckIsClosed
  BY Invariance, PTL DEF IInv

\* No late webhook, reloaded return page or second request touches a bill or
\* its payment once the bill is settled.
THEOREM SettlementIsFinal == Spec => SettledIsFinal
<1>1. ASSUME IInv, [Next]_vars, NEW b \in Bills, bill[b].status = "PAID"
      PROVE  bill'[b] = bill[b] /\ pay'[b] = pay[b]
  <2> USE <1>1 DEF IInv, TypeOK, BillRow, gateway, books
  <2>1. ASSUME NEW h \in Handlers, NEW c \in Bills, Arrive(h, c)
        PROVE  bill'[b] = bill[b] /\ pay'[b] = pay[b]
    BY <2>1 DEF Arrive, CreateSubscriptionCheckout, CreateInvoiceCollectionCheckout,
       CompleteCheckout, HandleWebhook, ConfirmMockCardPayment
  <2>2. ASSUME NEW h \in Handlers, Proceed(h)
        PROVE  bill'[b] = bill[b] /\ pay'[b] = pay[b]
    <3>1. CASE StoreSession(h)
      <4>1. bill[b].bound
        BY DEF PaidInFull
      <4>2. [bill[b] EXCEPT !.bound = TRUE] = bill[b]
        BY <4>1
      <4> QED BY <3>1, <4>2 DEF StoreSession
    <3>2. CASE CommitSubscription(h) \/ CommitNothingDue(h) \/ CommitCollection(h)
      <4>1. At(h, "commit") /\ SettleBill(h, req[h].bill)
            /\ \A c \in Bills \ {req[h].bill} : pay'[c] = pay[c]
        BY <3>2 DEF CommitSubscription, CommitNothingDue, CommitCollection, Collect
      <4>2. b # req[h].bill
        BY <4>1 DEF ClaimHeld, At
      <4> QED BY <4>1, <4>2 DEF SettleBill
    <3> QED BY <2>2, <3>1, <3>2 DEF Proceed, RunCheckout, VerifyReturn, ReadBill, Claim,
            ReadSalesInvoice
  <2> QED BY <2>1, <2>2 DEF Next, CustomerPays, RequestFails, ServerRestarts, vars
<1>2. IInv /\ [Next]_vars =>
        [\A b \in Bills : bill[b].status = "PAID" =>
            bill'[b] = bill[b] /\ pay'[b] = pay[b]]_vars
  BY <1>1
<1> QED BY <1>2, Invariance, PTL DEF Spec, SettledIsFinal

\* A new term of a sum changes it by the difference.
LEMMA ReceivedGrows ==
  ASSUME TypeOK, NEW b \in Bills, NEW n \in Nat, pay[b] = 0, IsCollection(b),
         pay' = [pay EXCEPT ![b] = n]
  PROVE  /\ Received(Target[b]) \in Int /\ Received(Target[b])' = Received(Target[b]) + n
         /\ \A i \in Invoices \ {Target[b]} : Received(i)' = Received(i)
<1> DEFINE S(i) == {c \in Bills : Target[c] = i}
<1>1. \A i \in Invoices : IsFiniteSet(S(i))
  BY FinitelyManyBills, FS_Subset
<1>2. \A c \in Bills : pay[c] \in Int /\ pay'[c] \in Int
  BY DEF TypeOK
<1>3. ASSUME NEW i \in Invoices, i # Target[b] PROVE Received(i)' = Received(i)
  <2>1. \A c \in S(i) : pay[c] \in Int /\ pay'[c] = pay[c]
    BY <1>2, <1>3 DEF TypeOK
  <2> QED BY <1>1, <2>1, SumSame DEF Received
<1> DEFINE i == Target[b]
           R == S(i) \ {b}
<1>4. b \in S(i) /\ i \in Invoices /\ IsFiniteSet(S(i)) /\ IsFiniteSet(R)
  BY <1>1, FS_Subset DEF IsCollection
<1>5. /\ SumFunctionOnSet(pay, S(i)) = pay[b] + SumFunctionOnSet(pay, R)
      /\ SumFunctionOnSet(pay', S(i)) = pay'[b] + SumFunctionOnSet(pay', R)
      /\ SumFunctionOnSet(pay, R) \in Int
  <2> HIDE DEF S, R
  <2>1. /\ \A c \in S(i) : pay[c] \in Int
        /\ \A c \in S(i) : pay'[c] \in Int
        /\ \A c \in R : pay[c] \in Int
    BY <1>2 DEF S, R
  <2>2. /\ \A y \in S(i) : SumFunctionOnSet(pay, S(i)) = pay[y] + SumFunctionOnSet(pay, S(i) \ {y})
        /\ SumFunctionOnSet(pay, R) \in Int
    BY <1>4, <2>1, SumRemove
  <2>3. \A y \in S(i) : SumFunctionOnSet(pay', S(i)) = pay'[y] + SumFunctionOnSet(pay', S(i) \ {y})
    <3>1. PICK q : q = pay'
      OBVIOUS
    <3>2. \A y \in S(i) : SumFunctionOnSet(q, S(i)) = q[y] + SumFunctionOnSet(q, S(i) \ {y})
      BY <1>4, <2>1, <3>1, SumRemove
    <3> QED BY <3>1, <3>2
  <2> QED BY <1>4, <2>2, <2>3 DEF R
<1>6. SumFunctionOnSet(pay', R) = SumFunctionOnSet(pay, R)
  <2>1. \A c \in R : pay[c] \in Int /\ pay'[c] = pay[c]
    BY <1>2 DEF TypeOK
  <2> QED BY <1>4, <2>1, SumSame
<1>7. pay[b] = 0 /\ pay'[b] = n
  BY DEF TypeOK
<1>8. /\ SumFunctionOnSet(pay, S(i)) \in Int
      /\ SumFunctionOnSet(pay', S(i)) = SumFunctionOnSet(pay, S(i)) + n
  <2> DEFINE rest == SumFunctionOnSet(pay, R)
  <2>1. SumFunctionOnSet(pay, S(i)) = 0 + rest /\ SumFunctionOnSet(pay', S(i)) = n + rest
    BY <1>5, <1>6, <1>7
  <2>2. rest \in Int
    BY <1>5
  <2> HIDE DEF rest, S
  <2> QED BY <2>1, <2>2
<1> QED BY <1>3, <1>8 DEF Received

\* An invoice whose paidAmount is the sum of its payment rows, within its total,
\* stays so by every step but the commit of a fulfilment that had read another
\* paidAmount: no interleaving overpays in another way.
THEOREM OverpaidOnlyByStaleRead == Spec => OnlyStaleReadOverpays
<1> DEFINE Kept(i) == inv[i].paid = Received(i) /\ Received(i) <= Total[i]
           Stale(i) == \E h \in Handlers :
                         /\ At(h, "commit") /\ ~At(h, "commit")'
                         /\ Target[req[h].bill] = i /\ req[h].paid # inv[i].paid
<1>1. ASSUME IInv, [Next]_vars, NEW i \in Invoices, Kept(i)
      PROVE  Kept(i)' \/ Stale(i)
  <2>1. CASE UNCHANGED <<inv, pay>>
    BY <1>1, <2>1 DEF Received
  <2>2. ASSUME NEW h \in Handlers, CommitCollection(h) PROVE Kept(i)' \/ Stale(i)
    <3>0. PICK b \in Bills : b = req[h].bill
      BY <1>1, <2>2 DEF IInv, ClaimHeld, CommitCollection, At
    <3>1. /\ IsCollection(b) /\ pay[b] = 0 /\ At(h, "commit") /\ ~At(h, "commit")'
          /\ req[h].paid < Total[Target[b]]
          /\ Collect(h, req[h].paid, Min2(bill[b].amount, Total[Target[b]] - req[h].paid))
      BY <1>1, <2>2, <3>0 DEF IInv, CommitCollection, Collect, SettleBill, Finish, Idle,
         At, TypeOK
    <3>2. /\ req[h].paid \in Nat /\ Total[Target[b]] \in Nat /\ bill[b].amount \in Nat
      BY <1>1, <3>1, CheckoutConstants DEF IInv, TypeOK, Request, BillRow, IsCollection
    <3>3. PICK n \in Nat : /\ Collect(h, req[h].paid, n)
                           /\ req[h].paid + n <= Total[Target[b]]
      BY <3>1, <3>2 DEF Min2
    <3>4. /\ pay' = [pay EXCEPT ![b] = n]
          /\ inv'[Target[b]].paid = req[h].paid + n
          /\ \A j \in Invoices \ {Target[b]} : inv'[j] = inv[j]
      <4> DEFINE full == req[h].paid + n >= Total[Target[b]]
      <4>1. /\ pay' = [pay EXCEPT ![b] = n]
            /\ inv' = [inv EXCEPT ![Target[b]] =
                 [status |-> IF full THEN "PAID" ELSE @.status,
                  pstatus |-> IF full THEN "PAID" ELSE "PARTIAL", paid |-> req[h].paid + n]]
        BY <3>0, <3>3 DEF Collect
      <4> QED BY <1>1, <3>1, <4>1 DEF IInv, TypeOK, IsCollection
    <3>5. /\ Received(Target[b]) \in Int /\ Received(Target[b])' = Received(Target[b]) + n
          /\ \A j \in Invoices \ {Target[b]} : Received(j)' = Received(j)
      BY <1>1, <3>1, <3>4, ReceivedGrows DEF IInv
    <3>6. CASE i # Target[b]
      BY <1>1, <3>4, <3>5, <3>6
    <3>7. CASE i = Target[b] /\ req[h].paid # inv[i].paid
      BY <3>0, <3>1, <3>7
    <3>8. CASE i = Target[b] /\ req[h].paid = inv[i].paid
      BY <1>1, <3>3, <3>4, <3>5, <3>8
    <3> QED BY <3>6, <3>7, <3>8
  <2> QED BY <1>1, <2>1, <2>2 DEF Next, Arrive, Proceed, CreateSubscriptionCheckout,
          CreateInvoiceCollectionCheckout, CompleteCheckout, HandleWebhook,
          ConfirmMockCardPayment, CustomerPays, RunCheckout, StoreSession, VerifyReturn,
          ReadBill, Claim, ReadSalesInvoice, CommitSubscription, CommitNothingDue,
          RequestFails, ServerRestarts, vars, books
<1>2. IInv /\ [Next]_vars =>
        [\A i \in Invoices :
           inv[i].paid = Received(i) /\ Received(i) <= Total[i] =>
             \/ inv'[i].paid = Received(i)' /\ Received(i)' <= Total[i]
             \/ \E h \in Handlers : /\ At(h, "commit") /\ ~At(h, "commit")'
                                    /\ Target[req[h].bill] = i /\ req[h].paid # inv[i].paid]_vars
  BY <1>1
<1> QED BY <1>2, Invariance, PTL DEF Spec, OnlyStaleReadOverpays

\* The checkout, with its reads, locks, retries and crashes, implements the
\* abstract specification in which a bill is settled in one step, at most once.
THEOREM ImplementsAtMostOnce == Spec => AtMostOnce
<1> DEFINE paidBills == {b \in Bills : bill[b].status = "PAID"}
<1>1. Init => Abstract!Init
  BY DEF Init, Abstract!Init
<1>2. IInv /\ [Next]_vars => [Abstract!Next]_<<paidBills, applied>>
  <2> SUFFICES ASSUME IInv, [Next]_vars
               PROVE  [Abstract!Next]_<<paidBills, applied>>
    OBVIOUS
  <2>1. CASE SettlesNone
    BY <2>1 DEF SettlesNone
  <2>2. ASSUME NEW b \in Bills, Settles(b) PROVE Abstract!Settle(b)
    <3>1. b \notin paidBills /\ paidBills' = paidBills \cup {b}
      BY <2>2 DEF Settles
    <3>2. applied[b] = 0
      BY <2>2 DEF Settles, IInv, SettledOnce
    <3>3. applied' = [applied EXCEPT ![b] = 1]
      BY <2>2, <3>2 DEF Settles
    <3> QED BY <3>1, <3>3 DEF Abstract!Settle
  <2> QED BY <2>1, <2>2, StepSettles DEF IInv, Abstract!Next
<1> QED BY <1>1, <1>2, Invariance, PTL DEF Spec, AtMostOnce, Abstract!Spec
=============================================================================
