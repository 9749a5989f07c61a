--------------------------- MODULE OnlineCheckout ---------------------------
(***************************************************************************)
(* Online payments of payments.service.ts: a checkout creates a PENDING    *)
(* billing invoice ("bill") and a session at a payment gateway; the        *)
(* customer pays there; the return URL, the gateway's webhooks (delivered  *)
(* any number of times) and the mock card form all end in                  *)
(* fulfillBillingInvoice, whose transaction claims the bill and applies    *)
(* its effect: a company plan, or a payment of a sales invoice.            *)
(*                                                                         *)
(* Every await of a handler that another request can slip into is a step.  *)
(* A transaction runs at PostgreSQL's default, Read Committed: what it     *)
(* writes shows at its commit, the row its UPDATE matched stays locked     *)
(* until then, and a row it only SELECTs is not locked.                    *)
(***************************************************************************)
EXTENDS Integers, FiniteSets

CONSTANTS
  Bills,          \* billing invoices
  Invoices,       \* sales invoices of the company
  Handlers,       \* requests the API can be serving at once
  Gateway,        \* [Bills -> GatewaySlugs]: where a bill is paid
  Target,         \* [Bills -> Invoices \cup {Subscription}]: its purpose
  Total,          \* [Invoices -> Nat \ {0}]: totals of the sales invoices
  Price,          \* [Bills -> Nat]: price of a subscription bill
  Subscription,   \* the purpose SUBSCRIPTION
  Nobody,         \* no handler, no bill
  MaxFaults       \* crashes and failed transactions the run explores

GatewaySlugs == {"THAWANI", "STRIPE", "PAYPAL", "MOCK_CARD"}

ASSUME CheckoutConstants ==
  /\ Gateway \in [Bills -> GatewaySlugs]
  /\ Target \in [Bills -> Invoices \cup {Subscription}]
  /\ Total \in [Invoices -> Nat \ {0}]
  /\ Price \in [Bills -> Nat]
  /\ MaxFaults \in Nat
  /\ Subscription \notin Invoices
  /\ Nobody \notin Handlers \cup Bills

ASSUME FinitelyManyBills == IsFiniteSet(Bills)

VARIABLES
  bill,       \* rows of billing_invoices
  session,    \* the gateway's state of each checkout session (external)
  hooks,      \* webhook events the gateway has emitted for a session (external)
  req,        \* what each handler is doing, with what it has read
  rowLock,    \* the handler whose open transaction updated the bill's row
  inv,        \* rows of invoices
  pay,        \* amount of the payments row keyed billing:<bill>, 0 when none
  plan,       \* the subscription bill the company's plan comes from
  applied,    \* history: how often a bill's effect was committed
  openCheck,  \* sales invoices with a restaurant order that is not CLOSED
  faults      \* crashes and failures so far

vars == <<bill, session, hooks, req, rowLock, inv, pay, plan, applied,
          openCheck, faults>>
gateway == <<session, hooks>>
books == <<inv, pay, plan, applied, openCheck>>

BillStatus == {"absent", "PENDING", "PAID"}
InvStatus == {"DRAFT", "SENT", "PAID", "CANCELLED"}
PayStatus == {"UNPAID", "PARTIAL", "PAID"}
Sessions == {"none", "open", "approved", "charged"}
Steps == {"idle", "session", "store", "verify", "fulfil", "claim",
          "readInvoice", "commit"}
Events == {"paid", "order.approved", "captured"}

BillRow == [status : BillStatus, bound : BOOLEAN, amount : Nat]
InvoiceRow == [status : InvStatus, pstatus : PayStatus, paid : Nat]
Request == [pc : Steps, bill : Bills \cup {Nobody}, bound : BOOLEAN, paid : Nat]

Idle == [pc |-> "idle", bill |-> Nobody, bound |-> FALSE, paid |-> 0]
IsCollection(b) == Target[b] \in Invoices
Min2(x, y) == IF x <= y THEN x ELSE y

Init ==
  /\ bill = [b \in Bills |-> [status |-> "absent", bound |-> FALSE, amount |-> 0]]
  /\ session = [b \in Bills |-> "none"]
  /\ hooks = [b \in Bills |-> {}]
  /\ req = [h \in Handlers |-> Idle]
  /\ rowLock = [b \in Bills |-> Nobody]
  /\ inv = [i \in Invoices |-> [status |-> "SENT", pstatus |-> "UNPAID", paid |-> 0]]
  /\ pay = [b \in Bills |-> 0]
  /\ plan = Nobody
  /\ applied = [b \in Bills |-> 0]
  /\ openCheck \in SUBSET Invoices
  /\ faults = 0

At(h, step) == req[h].pc = step
Goto(h, step) == req' = [req EXCEPT ![h].pc = step]
Finish(h) == req' = [req EXCEPT ![h] = Idle]
Serve(h, b, step) ==
  /\ At(h, "idle")
  /\ req' = [req EXCEPT ![h] = [Idle EXCEPT !.pc = step, !.bill = b,
                                            !.bound = bill[b].bound]]

(***************************************************************************)
(* Checkout: insert the bill, open the gateway's session, store its id.    *)
(***************************************************************************)
CreateSubscriptionCheckout(h, b) ==
  /\ Target[b] = Subscription /\ bill[b].status = "absent"
  /\ Serve(h, b, IF Price[b] = 0 THEN "fulfil" ELSE "session")
  /\ bill' = [bill EXCEPT ![b] = [status |-> "PENDING", bound |-> FALSE,
                                  amount |-> Price[b]]]
  /\ UNCHANGED <<gateway, rowLock, books, faults>>

CreateInvoiceCollectionCheckout(h, b) ==
  /\ IsCollection(b) /\ bill[b].status = "absent"
  /\ LET i == Target[b] IN
       /\ inv[i].status \notin {"CANCELLED", "PAID"}
       /\ inv[i].pstatus # "PAID"
       /\ inv[i].paid < Total[i]
       /\ bill' = [bill EXCEPT ![b] = [status |-> "PENDING", bound |-> FALSE,
                                       amount |-> Total[i] - inv[i].paid]]
  /\ Serve(h, b, "session")
  /\ UNCHANGED <<gateway, rowLock, books, faults>>

RunCheckout(h) ==
  /\ At(h, "session")
  /\ \/ session' = [session EXCEPT ![req[h].bill] = "open"] /\ Goto(h, "store")
     \/ session' = session /\ Finish(h)        \* the gateway refused
  /\ UNCHANGED <<bill, hooks, rowLock, books, faults>>

\* Faulty: saves the whole row the handler holds, its status too.
StoreStaleRow(h) ==
  /\ At(h, "store")
  /\ bill' = [bill EXCEPT ![req[h].bill] = [@ EXCEPT !.status = "PENDING", !.bound = TRUE]]
  /\ Finish(h)
  /\ UNCHANGED <<gateway, rowLock, books, faults>>

StoreSession(h) ==
  /\ At(h, "store")
  /\ bill' = [bill EXCEPT ![req[h].bill].bound = TRUE]
  /\ Finish(h)
  /\ UNCHANGED <<gateway, rowLock, books, faults>>

(***************************************************************************)
(* The gateway and the customer (external): hosted pages of Thawani and    *)
(* Stripe charge at once, a PayPal order is approved and waits for its     *)
(* capture. An event, once emitted, may be delivered again and again.      *)
(***************************************************************************)
CustomerPays(b) ==
  /\ session[b] = "open" /\ bill[b].bound
  /\ \/ /\ Gateway[b] \in {"THAWANI", "STRIPE"}
        /\ session' = [session EXCEPT ![b] = "charged"]
        /\ hooks' = [hooks EXCEPT ![b] = @ \cup {"paid"}]
     \/ /\ Gateway[b] = "PAYPAL"
        /\ session' = [session EXCEPT ![b] = "approved"]
        /\ hooks' = [hooks EXCEPT ![b] = @ \cup {"order.approved"}]
  /\ UNCHANGED <<bill, req, rowLock, books, faults>>

(***************************************************************************)
(* The three ways into fulfilment.                                         *)
(***************************************************************************)
CompleteCheckout(h, b) ==
  /\ bill[b].status = "PENDING"              \* PAID: answers paid, does nothing
  /\ Serve(h, b, "verify")
  /\ UNCHANGED <<bill, gateway, rowLock, books, faults>>

\* Faulty: whoever comes back to the return URL has paid.
TrustReturn(h) ==
  /\ At(h, "verify")
  /\ IF req[h].bound THEN Goto(h, "fulfil") ELSE Finish(h)
  /\ UNCHANGED <<bill, gateway, rowLock, books, faults>>

\* verifyReturn: Thawani and Stripe report the session, PayPal captures the
\* order and fails when it was captured before, the mock card repeats what the
\* URL says. A paid session counts only if the bill, as the handler read it,
\* was bound to a session.
VerifyReturn(h) ==
  /\ At(h, "verify")
  /\ LET b == req[h].bill
         captures == Gateway[b] = "PAYPAL" /\ session[b] = "approved"
         paid == captures \/ (Gateway[b] \in {"THAWANI", "STRIPE"}
                              /\ session[b] = "charged")
     IN /\ session' = [session EXCEPT ![b] = IF captures THEN "charged" ELSE @]
        /\ hooks' = [hooks EXCEPT ![b] = IF captures THEN @ \cup {"captured"} ELSE @]
        /\ \/ /\ paid \/ Gateway[b] = "MOCK_CARD"
              /\ req[h].bound
              /\ Goto(h, "fulfil")
           \/ ~(paid /\ req[h].bound) /\ Finish(h)
  /\ UNCHANGED <<bill, rowLock, books, faults>>

\* Faulty: compares the bill's session id with the id of another object.
WebhookOfOtherObject(h, b) ==
  /\ hooks[b] # {} /\ ~bill[b].bound
  /\ bill[b].status = "PENDING"
  /\ Serve(h, b, "fulfil")
  /\ UNCHANGED <<bill, gateway, rowLock, books, faults>>

\* The id in PAYMENT.CAPTURE.COMPLETED is the capture's, never the order's, so
\* externalIdMatches refuses that event whenever a session id is stored.
HandleWebhook(h, b) ==
  /\ \E e \in hooks[b] : e # "captured" \/ ~bill[b].bound
  /\ bill[b].status = "PENDING"
  /\ Serve(h, b, "fulfil")
  /\ UNCHANGED <<bill, gateway, rowLock, books, faults>>

ConfirmMockCardPayment(h, b) ==
  /\ bill[b].status = "PENDING" /\ Gateway[b] = "MOCK_CARD"
  /\ Target[b] = Subscription
  /\ Serve(h, b, "fulfil")
  /\ UNCHANGED <<bill, gateway, rowLock, books, faults>>

(***************************************************************************)
(* fulfillBillingInvoice                                                   *)
(***************************************************************************)
ReadBill(h) ==
  /\ At(h, "fulfil")
  /\ IF bill[req[h].bill].status = "PAID" THEN Finish(h) ELSE Goto(h, "claim")
  /\ UNCHANGED <<bill, gateway, rowLock, books, faults>>

\* Faulty: marks the bill PAID whatever its status.
ClaimAnyStatus(h) ==
  LET b == req[h].bill IN
  /\ At(h, "claim")
  /\ rowLock[b] = Nobody
  /\ rowLock' = [rowLock EXCEPT ![b] = h]
  /\ Goto(h, IF IsCollection(b) THEN "readInvoice" ELSE "commit")
  /\ UNCHANGED <<bill, gateway, books, faults>>

\* updateMany ... WHERE status = PENDING: waits for the row's lock, then looks
\* at the row the other transaction committed.
Claim(h) ==
  LET b == req[h].bill IN
  /\ At(h, "claim")
  /\ rowLock[b] = Nobody
  /\ IF bill[b].status = "PENDING"
       THEN /\ rowLock' = [rowLock EXCEPT ![b] = h]
            /\ Goto(h, IF IsCollection(b) THEN "readInvoice" ELSE "commit")
       ELSE Finish(h) /\ UNCHANGED rowLock
  /\ UNCHANGED <<bill, gateway, books, faults>>

\* tx.invoice.findUnique: the last committed row, not locked.
ReadSalesInvoice(h) ==
  /\ At(h, "readInvoice")
  /\ req' = [req EXCEPT ![h].pc = "commit",
                        ![h].paid = inv[Target[req[h].bill]].paid]
  /\ UNCHANGED <<bill, gateway, rowLock, books, faults>>

\* What every commit does to the bill.
SettleBill(h, b) ==
  /\ bill' = [bill EXCEPT ![b].status = "PAID", ![b].bound = TRUE]
  /\ rowLock' = [rowLock EXCEPT ![b] = Nobody]
  /\ applied' = [applied EXCEPT ![b] = @ + 1]
  /\ Finish(h)
  /\ UNCHANGED <<gateway, faults>>

CommitSubscription(h) ==
  LET b == req[h].bill IN
  /\ At(h, "commit") /\ Target[b] = Subscription
  /\ plan' = b
  /\ SettleBill(h, b)
  /\ UNCHANGED <<inv, pay, openCheck>>

\* Faulty: takes an invoice that is still to pay for a settled one.
CommitWithoutPayment(h) ==
  LET b == req[h].bill IN
  /\ At(h, "commit") /\ IsCollection(b)
  /\ req[h].paid <= Total[Target[b]]
  /\ SettleBill(h, b)
  /\ UNCHANGED <<inv, pay, plan, openCheck>>

CommitNothingDue(h) ==
  LET b == req[h].bill IN
  /\ At(h, "commit") /\ IsCollection(b)
  /\ req[h].paid >= Total[Target[b]]
  /\ SettleBill(h, b)
  /\ UNCHANGED <<inv, pay, plan, openCheck>>

\* A payment row of amount, and the invoice as if paid had been paid before.
Collect(h, paid, amount) ==
  LET b == req[h].bill
      i == Target[b]
      full == paid + amount >= Total[i]
  IN
  /\ pay[b] = 0
  /\ pay' = [pay EXCEPT ![b] = amount]
  /\ inv' = [inv EXCEPT ![i] =
               [status |-> IF full THEN "PAID" ELSE @.status,
                pstatus |-> IF full THEN "PAID" ELSE "PARTIAL",
                paid |-> paid + amount]]
  /\ openCheck' = IF full THEN openCheck \ {i} ELSE openCheck
  /\ SettleBill(h, b)
  /\ UNCHANGED plan

\* Faulty: never looks at what is left to pay.
CollectWhateverBilled(h) ==
  /\ At(h, "commit") /\ IsCollection(req[h].bill)
  /\ Collect(h, req[h].paid, bill[req[h].bill].amount)

\* Faulty: the invoice is paid without a payment row, and its check stays open.
CollectNoRow(h) ==
  LET b == req[h].bill IN
  /\ At(h, "commit") /\ IsCollection(b) /\ req[h].paid < Total[Target[b]]
  /\ inv' = [inv EXCEPT ![Target[b]] = [status |-> "PAID", pstatus |-> "PAID",
                                        paid |-> Total[Target[b]]]]
  /\ SettleBill(h, b)
  /\ UNCHANGED <<pay, openCheck, plan>>

\* The payment and the invoice's new paidAmount both come from the row read
\* above; idempotencyKey is unique, so a second payment row fails the commit.
CommitCollection(h) ==
  LET b == req[h].bill IN
  /\ At(h, "commit") /\ IsCollection(b)
  /\ req[h].paid < Total[Target[b]]
  /\ Collect(h, req[h].paid, Min2(bill[b].amount, Total[Target[b]] - req[h].paid))

(***************************************************************************)
(* A request fails and its transaction rolls back; the process restarts.   *)
(***************************************************************************)
Unlock(hs) == rowLock' = [b \in Bills |-> IF rowLock[b] \in hs THEN Nobody
                                                              ELSE rowLock[b]]
RequestFails(h) ==
  /\ ~At(h, "idle") /\ faults < MaxFaults
  /\ faults' = faults + 1
  /\ Finish(h) /\ Unlock({h})
  /\ UNCHANGED <<bill, gateway, books>>

ServerRestarts ==
  /\ faults < MaxFaults
  /\ faults' = faults + 1
  /\ req' = [h \in Handlers |-> Idle] /\ Unlock(Handlers)
  /\ UNCHANGED <<bill, gateway, books>>

Proceed(h) ==
  \/ RunCheckout(h) \/ StoreSession(h) \/ VerifyReturn(h) \/ ReadBill(h)
  \/ Claim(h) \/ ReadSalesInvoice(h) \/ CommitSubscription(h)
  \/ CommitNothingDue(h) \/ CommitCollection(h)

Arrive(h, b) ==
  \/ CreateSubscriptionCheckout(h, b) \/ CreateInvoiceCollectionCheckout(h, b)
  \/ CompleteCheckout(h, b) \/ HandleWebhook(h, b) \/ ConfirmMockCardPayment(h, b)

Next ==
  \/ \E h \in Handlers, b \in Bills : Arrive(h, b)
  \/ \E b \in Bills : CustomerPays(b)
  \/ \E h \in Handlers : Proceed(h) \/ RequestFails(h)
  \/ ServerRestarts

Spec == Init /\ [][Next]_vars

\* A request in flight goes on (Node's event loop); a gateway repeats an event
\* it emitted until it gets through, however busy the API is in between.
Fairness ==
  /\ \A h \in Handlers : WF_vars(Proceed(h))
  /\ \A b \in Bills : SF_vars(\E h \in Handlers : HandleWebhook(h, b))

FairSpec == Spec /\ Fairness

-----------------------------------------------------------------------------
TypeOK ==
  /\ bill \in [Bills -> BillRow]
  /\ session \in [Bills -> Sessions]
  /\ hooks \in [Bills -> SUBSET Events]
  /\ req \in [Handlers -> Request]
  /\ rowLock \in [Bills -> Handlers \cup {Nobody}]
  /\ inv \in [Invoices -> InvoiceRow]
  /\ pay \in [Bills -> Nat]
  /\ plan \in Bills \cup {Nobody}
  /\ applied \in [Bills -> Nat]
  /\ openCheck \in SUBSET Invoices
  /\ faults \in 0..MaxFaults
=============================================================================
