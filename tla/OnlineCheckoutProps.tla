------------------------ MODULE OnlineCheckoutProps ------------------------
(***************************************************************************)
(* What the online checkout promises.                                      *)
(***************************************************************************)
EXTENDS OnlineCheckout, Functions

\* The claim: a bill's effect (the plan, or the payment) is committed together
\* with its PAID mark and only once, however the return URL and the repeated
\* webhooks of the same checkout interleave, fail or are cut off by a restart.
SettledOnce ==
  \A b \in Bills : applied[b] = (IF bill[b].status = "PAID" THEN 1 ELSE 0)

\* A bill with something to pay is PAID only after the customer agreed to pay it
\* on the gateway's page (the mock gateway has none), whoever opens its return
\* URL and whatever webhook of another session comes in.
PaidOnlyWhenApproved ==
  \A b \in Bills :
    bill[b].status = "PAID" /\ bill[b].amount > 0 /\ Gateway[b] # "MOCK_CARD"
      => session[b] \in {"approved", "charged"}

\* A payment row stands for a PAID bill, never exceeds what that bill charged,
\* and a paid bill of an invoice is missing its payment row only when other
\* payments had settled the invoice.
PaymentBacked ==
  \A b \in Bills :
    /\ pay[b] > 0 => bill[b].status = "PAID" /\ pay[b] <= bill[b].amount
    /\ bill[b].status = "PAID" /\ IsCollection(b) /\ pay[b] = 0
         => inv[Target[b]].pstatus = "PAID"

\* What the payment rows of an invoice add up to.
Received(i) == SumFunctionOnSet(pay, {b \in Bills : Target[b] = i})

\* Two checkouts of one invoice may be open at once. Fulfilments keep paidAmount
\* equal to the payment rows and never take more than the total, but for one that
\* commits what it computed from a paidAmount that another one has changed since
\* (the row is read with findUnique, not locked).
OnlyStaleReadOverpays ==
  [][\A i \in Invoices :
       inv[i].paid = Received(i) /\ Received(i) <= Total[i] =>
         \/ inv'[i].paid = Received(i)' /\ Received(i)' <= Total[i]
         \/ \E h \in Handlers : /\ At(h, "commit") /\ ~At(h, "commit")'
                                /\ Target[req[h].bill] = i /\ req[h].paid # inv[i].paid]_vars

\* A check whose invoice was settled online is closed with the payment: the
\* restaurant order never stays open on a paid invoice.
PaidCheckIsClosed ==
  \A i \in openCheck : inv[i].pstatus # "PAID"

\* Once settled, a bill and its payment are never touched again by a late
\* webhook or a reloaded return page.
SettledIsFinal ==
  [][\A b \in Bills : bill[b].status = "PAID" =>
       bill'[b] = bill[b] /\ pay'[b] = pay[b]]_vars

\* "Webhooks + Return URL for automatic confirmation" (README): money charged
\* for a bill is confirmed in the end, through crashes and failed requests.
ChargedIsConfirmed ==
  \A b \in Bills : session[b] = "charged" ~> bill[b].status = "PAID"

\* The abstract specification: each bill is settled at most once, atomically.
Abstract == INSTANCE BillSettlement WITH
  settled <- {b \in Bills : bill[b].status = "PAID"}, effects <- applied
AtMostOnce == Abstract!Spec
=============================================================================
