----------------------------- MODULE PosCounter -----------------------------
(***************************************************************************)
(* Sales at a POS counter (pos.service.ts): createSale, voidSale,          *)
(* refundSale, fulfillDeferredSale and topUpStoreCredit, with the goods    *)
(* they take and give back and the customer's store credit. Every handler  *)
(* reads first and then writes in several transactions of its own, so      *)
(* Load.. actions read and check and the step named by pc writes.          *)
(*                                                                         *)
(* A sale has one line of Qty units at price 1, so that Qty is also what   *)
(* it costs. Which POS-.. reference a stock movement carries is left out:  *)
(* voidSale finds the same quantity to give back whether or not it was     *)
(* renamed to the invoice's number. One customer, one warehouse. Loyalty   *)
(* points, split and partner payments, approvals, shifts and receipts are  *)
(* left out; repeated requests of one sale are in PosOffline.              *)
(***************************************************************************)
EXTENDS PosTerms, Integers, FiniteSets, Functions

CONSTANTS
  Qty,        \* units, and price, of a sale
  Opening,    \* units on hand at first
  Purse,      \* store credit of the customer at first
  Limit,      \* his credit limit; 0: none
  MaxReturns, \* bound on voids and refunds
  MaxTopUps,  \* bound on top-ups, of one unit of money each
  MaxStops    \* bound on requests that stop half-way

ASSUME CounterConstants ==
  /\ Qty \in Nat \ {0} /\ {Opening, Purse, Limit, MaxReturns, MaxTopUps, MaxStops} \subseteq Nat
  /\ None \notin Sales

ASSUME FinitelyManySales == IsFiniteSet(Sales)

VARIABLES
  stock,   \* units on hand
  wallet,  \* contacts.currentBalance
  topped,  \* money the customer paid in
  sale,    \* invoices, with the goods and credit moved for them
  astray,  \* sales whose requests overlapped or stopped half-way, or that were
           \* cancelled or refunded before they were handed over
  returns, \* voids and refunds so far
  stops,   \* requests that stopped half-way
  req      \* what each handler is doing, with what it has read

vars == <<stock, wallet, topped, sale, astray, returns, stops, req>>

\* taken, back: units of the OUT movements and of the VOID and REFUND ones;
\* noted: units on credit notes; drawn: what the sale took from the wallet.
NoSale == [st |-> "absent", credit |-> FALSE, handover |-> "none", taken |-> 0,
           back |-> 0, noted |-> 0, drawn |-> 0]
Idle == [pc |-> "idle", sale |-> None, credit |-> FALSE, deferred |-> FALSE,
         units |-> 0, balance |-> 0]

Init ==
  /\ stock = Opening /\ wallet = Purse /\ topped = 0
  /\ sale = [s \in Sales |-> NoSale]
  /\ astray = {} /\ returns = 0 /\ stops = 0
  /\ req = [h \in Handlers |-> Idle]

Busy(s) == \E h \in Handlers : req[h].sale = s
Early(s) == sale[s].handover = "PENDING"
InForce(s) == sale[s].st \in {"made", "draft"}
Serve(h, r) == req[h].pc = "idle" /\ req' = [req EXCEPT ![h] = r]
Go(h, pc) == req' = [req EXCEPT ![h].pc = pc]
Finish(h) == req' = [req EXCEPT ![h] = Idle]
Amend(s, row) == sale' = [sale EXCEPT ![s] = row]
Astray(s, odd) == astray' = IF odd THEN astray \cup {s} ELSE astray

(***************************************************************************)
(* createSale. The wallet is checked when the contact is read and debited  *)
(* by a conditional update after the invoice was created and paid.         *)
(***************************************************************************)
LoadSale(h) ==
  /\ \E credit, deferred \in BOOLEAN :
       /\ credit => wallet >= Qty
       /\ Serve(h, [Idle EXCEPT !.pc = IF deferred THEN "invoice" ELSE "reserve",
                                !.credit = credit, !.deferred = deferred,
                                !.balance = IF credit THEN wallet ELSE 0])
  /\ UNCHANGED <<stock, wallet, topped, sale, astray>>

\* reserveStockOut; without stock the sale is refused.
Reserve(h) ==
  /\ req[h].pc = "reserve"
  /\ IF stock >= Qty
     THEN /\ stock' = stock - Qty
          /\ req' = [req EXCEPT ![h].pc = "invoice", ![h].units = Qty]
     ELSE Finish(h) /\ UNCHANGED stock
  /\ UNCHANGED <<wallet, topped, sale, astray>>

NewSale(h, s, st, taken) ==
  /\ sale[s].st = "absent"
  /\ Amend(s, [NoSale EXCEPT
       !.st = st, !.credit = req[h].credit, !.taken = taken,
       !.handover = IF st = "made" /\ req[h].deferred THEN "PENDING" ELSE "none"])

CreateInvoice(h) ==
  /\ req[h].pc = "invoice"
  /\ \E s \in Sales :
       /\ NewSale(h, s, "made", req[h].units)
       /\ IF req[h].credit
          THEN req' = [req EXCEPT ![h].pc = "debit", ![h].sale = s]
          ELSE Finish(h)
  /\ UNCHANGED <<stock, wallet, topped, astray>>

\* invoices.create fails before or after it has made the row, which it then
\* leaves a draft: either way the goods go back.
InvoiceRefused(h) ==
  /\ req[h].pc = "invoice"
  /\ stock' = stock + req[h].units
  /\ \/ UNCHANGED <<sale, astray>>
     \/ \E s \in Sales : NewSale(h, s, "draft", 0) /\ Astray(s, TRUE)
  /\ Finish(h)
  /\ UNCHANGED <<wallet, topped>>

\* Faulty: trusts the balance it has read.
DebitUnchecked(h) ==
  LET s == req[h].sale IN
  /\ req[h].pc = "debit"
  /\ wallet' = wallet - Qty /\ Amend(s, [sale[s] EXCEPT !.drawn = @ + Qty])
  /\ Finish(h)
  /\ UNCHANGED <<topped, astray, stock>>

\* Faulty: writes what is left of the balance it has read.
DebitFromBalance(h) ==
  LET s == req[h].sale IN
  /\ req[h].pc = "debit"
  /\ wallet' = req[h].balance - Qty /\ Amend(s, [sale[s] EXCEPT !.drawn = @ + Qty])
  /\ Finish(h)
  /\ UNCHANGED <<topped, astray, stock>>

\* When the balance no longer suffices the sale is cancelled and undone;
\* a deferred one can still be handed over.
Debit(h) ==
  LET s == req[h].sale IN
  /\ req[h].pc = "debit"
  /\ IF wallet >= Qty
     THEN /\ wallet' = wallet - Qty /\ UNCHANGED <<stock, astray>>
          /\ Amend(s, [sale[s] EXCEPT !.drawn = @ + Qty])
     ELSE /\ stock' = stock + req[h].units /\ UNCHANGED wallet
          /\ Amend(s, [sale[s] EXCEPT !.st = "CANCELLED", !.taken = @ - req[h].units])
          /\ Astray(s, Early(s))
  /\ Finish(h)
  /\ UNCHANGED topped

(***************************************************************************)
(* voidSale and refundSale. What a void gives back is the sold quantity    *)
(* less what earlier refunds gave back, even of a sale not handed over.    *)
(***************************************************************************)
\* Faulty: gives back all that was sold.
AllToGiveBack(s) == Qty

ToGiveBack(s) == IF sale[s].back > Qty THEN 0 ELSE Qty - sale[s].back

AnotherReturn == returns < MaxReturns /\ returns' = returns + 1

LoadVoid(h, s) ==
  /\ InForce(s) /\ AnotherReturn
  /\ Serve(h, [Idle EXCEPT !.pc = "release", !.sale = s, !.units = ToGiveBack(s)])
  /\ Astray(s, Busy(s) \/ Early(s))
  /\ UNCHANGED <<stock, wallet, topped, sale>>

GiveBack(h, step) ==
  LET s == req[h].sale IN
  /\ stock' = stock + req[h].units
  /\ Amend(s, [sale[s] EXCEPT !.back = @ + req[h].units])
  /\ req' = [req EXCEPT ![h].pc = step, ![h].units = IF step = "cancel" THEN 0 ELSE @]
  /\ UNCHANGED <<wallet, topped, astray>>

ReleaseVoid(h) == req[h].pc = "release" /\ GiveBack(h, "cancel")

CancelSale(h) ==
  LET s == req[h].sale IN
  /\ req[h].pc = "cancel"
  /\ Amend(s, [sale[s] EXCEPT !.st = "CANCELLED"])
  /\ IF sale[s].credit THEN Go(h, "restore") ELSE Finish(h)
  /\ UNCHANGED <<stock, wallet, topped, astray>>

\* The whole amount, whatever has been refunded.
RestoreCredit(h) ==
  LET s == req[h].sale IN
  /\ req[h].pc = "restore"
  /\ wallet' = wallet + Qty /\ Amend(s, [sale[s] EXCEPT !.drawn = @ - Qty])
  /\ Finish(h)
  /\ UNCHANGED <<stock, topped, astray>>

\* credit: the money of the refund goes to the wallet.
LoadRefund(h, s) ==
  /\ InForce(s) /\ AnotherReturn
  /\ \E q \in 1..(Qty - sale[s].noted), credit \in BOOLEAN :
       Serve(h, [Idle EXCEPT !.pc = "goods", !.sale = s, !.units = q, !.credit = credit])
  /\ Astray(s, Busy(s) \/ Early(s))
  /\ UNCHANGED <<stock, wallet, topped, sale>>

ReleaseRefund(h) == req[h].pc = "goods" /\ GiveBack(h, "note")

CreateNote(h) ==
  LET s == req[h].sale IN
  /\ req[h].pc = "note"
  /\ Amend(s, [sale[s] EXCEPT !.noted = @ + req[h].units])
  /\ IF req[h].credit THEN Go(h, "credit") ELSE Finish(h)
  /\ UNCHANGED <<stock, wallet, topped, astray>>

\* The limit is looked at when the credit note exists already.
CreditWallet(h) ==
  LET s == req[h].sale IN
  /\ req[h].pc = "credit"
  /\ IF Limit = 0 \/ wallet + req[h].units <= Limit
     THEN /\ wallet' = wallet + req[h].units
          /\ Amend(s, [sale[s] EXCEPT !.drawn = @ - req[h].units])
          /\ UNCHANGED astray
     ELSE Astray(s, TRUE) /\ UNCHANGED <<wallet, sale>>
  /\ Finish(h)
  /\ UNCHANGED <<stock, topped>>

(***************************************************************************)
(* fulfillDeferredSale: the goods of a deferred sale, even a voided one.   *)
(***************************************************************************)
LoadFulfil(h, s) ==
  /\ sale[s].handover = "PENDING"
  /\ Serve(h, [Idle EXCEPT !.pc = "take", !.sale = s])
  /\ Astray(s, Busy(s))
  /\ UNCHANGED <<stock, wallet, topped, sale>>

Take(h) ==
  LET s == req[h].sale IN
  /\ req[h].pc = "take"
  /\ IF stock >= Qty
     THEN /\ stock' = stock - Qty /\ Amend(s, [sale[s] EXCEPT !.taken = @ + Qty])
          /\ Go(h, "done")
     ELSE Finish(h) /\ UNCHANGED <<stock, sale>>
  /\ UNCHANGED <<wallet, topped, astray>>

HandOver(h) ==
  LET s == req[h].sale IN
  /\ req[h].pc = "done"
  /\ Amend(s, [sale[s] EXCEPT !.handover = "DONE"])
  /\ Finish(h)
  /\ UNCHANGED <<stock, wallet, topped, astray>>

\* The handover fails and is rolled back.
RollBack(h) ==
  LET s == req[h].sale IN
  /\ req[h].pc = "done"
  /\ stock' = stock + Qty /\ Amend(s, [sale[s] EXCEPT !.taken = @ - Qty])
  /\ Finish(h)
  /\ UNCHANGED <<wallet, topped, astray>>

(***************************************************************************)
(* topUpStoreCredit writes the sum of the balance it read and the amount.  *)
(***************************************************************************)
LoadTopUp(h) ==
  /\ topped < MaxTopUps
  /\ Limit = 0 \/ wallet + 1 <= Limit
  /\ Serve(h, [Idle EXCEPT !.pc = "topup", !.balance = wallet])
  /\ UNCHANGED <<stock, wallet, topped, sale, astray>>

TopUp(h) ==
  /\ req[h].pc = "topup" /\ topped < MaxTopUps
  /\ wallet' = req[h].balance + 1 /\ topped' = topped + 1
  /\ Finish(h)
  /\ UNCHANGED <<stock, sale, astray>>

\* A request ends with an error that nothing undoes, or the API stops.
HalfWay == {"debit", "cancel", "restore", "note", "credit", "done"}
Fail(h) ==
  /\ req[h].pc # "idle" /\ Finish(h)
  /\ IF req[h].pc \in HalfWay \/ req[h].units > 0
     THEN stops < MaxStops /\ stops' = stops + 1 ELSE UNCHANGED stops
  /\ Astray(req[h].sale, req[h].pc \in HalfWay)
  /\ UNCHANGED <<stock, wallet, topped, sale>>

Return(h) == \E s \in Sales : LoadVoid(h, s) \/ LoadRefund(h, s)

Others(h) ==
  \/ LoadSale(h) \/ LoadTopUp(h)
  \/ \E s \in Sales : LoadFulfil(h, s)
  \/ Reserve(h) \/ CreateInvoice(h) \/ InvoiceRefused(h) \/ Debit(h)
  \/ ReleaseVoid(h) \/ CancelSale(h) \/ RestoreCredit(h)
  \/ ReleaseRefund(h) \/ CreateNote(h) \/ CreditWallet(h)
  \/ Take(h) \/ HandOver(h) \/ RollBack(h) \/ TopUp(h)

Next ==
  \E h \in Handlers :
    \/ Return(h) /\ UNCHANGED stops
    \/ Others(h) /\ UNCHANGED <<returns, stops>>
    \/ Fail(h) /\ UNCHANGED returns

Spec == Init /\ [][Next]_vars
-----------------------------------------------------------------------------
(***************************************************************************)
(* Properties.                                                             *)
(***************************************************************************)
Drawn == SumFunctionOnSet([s \in Sales |-> sale[s].drawn], Sales)

\* The customer never spends store credit he does not have, however many tills
\* checked the same balance before any of them debited it.
WalletNotOverdrawn == wallet >= 0

\* Goods and credit follow the sale: when no request is working on it, a sale in
\* force has taken what was sold less what was refunded, and a cancelled or
\* pending one nothing; a sale on credit was debited, a cancelled one is not.
\* Only overlapping or broken requests of the sale, or a return before its
\* handover, can make it otherwise.
SaleIsWhole ==
  \A s \in Sales \ astray : ~Busy(s) =>
    /\ sale[s].taken - sale[s].back =
         IF sale[s].st = "made" /\ ~Early(s) THEN Qty - sale[s].noted ELSE 0
    /\ sale[s].st = "made" /\ sale[s].credit => sale[s].drawn >= Qty - sale[s].noted
    /\ sale[s].st = "CANCELLED" => sale[s].drawn <= 0

\* The wallet moves only by what a sale draws or gives back and by what is paid
\* in, unless a top-up writes over a balance that changed since it was read.
OnlyTopUpLosesCredit ==
  [][wallet' - wallet # (topped' - topped) - (Drawn' - Drawn) =>
       \E h \in Handlers : req[h].pc = "topup" /\ req[h].balance # wallet]_vars
=============================================================================
