---------------------------- MODULE RestoChecks ----------------------------
(***************************************************************************)
(* The checks of a restaurant (resto.service.ts): orders, their items, and *)
(* the bill a close or a pay link makes of them through the POS sale.      *)
(*                                                                         *)
(* A request that writes an order's status does so by id, long after it    *)
(* has read it, so Load.. actions read and check and the step named by pc  *)
(* writes. Item requests check and write in one step and then refresh the  *)
(* status of the order: ReadStatus reads it, WriteStatus writes what the   *)
(* items called for when they were read.                                   *)
(*                                                                         *)
(* OPEN, SENT, PARTIAL and READY are one status "active": no guard tells   *)
(* them apart. Items SENT and PREPARING are "COOKING", READY and SERVED    *)
(* "DONE", and a complimentary item is not billed, like a voided one.      *)
(* Tables are left to RestoFloor; recipe components, prices, seats, rush   *)
(* and hold marks, delivery stages and notifications are left out.         *)
(* settleBySeat is a split and a close of the new check, settleEqual a     *)
(* close.                                                                  *)
(***************************************************************************)
EXTENDS FiniteSets, Sequences, Functions

CONSTANTS
  Orders, Items, Bills,  \* rows that may come to exist
  Handlers,              \* requests the API can be serving at once
  Tills,                 \* the handlers among them that close and bill
  None

ASSUME CheckConstants ==
  /\ Tills \subseteq Handlers
  /\ None \notin Orders \cup Bills

VARIABLES
  order,   \* rows of resto_orders: status, invoiceId
  item,    \* rows of resto_order_items: order, status
  bill,    \* invoices of checks: status, the check of the tag, items billed
  moved,   \* items taken off a check that had been billed, or was being
  req      \* what each handler is doing, with what it has read

vars == <<order, item, bill, moved, req>>

\* A check is absent, active, CLOSED or CANCELLED; an item none, PENDING,
\* COOKING, DONE (from READY on), CANCELLED or gone; a bill none, UNPAID, PAID or
\* CANCELLED.
\* order: the check of the request; to: the check it moves items to; todo: the
\* checks whose status is still to be refreshed; closed: was the check already
\* closed when the request read the status it is about to write?
Idle == [pc |-> "idle", order |-> None, to |-> None,
         bill |-> None, items |-> {}, todo |-> << >>, closed |-> FALSE]

Init ==
  /\ order = [o \in Orders |-> [status |-> "absent", bill |-> None]]
  /\ item = [i \in Items |-> [on |-> None, st |-> "none"]]
  /\ bill = [b \in Bills |-> [st |-> "none", of |-> None, lines |-> {}]]
  /\ moved = {}
  /\ req = [h \in Handlers |-> Idle]

Exists(i) == item[i].st \notin {"none", "gone"}
On(o) == {i \in Items : Exists(i) /\ item[i].on = o}
Standing(o) == {i \in On(o) : item[i].st # "CANCELLED"}
Open(o) == order[o].status = "active"
Live(b) == bill[b].st \in {"UNPAID", "PAID"}
Cooking(o) == \E i \in On(o) : item[i].st = "COOKING"

\* What a close and a pay link bill: what the kitchen has had, and only when
\* there is no such item, what is still pending.
Billable(o) ==
  LET fired == {i \in Standing(o) : item[i].st # "PENDING"}
  IN IF fired # {} THEN fired ELSE Standing(o)

\* A till that makes a bill: before the sale of the check is looked for, and after.
Billing == {"sellNow", "sellLink", "chargeNow", "chargeLink"}

\* An item some live bill holds, or a till is about to bill.
Spoken(i) ==
  \/ \E b \in Bills : Live(b) /\ i \in bill[b].lines
  \/ \E h \in Handlers : req[h].pc \in Billing /\ i \in req[h].items

Serve(h, r) == req[h].pc = "idle" /\ req' = [req EXCEPT ![h] = r]
WillRestate(h) ==
  req' = [req EXCEPT ![h].pc = "restate",
                     ![h].closed = order[Head(req[h].todo)].status = "CLOSED"]
Finish(h) == req' = [req EXCEPT ![h] = Idle]
Then(h, os) == req' = [req EXCEPT ![h] = [Idle EXCEPT !.pc = "refresh", !.todo = os]]
Request(pc, o) == [Idle EXCEPT !.pc = pc, !.order = o, !.closed = order[o].status = "CLOSED"]
Restate(o, status) == order' = [order EXCEPT ![o].status = status]
SetItems(S, st) ==
  item' = [i \in Items |-> IF i \in S THEN [item[i] EXCEPT !.st = st] ELSE item[i]]
MoveItems(S, o) ==
  /\ item' = [i \in Items |-> IF i \in S THEN [item[i] EXCEPT !.on = o] ELSE item[i]]
  /\ moved' = moved \cup {i \in S : Spoken(i)}

(***************************************************************************)
(* Orders and items.                                                       *)
(***************************************************************************)
OpenOrder(o) ==
  /\ order[o].status = "absent" /\ Restate(o, "active")
  /\ UNCHANGED <<item, bill, moved, req>>

AddItem(o) ==
  /\ Open(o) /\ order[o].bill = None
  /\ \E i \in Items : item[i].st = "none" /\ item' = [item EXCEPT ![i] = [on |-> o, st |-> "PENDING"]]
  /\ UNCHANGED <<order, bill, moved, req>>

RemoveItem(h, i) ==
  /\ item[i].st \in {"PENDING", "CANCELLED"}
  /\ SetItems({i}, "gone")
  /\ Serve(h, [Idle EXCEPT !.pc = "refresh", !.todo = <<item[i].on>>])
  /\ UNCHANGED <<order, bill, moved>>

VoidItem(h, i) ==
  /\ item[i].st \in {"COOKING", "DONE"} /\ SetItems({i}, "CANCELLED")
  /\ Serve(h, [Idle EXCEPT !.pc = "refresh", !.todo = <<item[i].on>>])
  /\ UNCHANGED <<order, bill, moved>>

\* The kitchen display sets any item, whatever the item and its order are.
SetKitchenItemStatus(h, i) ==
  /\ Exists(i) /\ \E st \in {"COOKING", "DONE"} : SetItems({i}, st)
  /\ Serve(h, [Idle EXCEPT !.pc = "refresh", !.todo = <<item[i].on>>])
  /\ UNCHANGED <<order, bill, moved>>

RecallKitchenItem(h, i) ==
  /\ item[i].st = "DONE" /\ Open(item[i].on) /\ SetItems({i}, "COOKING")
  /\ Serve(h, [Idle EXCEPT !.pc = "refresh", !.todo = <<item[i].on>>])
  /\ UNCHANGED <<order, bill, moved>>

\* Pending items of all courses, or of one.
LoadSend(h, o) ==
  /\ Open(o) /\ \E i \in On(o) : item[i].st = "PENDING"
  /\ Serve(h, Request("send", o))
  /\ UNCHANGED <<order, item, bill, moved>>

SendToKitchen(h) ==
  /\ req[h].pc = "send"
  /\ \E S \in SUBSET {i \in On(req[h].order) : item[i].st = "PENDING"} :
       SetItems(S, "COOKING")
  /\ Restate(req[h].order, "active")
  /\ Then(h, <<req[h].order>>)
  /\ UNCHANGED <<bill, moved>>

(***************************************************************************)
(* refreshOrderStatus. It returns for a closed order, not for a cancelled  *)
(* one, and writes a status that is not the order's already. It leaves the *)
(* status alone when every item is served, which DONE leaves open.         *)
(***************************************************************************)
MayKeep(o) ==
  \/ order[o].status # "CANCELLED"
  \/ Standing(o) # {} /\ \A i \in Standing(o) : item[i].st = "DONE"

NextCheck(h) ==
  IF Len(req[h].todo) = 1 THEN Finish(h) ELSE Then(h, Tail(req[h].todo))

\* Faulty: also restates a closed order.
ReadAnyStatus(h) ==
  /\ req[h].pc = "refresh"
  /\ \/ WillRestate(h)
     \/ MayKeep(Head(req[h].todo)) /\ NextCheck(h)
  /\ UNCHANGED <<order, item, bill, moved>>

ReadStatus(h) ==
  /\ req[h].pc = "refresh"
  /\ \/ order[Head(req[h].todo)].status # "CLOSED" /\ WillRestate(h)
     \/ MayKeep(Head(req[h].todo)) /\ NextCheck(h)
  /\ UNCHANGED <<order, item, bill, moved>>

WriteStatus(h) ==
  /\ req[h].pc = "restate"
  /\ Restate(Head(req[h].todo), "active")
  /\ NextCheck(h)
  /\ UNCHANGED <<item, bill, moved>>

(***************************************************************************)
(* Merge and split.                                                        *)
(***************************************************************************)
LoadMerge(h, o, p) ==
  /\ o # p /\ Open(o) /\ Open(p)
  /\ Serve(h, [Request("merge", o) EXCEPT !.to = p])
  /\ UNCHANGED <<order, item, bill, moved>>

MergeOrders(h) ==
  /\ req[h].pc = "merge"
  /\ MoveItems(On(req[h].order), req[h].to)
  /\ Restate(req[h].order, "CANCELLED")
  /\ Then(h, <<req[h].to>>)
  /\ UNCHANGED bill

LoadSplit(h, o) ==
  /\ Open(o)
  /\ \E S \in SUBSET Standing(o) \ {{}, Standing(o)} :
       Serve(h, [Request("split", o) EXCEPT !.items = S])
  /\ UNCHANGED <<order, item, bill, moved>>

SplitOrder(h) ==
  /\ req[h].pc = "split"
  /\ \E p \in Orders :
       /\ order[p].status = "absent" /\ Restate(p, "active")
       /\ MoveItems({i \in req[h].items : Exists(i)}, p)
       /\ Then(h, <<req[h].order, p>>)
  /\ UNCHANGED bill

(***************************************************************************)
(* Closing and billing. The sale is tagged with the check: one that exists *)
(* is returned whatever has become of it.                                  *)
(***************************************************************************)
\* Load an order to be billed; its pending items count as served from here.
Bill(h, o, pc) ==
  /\ ~Cooking(o) /\ Billable(o) # {}
  /\ Serve(h, [Request(pc, o) EXCEPT !.items = Billable(o)])
  /\ SetItems({i \in On(o) : item[i].st = "PENDING"}, "DONE")
  /\ UNCHANGED <<order, bill, moved>>

Unbilled(o) == \A b \in Bills : order[o].bill = b => bill[b].st = "CANCELLED"
PaidFor(o) == \E b \in Bills : order[o].bill = b /\ bill[b].st = "PAID"

CloseOrder(h, o) ==
  /\ Open(o)
  /\ \/ Unbilled(o) /\ Bill(h, o, "sellNow")
     \/ /\ PaidFor(o) /\ Serve(h, Request("shut", o))
        /\ UNCHANGED <<order, item, bill, moved>>

SoftClose(h, o) ==
  /\ Open(o) /\ ~Cooking(o)
  /\ Serve(h, Request("shut", o))
  /\ UNCHANGED <<order, item, bill, moved>>

CreatePayLink(h, o) ==
  /\ Open(o)
  /\ \/ Unbilled(o) /\ Bill(h, o, "sellLink")
     \/ /\ PaidFor(o) /\ Serve(h, Request("shut", o))
        /\ UNCHANGED <<order, item, bill, moved>>

SaleOf(o) == {b \in Bills : bill[b].of = o}
WithBill(h, b) ==
  req' = [req EXCEPT ![h].pc = IF @ \in {"sellNow", "chargeNow"} THEN "finish" ELSE "link",
                     ![h].bill = b, ![h].items = {}]
NoSaleYet(h) ==
  req' = [req EXCEPT ![h].pc = IF @ = "sellNow" THEN "chargeNow" ELSE "chargeLink"]

\* Faulty: the sale is made without looking for its tag.
SellAgain(h) ==
  /\ req[h].pc \in {"sellNow", "sellLink"} /\ NoSaleYet(h)
  /\ UNCHANGED <<order, item, bill, moved>>

LookUpSale(h) ==
  /\ req[h].pc \in {"sellNow", "sellLink"}
  /\ IF SaleOf(req[h].order) = {} THEN NoSaleYet(h)
     ELSE \E b \in SaleOf(req[h].order) : WithBill(h, b)
  /\ UNCHANGED <<order, item, bill, moved>>

NewBill(h, b, st) ==
  /\ bill[b].st = "none"
  /\ bill' = [bill EXCEPT ![b] = [st |-> st, of |-> req[h].order, lines |-> req[h].items]]
  /\ UNCHANGED <<order, item, moved>>

CreateSale(h, b) ==
  /\ req[h].pc \in {"chargeNow", "chargeLink"}
  /\ NewBill(h, b, IF req[h].pc = "chargeNow" THEN "PAID" ELSE "UNPAID")
  /\ WithBill(h, b)

\* The invoice is created before it is paid: a sale that fails in between
\* leaves it, tagged and unpaid.
SaleBreaks(h, b) ==
  /\ req[h].pc = "chargeNow"
  /\ NewBill(h, b, "UNPAID")
  /\ Finish(h)

FinishClose(h) ==
  /\ req[h].pc = "finish"
  /\ order' = [order EXCEPT ![req[h].order].status = "CLOSED",
                            ![req[h].order].bill = req[h].bill]
  /\ Finish(h)
  /\ UNCHANGED <<item, bill, moved>>

StorePayLink(h) ==
  /\ req[h].pc = "link"
  /\ order' = [order EXCEPT ![req[h].order].bill = req[h].bill]
  /\ Finish(h)
  /\ UNCHANGED <<item, bill, moved>>

\* finalizeOrderAfterPayment, and the last step of a soft close.
FinalizeOrder(h) ==
  /\ req[h].pc = "shut" /\ Restate(req[h].order, "CLOSED") /\ Finish(h)
  /\ UNCHANGED <<item, bill, moved>>

\* The guest pays online; the fulfilment closes an open check of the bill.
GuestPays(b) ==
  /\ bill[b].st = "UNPAID" /\ \E o \in Orders : order[o].bill = b
  /\ bill' = [bill EXCEPT ![b].st = "PAID"]
  /\ order' = [o \in Orders |-> IF order[o].bill = b /\ Open(o)
                                THEN [order[o] EXCEPT !.status = "CLOSED"] ELSE order[o]]
  /\ UNCHANGED <<item, moved, req>>

\* The office cancels the invoice, paid or not.
CancelBill(b) ==
  /\ Live(b) /\ bill' = [bill EXCEPT ![b].st = "CANCELLED"]
  /\ UNCHANGED <<order, item, moved, req>>

\* Cancelling an order cancels its unpaid bill first.
LoadCancel(h, o) ==
  /\ order[o].status \in {"active", "CANCELLED"} /\ ~PaidFor(o)
  /\ Serve(h, Request("cancel", o))
  /\ bill' = IF order[o].bill = None THEN bill
             ELSE [bill EXCEPT ![order[o].bill].st = "CANCELLED"]
  /\ UNCHANGED <<order, item, moved>>

CancelOrder(h) ==
  /\ req[h].pc = "cancel"
  /\ SetItems({i \in On(req[h].order) : item[i].st \in {"PENDING", "COOKING"}}, "CANCELLED")
  /\ Restate(req[h].order, "CANCELLED") /\ Finish(h)
  /\ UNCHANGED <<bill, moved>>

\* A request ends with an error, or the API stops: nothing written is undone.
Fail(h) ==
  /\ req[h].pc # "idle" /\ Finish(h)
  /\ UNCHANGED <<order, item, bill, moved>>

Till(h) ==
  \/ \E o \in Orders : CloseOrder(h, o) \/ SoftClose(h, o) \/ CreatePayLink(h, o)
  \/ LookUpSale(h) \/ \E b \in Bills : CreateSale(h, b) \/ SaleBreaks(h, b)
  \/ FinishClose(h) \/ StorePayLink(h) \/ FinalizeOrder(h)

Staff(h) ==
  \/ \E o \in Orders :
       \/ LoadSend(h, o) \/ LoadSplit(h, o) \/ LoadCancel(h, o)
       \/ \E p \in Orders : LoadMerge(h, o, p)
  \/ \E i \in Items :
       RemoveItem(h, i) \/ VoidItem(h, i) \/ SetKitchenItemStatus(h, i) \/ RecallKitchenItem(h, i)
  \/ MergeOrders(h) \/ SplitOrder(h) \/ CancelOrder(h)
  \/ SendToKitchen(h) \/ ReadStatus(h) \/ WriteStatus(h)

Next ==
  \/ \E o \in Orders : OpenOrder(o) \/ AddItem(o)
  \/ \E b \in Bills : GuestPays(b) \/ CancelBill(b)
  \/ \E h \in Tills : Till(h)
  \/ \E h \in Handlers \ Tills : Staff(h)
  \/ \E h \in Handlers : Fail(h)

Spec == Init /\ [][Next]_vars
-----------------------------------------------------------------------------
(***************************************************************************)
(* Properties.                                                             *)
(***************************************************************************)
\* A guest is not asked for a dish twice: while one till at a time closes a
\* check, two live bills share an item only if it was merged or split off a
\* check already billed, however often a close or a pay link failed half-way
\* and was tried again.
BilledOnce ==
  \A b, c \in Bills :
    b # c /\ Live(b) /\ Live(c) => bill[b].lines \cap bill[c].lines \subseteq moved

\* A closed check is reopened or cancelled only by a request that had read its
\* status before it was closed: a request that starts later leaves it closed.
ClosedStaysClosed ==
  [][\A o \in Orders :
       order[o].status = "CLOSED" /\ order'[o].status # "CLOSED" =>
         \E h \in Handlers :
           /\ ~req[h].closed
           /\ \/ req[h].order = o /\ req[h].pc \in {"send", "merge", "cancel"}
              \/ req[h].pc = "restate" /\ Head(req[h].todo) = o]_vars
=============================================================================
