------------------------- MODULE RestoChecksProofs --------------------------
(***************************************************************************)
(* A closed check stays closed, for any orders, items, bills, handlers and *)
(* tills: whoever writes another status over CLOSED had read one before    *)
(* the check was closed. The invariant IInv says what each request that    *)
(* will write such a status has seen. With one till at a time, no dish is  *)
(* billed twice (BInv).                                                    *)
(***************************************************************************)
EXTENDS RestoChecks, TLAPS

Reopening == {"send", "merge", "cancel", "restate"}

Requests == /\ DOMAIN req = Handlers
            /\ \A h \in Handlers :
                 /\ DOMAIN req[h] = {"pc", "order", "to", "bill", "items", "todo", "closed"}
                 /\ req[h].pc \in Reopening => req[h].closed = FALSE
Rows == DOMAIN order = Orders /\ \A o \in Orders : DOMAIN order[o] = {"status", "bill"}
IInv == Requests /\ Rows

\* What one step may do to closed checks.
Justified(o, h) ==
  /\ ~req[h].closed
  /\ \/ req[h].order = o /\ req[h].pc \in {"send", "merge", "cancel"}
     \/ req[h].pc = "restate" /\ Head(req[h].todo) = o
Steady == \A o \in Orders :
            order[o].status = "CLOSED" /\ order'[o].status # "CLOSED" =>
              \E h \in Handlers : Justified(o, h)
-----------------------------------------------------------------------------
LEMMA InitIInv == Init => IInv
  BY CheckConstants DEF Init, IInv, Requests, Rows, Idle, Reopening

\* A request is left as it was, served, moved on or finished.
LEMMA RequestStep ==
  ASSUME IInv, NEW h \in Handlers, NEW r, req' = [req EXCEPT ![h] = r],
         DOMAIN r = {"pc", "order", "to", "bill", "items", "todo", "closed"},
         r.pc \in Reopening => r.closed = FALSE
  PROVE  Requests'
  BY DEF IInv, Requests

\* A request starts with the status it has read.
Started(r, pc, o) ==
  /\ DOMAIN r = {"pc", "order", "to", "bill", "items", "todo", "closed"}
  /\ r.pc = pc /\ r.closed = (order[o].status = "CLOSED")

LEMMA RequestShape ==
  ASSUME NEW pc, NEW o, NEW to, NEW S
  PROVE  /\ Started(Request(pc, o), pc, o)
         /\ Started([Request(pc, o) EXCEPT !.to = to], pc, o)
         /\ Started([Request(pc, o) EXCEPT !.items = S], pc, o)
  BY DEF Started, Request, Idle

LEMMA Starting ==
  ASSUME IInv, NEW h \in Handlers, NEW pc, NEW o, NEW r, Serve(h, r), Started(r, pc, o),
         pc \in Reopening => order[o].status # "CLOSED"
  PROVE  Requests'
<1>1. r.pc \in Reopening => r.closed = FALSE
  BY DEF Started
<1> QED BY <1>1, RequestStep DEF Started, Serve

LEMMA Finishing == ASSUME IInv, NEW h \in Handlers, Finish(h) PROVE Requests'
  BY RequestStep DEF Finish, Idle, Reopening

LEMMA Refreshing ==
  ASSUME IInv, NEW h \in Handlers, NEW os, Then(h, os) PROVE Requests'
<1> DEFINE r == [Idle EXCEPT !.pc = "refresh", !.todo = os]
<1>1. DOMAIN r = {"pc", "order", "to", "bill", "items", "todo", "closed"} /\ r.pc = "refresh"
  BY DEF Idle
<1> QED BY <1>1, RequestStep DEF Then, Reopening

LEMMA GoingOn == ASSUME IInv, NEW h \in Handlers, NextCheck(h) PROVE Requests'
  BY Finishing, Refreshing DEF NextCheck

\* Writing a status touches one check.
LEMMA Restating ==
  ASSUME Rows, NEW x, NEW st, Restate(x, st)
  PROVE  Rows' /\ \A o \in Orders : o # x => order'[o].status = order[o].status
  BY DEF Rows, Restate

-----------------------------------------------------------------------------
\* Requests of the staff that read and check.
LEMMA LoadKeeps ==
  ASSUME IInv, NEW h \in Handlers, NEW o \in Orders,
         \/ LoadSend(h, o) \/ LoadSplit(h, o) \/ LoadCancel(h, o)
         \/ \E p \in Orders : LoadMerge(h, o, p)
  PROVE  IInv' /\ Steady
<1>1. UNCHANGED order
  BY DEF LoadSend, LoadSplit, LoadCancel, LoadMerge
<1>2. ASSUME LoadSend(h, o) PROVE Requests'
  <2>1. Serve(h, Request("send", o)) /\ order[o].status # "CLOSED"
    BY <1>2 DEF LoadSend, Open
  <2>2. Started(Request("send", o), "send", o)
    BY RequestShape
  <2> QED BY <2>1, <2>2, Starting
<1>3. ASSUME LoadSplit(h, o) PROVE Requests'
  <2>1. PICK S : Serve(h, [Request("split", o) EXCEPT !.items = S])
    BY <1>3 DEF LoadSplit
  <2>2. Started([Request("split", o) EXCEPT !.items = S], "split", o)
    BY RequestShape
  <2> QED BY <2>1, <2>2, Starting DEF Reopening
<1>4. ASSUME LoadCancel(h, o) PROVE Requests'
  <2>1. Serve(h, Request("cancel", o)) /\ order[o].status # "CLOSED"
    BY <1>4 DEF LoadCancel
  <2>2. Started(Request("cancel", o), "cancel", o)
    BY RequestShape
  <2> QED BY <2>1, <2>2, Starting
<1>5. ASSUME NEW p \in Orders, LoadMerge(h, o, p) PROVE Requests'
  <2>1. Serve(h, [Request("merge", o) EXCEPT !.to = p]) /\ order[o].status # "CLOSED"
    BY <1>5 DEF LoadMerge, Open
  <2> QED BY <2>1, RequestShape, Starting
<1>6. Requests'
  BY <1>2, <1>3, <1>4, <1>5
<1> QED BY <1>1, <1>6 DEF IInv, Rows, Steady

LEMMA ItemKeeps ==
  ASSUME IInv, NEW h \in Handlers, NEW i \in Items,
         \/ RemoveItem(h, i) \/ VoidItem(h, i) \/ SetKitchenItemStatus(h, i)
         \/ RecallKitchenItem(h, i)
  PROVE  IInv' /\ Steady
<1>1. UNCHANGED order /\ Serve(h, [Idle EXCEPT !.pc = "refresh", !.todo = <<item[i].on>>])
  BY DEF RemoveItem, VoidItem, SetKitchenItemStatus, RecallKitchenItem
<1>2. Requests'
  BY <1>1, RequestStep DEF Serve, Idle, Reopening
<1> QED BY <1>1, <1>2 DEF IInv, Rows, Steady

\* Writes of another status: only over what the request has seen open.
LEMMA ReopeningKeeps ==
  ASSUME IInv, NEW h \in Handlers,
         MergeOrders(h) \/ CancelOrder(h) \/ SendToKitchen(h) \/ WriteStatus(h)
  PROVE  IInv' /\ Steady
<1>1. req[h].pc \in Reopening => ~req[h].closed
  BY DEF IInv, Requests
<1>2. CASE MergeOrders(h)
  <2>1. Restate(req[h].order, "CANCELLED") /\ Requests'
    BY <1>2, Refreshing DEF MergeOrders
  <2> QED BY <1>1, <1>2, <2>1, Restating DEF MergeOrders, IInv, Steady, Justified, Reopening
<1>3. CASE CancelOrder(h)
  <2>1. Restate(req[h].order, "CANCELLED") /\ Requests'
    BY <1>3, Finishing DEF CancelOrder
  <2> QED BY <1>1, <1>3, <2>1, Restating DEF CancelOrder, IInv, Steady, Justified, Reopening
<1>4. CASE SendToKitchen(h)
  <2>1. Restate(req[h].order, "active") /\ Requests'
    BY <1>4, Refreshing DEF SendToKitchen
  <2> QED BY <1>1, <1>4, <2>1, Restating DEF SendToKitchen, IInv, Steady, Justified, Reopening
<1>5. CASE WriteStatus(h)
  <2>1. Restate(Head(req[h].todo), "active") /\ Requests'
    BY <1>5, GoingOn DEF WriteStatus
  <2> QED BY <1>1, <1>5, <2>1, Restating DEF WriteStatus, IInv, Steady, Justified, Reopening
<1> QED BY <1>2, <1>3, <1>4, <1>5

LEMMA SplitKeeps == ASSUME IInv, NEW h \in Handlers, SplitOrder(h) PROVE IInv' /\ Steady
<1>1. PICK p \in Orders :
        /\ order[p].status = "absent" /\ Restate(p, "active")
        /\ Then(h, <<req[h].order, p>>)
  BY DEF SplitOrder
<1>2. Requests'
  BY <1>1, Refreshing
<1> QED BY <1>1, <1>2, Restating DEF IInv, Steady

\* The refresh reads the status it will write over.
LEMMA ReadKeeps == ASSUME IInv, NEW h \in Handlers, ReadStatus(h) PROVE IInv' /\ Steady
<1>1. CASE NextCheck(h)
  BY <1>1, GoingOn DEF ReadStatus, IInv, Rows, Steady
<1>2. CASE order[Head(req[h].todo)].status # "CLOSED" /\ WillRestate(h)
  BY <1>2 DEF ReadStatus, WillRestate, IInv, Requests, Rows, Steady
<1> QED BY <1>1, <1>2 DEF ReadStatus

\* The tills: they write no status but CLOSED.
LEMMA TillKeeps == ASSUME IInv, NEW h \in Handlers, Till(h) PROVE IInv' /\ Steady
<1>1. ASSUME NEW o \in Orders, CloseOrder(h, o) \/ SoftClose(h, o) \/ CreatePayLink(h, o)
      PROVE  IInv' /\ Steady
  <2>1. UNCHANGED order
    BY <1>1 DEF CloseOrder, SoftClose, CreatePayLink, Bill
  <2>2. PICK pc \in {"sellNow", "sellLink", "shut"} :
          \/ \E S : Serve(h, [Request(pc, o) EXCEPT !.items = S])
          \/ Serve(h, Request(pc, o))
    BY <1>1 DEF CloseOrder, SoftClose, CreatePayLink, Bill
  <2>3. ASSUME NEW S, Serve(h, [Request(pc, o) EXCEPT !.items = S]) PROVE Requests'
    <3>1. Started([Request(pc, o) EXCEPT !.items = S], pc, o)
      BY RequestShape
    <3> QED BY <2>3, <3>1, Starting DEF Reopening
  <2>4. ASSUME Serve(h, Request(pc, o)) PROVE Requests'
    <3>1. Started(Request(pc, o), pc, o)
      BY RequestShape
    <3> QED BY <2>4, <3>1, Starting DEF Reopening
  <2> QED BY <2>1, <2>2, <2>3, <2>4 DEF IInv, Rows, Steady
<1>2. CASE LookUpSale(h) \/ \E b \in Bills : CreateSale(h, b)
  <2>1. \/ NoSaleYet(h) /\ req[h].pc \in {"sellNow", "sellLink"}
        \/ \E b \in Bills : WithBill(h, b)
    BY <1>2 DEF LookUpSale, SaleOf, CreateSale
  <2>2. Requests'
    <3>1. ASSUME NEW b \in Bills, WithBill(h, b) PROVE Requests'
      BY <3>1 DEF WithBill, IInv, Requests, Reopening
    <3>2. ASSUME NoSaleYet(h), req[h].pc \in {"sellNow", "sellLink"} PROVE Requests'
      <4>1. req' = [req EXCEPT ![h].pc = "chargeNow"] \/ req' = [req EXCEPT ![h].pc = "chargeLink"]
        BY <3>2 DEF NoSaleYet
      <4> QED BY <4>1 DEF IInv, Requests, Reopening
    <3> QED BY <2>1, <3>1, <3>2
  <2> QED BY <1>2, <2>2 DEF LookUpSale, CreateSale, NewBill, IInv, Rows, Steady
<1>3. ASSUME NEW b \in Bills, SaleBreaks(h, b) PROVE IInv' /\ Steady
  BY <1>3, Finishing DEF SaleBreaks, NewBill, IInv, Rows, Steady
<1>4. CASE FinishClose(h) \/ StorePayLink(h)
  <2>1. Requests'
    BY <1>4, Finishing DEF FinishClose, StorePayLink
  <2> QED BY <1>4, <2>1 DEF FinishClose, StorePayLink, IInv, Rows, Steady
<1>5. CASE FinalizeOrder(h)
  <2>1. Restate(req[h].order, "CLOSED") /\ Requests'
    BY <1>5, Finishing DEF FinalizeOrder
  <2> QED BY <2>1, Restating DEF IInv, Rows, Restate, Steady
<1> QED BY <1>1, <1>2, <1>3, <1>4, <1>5 DEF Till

LEMMA OutsideKeeps ==
  ASSUME IInv,
         \/ \E o \in Orders : OpenOrder(o) \/ AddItem(o)
         \/ \E b \in Bills : GuestPays(b) \/ CancelBill(b)
         \/ \E h \in Handlers : Fail(h)
  PROVE  IInv' /\ Steady
<1>1. ASSUME NEW o \in Orders, OpenOrder(o) PROVE IInv' /\ Steady
  BY <1>1, Restating DEF OpenOrder, IInv, Requests, Steady
<1>2. ASSUME NEW b \in Bills, GuestPays(b) PROVE IInv' /\ Steady
  BY <1>2 DEF GuestPays, IInv, Requests, Rows, Steady
<1>3. ASSUME NEW h \in Handlers, Fail(h) PROVE IInv' /\ Steady
  BY <1>3, Finishing DEF Fail, IInv, Rows, Steady
<1>4. ASSUME UNCHANGED <<order, req>> PROVE IInv' /\ Steady
  BY <1>4 DEF IInv, Requests, Rows, Steady
<1> QED BY <1>1, <1>2, <1>3, <1>4 DEF AddItem, CancelBill

LEMMA NextKeeps == IInv /\ [Next]_vars => IInv' /\ Steady
<1> SUFFICES ASSUME IInv, [Next]_vars PROVE IInv' /\ Steady
  OBVIOUS
<1>1. CASE UNCHANGED vars
  BY <1>1 DEF vars, IInv, Requests, Rows, Steady
<1>2. ASSUME NEW h \in Handlers, Staff(h) PROVE IInv' /\ Steady
  BY <1>2, LoadKeeps, ItemKeeps, ReopeningKeeps, SplitKeeps, ReadKeeps DEF Staff
<1> QED BY <1>1, <1>2, TillKeeps, OutsideKeeps, CheckConstants DEF Next

\* For any orders, items, bills, handlers and tills: only a request that had
\* read a check's status before it was closed can reopen or cancel it.
THEOREM SpecClosedStaysClosed == Spec => ClosedStaysClosed
<1>1. IInv /\ [Next]_vars => [\A o \in Orders :
        order[o].status = "CLOSED" /\ order'[o].status # "CLOSED" =>
          \E h \in Handlers :
            /\ ~req[h].closed
            /\ \/ req[h].order = o /\ req[h].pc \in {"send", "merge", "cancel"}
               \/ req[h].pc = "restate" /\ Head(req[h].todo) = o]_vars
  BY NextKeeps DEF Steady, Justified
<1>2. IInv /\ [Next]_vars => IInv'
  BY NextKeeps
<1> QED BY <1>1, <1>2, InitIInv, PTL DEF Spec, ClosedStaysClosed
-----------------------------------------------------------------------------
(***************************************************************************)
(* No dish is billed twice. A bill that stands, and a till about to make   *)
(* one, hold items of their own check or items moved off it since; no two  *)
(* bills are of one check, and a till that found no sale of its check is   *)
(* still right. The last is where one till at a time is needed.            *)
(***************************************************************************)
OneTill == \A g, h \in Tills : g = h

Shapes == /\ DOMAIN item = Items /\ \A i \in Items : DOMAIN item[i] = {"on", "st"}
          /\ DOMAIN bill = Bills /\ \A b \in Bills : DOMAIN bill[b] = {"st", "of", "lines"}
Of(S, o) == \A i \in S : i \in Items /\ item[i].st # "none" /\ (i \in moved \/ item[i].on = o)
BillOf(b) == Live(b) => bill[b].of # None /\ Of(bill[b].lines, bill[b].of)
TillOf(h) == req[h].pc \in Billing =>
               h \in Tills /\ req[h].order \in Orders /\ Of(req[h].items, req[h].order)
OneSale == \A b, c \in Bills : b # c /\ bill[b].of # None => bill[b].of # bill[c].of
Looked(h) == req[h].pc \in {"chargeNow", "chargeLink"} => SaleOf(req[h].order) = {}
BInv == /\ Shapes /\ OneSale
        /\ \A b \in Bills : BillOf(b)
        /\ \A h \in Handlers : TillOf(h) /\ Looked(h)

LEMMA ItemsKept ==
  ASSUME NEW S, NEW o, Of(S, o), moved \subseteq moved',
         \A i \in S : Spoken(i),
         \A i \in Items : item[i].st # "none" =>
           /\ item'[i].st # "none"
           /\ item'[i].on = item[i].on \/ (Spoken(i) => i \in moved')
  PROVE  Of(S, o)'
  BY DEF Of

\* A step that makes no bill.
LEMMA NoBill ==
  ASSUME BInv, Shapes', moved \subseteq moved',
         \A i \in Items : item[i].st # "none" =>
           /\ item'[i].st # "none"
           /\ item'[i].on = item[i].on \/ (Spoken(i) => i \in moved'),
         \A b \in Bills :
           /\ bill'[b].of = bill[b].of /\ bill'[b].lines = bill[b].lines
           /\ Live(b)' => Live(b),
         \A h \in Handlers :
           /\ TillOf(h)'
           /\ req'[h].pc \in {"chargeNow", "chargeLink"} => SaleOf(req'[h].order) = {}
  PROVE  BInv'
<1>1. OneSale'
  BY DEF BInv, OneSale
<1>2. ASSUME NEW b \in Bills PROVE BillOf(b)'
  <2> SUFFICES ASSUME Live(b)' PROVE bill'[b].of # None /\ Of(bill[b].lines, bill[b].of)'
    BY DEF BillOf
  <2>1. Live(b) /\ bill[b].of # None /\ Of(bill[b].lines, bill[b].of)
    BY DEF BInv, BillOf
  <2>2. PICK S, o : S = bill[b].lines /\ o = bill[b].of
    OBVIOUS
  <2>3. \A i \in S : Spoken(i)
    BY <2>1, <2>2 DEF Spoken
  <2>4. Of(S, o)'
    BY <2>1, <2>2, <2>3, ItemsKept
  <2> QED BY <2>1, <2>2, <2>4 DEF Of
<1>3. \A h \in Handlers : Looked(h)'
  BY DEF Looked, SaleOf
<1> QED BY <1>1, <1>2, <1>3 DEF BInv

\* A till that goes on as it was.
LEMMA TillStays ==
  ASSUME BInv, moved \subseteq moved', NEW h \in Handlers, req'[h] = req[h],
         \A i \in Items : item[i].st # "none" =>
           /\ item'[i].st # "none"
           /\ item'[i].on = item[i].on \/ (Spoken(i) => i \in moved')
  PROVE  /\ TillOf(h)'
         /\ req'[h].pc \in {"chargeNow", "chargeLink"} => SaleOf(req'[h].order) = {}
<1>1. TillOf(h)'
  <2> SUFFICES ASSUME req[h].pc \in Billing
               PROVE  h \in Tills /\ req[h].order \in Orders /\ Of(req[h].items, req[h].order)'
    BY DEF TillOf, Billing, Of
  <2>1. h \in Tills /\ req[h].order \in Orders /\ Of(req[h].items, req[h].order)
    BY DEF BInv, TillOf
  <2>2. PICK S, o : S = req[h].items /\ o = req[h].order
    OBVIOUS
  <2>3. \A i \in S : Spoken(i)
    BY <2>2 DEF Spoken
  <2>4. Of(S, o)'
    BY <2>1, <2>2, <2>3, ItemsKept
  <2> QED BY <2>1, <2>2, <2>4 DEF Of
<1> QED BY <1>1 DEF BInv, Looked

\* No request becomes one that makes a bill.
Off == \A g \in Handlers : req'[g] = req[g] \/ req'[g].pc \notin Billing
ItemsStay == \A i \in Items : item[i].st # "none" =>
               /\ item'[i].st # "none"
               /\ item'[i].on = item[i].on \/ (Spoken(i) => i \in moved')
BillsStay == \A b \in Bills : /\ bill'[b].of = bill[b].of /\ bill'[b].lines = bill[b].lines
                              /\ Live(b)' => Live(b)

LEMMA OffKeeps ==
  ASSUME BInv, Shapes', moved \subseteq moved', ItemsStay, BillsStay, Off
  PROVE  BInv'
<1>1. ASSUME NEW h \in Handlers
      PROVE  /\ TillOf(h)'
             /\ req'[h].pc \in {"chargeNow", "chargeLink"} => SaleOf(req'[h].order) = {}
  <2>1. CASE req'[h] = req[h]
    BY <2>1, TillStays DEF ItemsStay
  <2>2. CASE req'[h].pc \notin Billing
    BY <2>2 DEF TillOf, Billing
  <2> QED BY <2>1, <2>2 DEF Off
<1>2. \A b \in Bills :
        /\ bill'[b].of = bill[b].of /\ bill'[b].lines = bill[b].lines
        /\ Live(b)' => Live(b)
  BY DEF BillsStay
<1>3. \A i \in Items : item[i].st # "none" =>
        /\ item'[i].st # "none"
        /\ item'[i].on = item[i].on \/ (Spoken(i) => i \in moved')
  BY DEF ItemsStay
<1> QED BY ONLY BInv, Shapes', moved \subseteq moved', <1>1, <1>2, <1>3, NoBill

\* The same, with rows as they are.
LEMMA RowsStay == ASSUME BInv, Off, UNCHANGED <<item, bill, moved>> PROVE BInv'
<1>1. Shapes' /\ ItemsStay /\ BillsStay /\ moved \subseteq moved'
  BY DEF BInv, Shapes, ItemsStay, BillsStay, Live
<1> QED BY <1>1, OffKeeps

LEMMA SetItemsStays ==
  ASSUME BInv, NEW S, NEW st, st # "none", SetItems(S, st), UNCHANGED <<bill, moved>>
  PROVE  /\ Shapes' /\ ItemsStay /\ BillsStay /\ moved \subseteq moved'
         /\ \A i \in Items : item'[i].on = item[i].on
<1>1. /\ DOMAIN item' = Items
      /\ \A i \in Items : item'[i] = IF i \in S THEN [item[i] EXCEPT !.st = st] ELSE item[i]
  BY DEF SetItems
<1>2. \A i \in Items : DOMAIN item[i] = {"on", "st"}
  BY DEF BInv, Shapes
<1>3. \A i \in Items : /\ DOMAIN item'[i] = {"on", "st"} /\ item'[i].on = item[i].on
                       /\ item'[i].st = IF i \in S THEN st ELSE item[i].st
  BY <1>1, <1>2
<1>4. Shapes'
  BY <1>1, <1>3 DEF BInv, Shapes
<1>5. ItemsStay /\ BillsStay
  BY <1>3 DEF ItemsStay, BillsStay, Live
<1> QED BY <1>3, <1>4, <1>5

LEMMA MoveItemsStays ==
  ASSUME BInv, NEW S, NEW o, MoveItems(S, o), UNCHANGED bill
  PROVE  Shapes' /\ ItemsStay /\ BillsStay /\ moved \subseteq moved'
<1>1. /\ DOMAIN item' = Items /\ moved' = moved \cup {i \in S : Spoken(i)}
      /\ \A i \in Items : item'[i] = IF i \in S THEN [item[i] EXCEPT !.on = o] ELSE item[i]
  BY DEF MoveItems
<1>2. \A i \in Items : DOMAIN item[i] = {"on", "st"}
  BY DEF BInv, Shapes
<1>3. \A i \in Items : /\ DOMAIN item'[i] = {"on", "st"} /\ item'[i].st = item[i].st
                       /\ i \notin S => item'[i].on = item[i].on
  BY <1>1, <1>2
<1>4. Shapes'
  BY <1>1, <1>3 DEF BInv, Shapes
<1>5. ItemsStay
  BY <1>1, <1>3 DEF ItemsStay
<1> QED BY <1>1, <1>4, <1>5 DEF BillsStay, Live

\* What requests become.
LEMMA OffIs ==
  ASSUME IInv, NEW h \in Handlers,
         \/ Finish(h) \/ (\E os : Then(h, os)) \/ NextCheck(h)
         \/ WillRestate(h) /\ req[h].pc = "refresh"
         \/ \E o, S, p, pc :
              /\ pc \notin Billing
              /\ \/ Serve(h, Request(pc, o)) \/ Serve(h, [Request(pc, o) EXCEPT !.items = S])
                 \/ Serve(h, [Request(pc, o) EXCEPT !.to = p])
         \/ \E os : Serve(h, [Idle EXCEPT !.pc = "refresh", !.todo = os])
  PROVE  Off
<1>1. ASSUME NEW r, req' = [req EXCEPT ![h] = r], r.pc \notin Billing PROVE Off
  BY <1>1 DEF Off, IInv, Requests
<1>2. ASSUME Finish(h) PROVE Off
  BY <1>1, <1>2 DEF Finish, Idle, Billing
<1>3. ASSUME NEW os, Then(h, os) \/ Serve(h, [Idle EXCEPT !.pc = "refresh", !.todo = os]) PROVE Off
  <2>1. PICK r : r = [Idle EXCEPT !.pc = "refresh", !.todo = os]
    OBVIOUS
  <2>2. r.pc \notin Billing
    BY <2>1 DEF Idle, Billing
  <2> QED BY <1>1, <1>3, <2>1, <2>2 DEF Then, Serve
<1>4. ASSUME NextCheck(h) PROVE Off
  BY <1>2, <1>3, <1>4 DEF NextCheck
<1>5. ASSUME WillRestate(h), req[h].pc = "refresh" PROVE Off
  <2>1. PICK c : req' = [req EXCEPT ![h].pc = "restate", ![h].closed = c]
    BY <1>5 DEF WillRestate
  <2> QED BY <2>1 DEF Off, IInv, Requests, Billing
<1>6. ASSUME NEW o, NEW S, NEW p, NEW pc, pc \notin Billing,
             \/ Serve(h, Request(pc, o)) \/ Serve(h, [Request(pc, o) EXCEPT !.items = S])
             \/ Serve(h, [Request(pc, o) EXCEPT !.to = p])
      PROVE  Off
  <2>1. PICK r : Serve(h, r) /\ Started(r, pc, o)
    BY <1>6, RequestShape
  <2> QED BY <1>1, <1>6, <2>1 DEF Serve, Started
<1> QED BY <1>2, <1>3, <1>4, <1>5, <1>6

LEMMA StaffBills == ASSUME IInv, BInv, NEW h \in Handlers, Staff(h) PROVE BInv'
<1>1. ASSUME NEW S, NEW st, st # "none", SetItems(S, st), UNCHANGED <<bill, moved>>, Off
      PROVE  BInv'
  BY <1>1, SetItemsStays, OffKeeps
<1>2. ASSUME NEW S, NEW o, MoveItems(S, o), UNCHANGED bill, Off PROVE BInv'
  BY <1>2, MoveItemsStays, OffKeeps
<1>3. ASSUME NEW o \in Orders, LoadSend(h, o) PROVE BInv'
  <2>1. Serve(h, Request("send", o)) /\ "send" \notin Billing
    BY <1>3 DEF LoadSend, Billing
  <2>2. Off
    BY <2>1, OffIs
  <2> QED BY <1>3, <2>2, RowsStay DEF LoadSend
<1>4. ASSUME NEW o \in Orders, LoadSplit(h, o) PROVE BInv'
  <2>1. PICK S : Serve(h, [Request("split", o) EXCEPT !.items = S])
    BY <1>4 DEF LoadSplit
  <2>2. "split" \notin Billing
    BY DEF Billing
  <2>3. Off
    BY <2>1, <2>2, OffIs
  <2> QED BY <1>4, <2>3, RowsStay DEF LoadSplit
<1>5. ASSUME NEW o \in Orders, LoadCancel(h, o) PROVE BInv'
  <2>1. PICK pc : Serve(h, Request(pc, o)) /\ pc \notin Billing
    BY <1>5 DEF LoadCancel, Billing
  <2>2. Off
    BY <2>1, OffIs
  <2>3. UNCHANGED <<item, moved>>
    BY <1>5 DEF LoadCancel
  <2>4. \/ bill' = bill
        \/ bill' = [bill EXCEPT ![order[o].bill].st = "CANCELLED"]
    BY <1>5 DEF LoadCancel
  <2>5. Shapes' /\ BillsStay
    BY <2>3, <2>4 DEF BInv, Shapes, BillsStay, Live
  <2>6. ItemsStay
    BY <2>3 DEF ItemsStay
  <2> QED BY <2>2, <2>3, <2>5, <2>6, OffKeeps
<1>6. ASSUME NEW o \in Orders, NEW p \in Orders, LoadMerge(h, o, p) PROVE BInv'
  <2>1. PICK pc : Serve(h, [Request(pc, o) EXCEPT !.to = p]) /\ pc \notin Billing
    BY <1>6 DEF LoadMerge, Billing
  <2>2. Off
    BY <2>1, OffIs
  <2> QED BY <1>6, <2>2, RowsStay DEF LoadMerge
<1>7. ASSUME NEW i \in Items,
             \/ RemoveItem(h, i) \/ VoidItem(h, i) \/ SetKitchenItemStatus(h, i)
             \/ RecallKitchenItem(h, i)
      PROVE  BInv'
  <2>1. Serve(h, [Idle EXCEPT !.pc = "refresh", !.todo = <<item[i].on>>])
    BY <1>7 DEF RemoveItem, VoidItem, SetKitchenItemStatus, RecallKitchenItem
  <2>2. Off
    BY <2>1, OffIs
  <2>3. PICK st : st # "none" /\ SetItems({i}, st)
    BY <1>7 DEF RemoveItem, VoidItem, SetKitchenItemStatus, RecallKitchenItem
  <2>4. UNCHANGED <<bill, moved>>
    BY <1>7 DEF RemoveItem, VoidItem, SetKitchenItemStatus, RecallKitchenItem
  <2> QED BY <1>1, <2>2, <2>3, <2>4
<1>8. CASE MergeOrders(h) \/ SplitOrder(h)
  <2>1. PICK S, o, os : MoveItems(S, o) /\ Then(h, os)
    BY <1>8 DEF MergeOrders, SplitOrder
  <2>2. Off
    BY <2>1, OffIs
  <2> QED BY <1>2, <1>8, <2>1, <2>2 DEF MergeOrders, SplitOrder
<1>9. CASE CancelOrder(h)
  <2>1. Off
    BY <1>9, OffIs DEF CancelOrder
  <2>2. PICK S, st : SetItems(S, st) /\ st # "none"
    BY <1>9 DEF CancelOrder
  <2> QED BY <1>1, <1>9, <2>1, <2>2 DEF CancelOrder
<1>10. CASE SendToKitchen(h)
  <2>1. Off
    BY <1>10, OffIs DEF SendToKitchen
  <2>2. PICK S, st : SetItems(S, st) /\ st # "none"
    BY <1>10 DEF SendToKitchen
  <2> QED BY <1>1, <1>10, <2>1, <2>2 DEF SendToKitchen
<1>11. CASE ReadStatus(h) \/ WriteStatus(h)
  <2>1. Off
    BY <1>11, OffIs DEF ReadStatus, WriteStatus
  <2> QED BY <1>11, <2>1, RowsStay DEF ReadStatus, WriteStatus
<1> QED BY <1>3, <1>4, <1>5, <1>6, <1>7, <1>8, <1>9, <1>10, <1>11 DEF Staff

LEMMA OutsideBills ==
  ASSUME IInv, BInv,
         \/ \E o \in Orders : OpenOrder(o) \/ AddItem(o)
         \/ \E b \in Bills : GuestPays(b) \/ CancelBill(b)
         \/ \E h \in Handlers : Fail(h)
  PROVE  BInv'
<1>1. ASSUME NEW o \in Orders, OpenOrder(o) PROVE BInv'
  <2>1. Off
    BY <1>1 DEF OpenOrder, Off
  <2> QED BY <1>1, <2>1, RowsStay DEF OpenOrder
<1>2. ASSUME NEW o \in Orders, AddItem(o) PROVE BInv'
  <2>1. PICK i \in Items : item[i].st = "none" /\ item' = [item EXCEPT ![i] = [on |-> o, st |-> "PENDING"]]
    BY <1>2 DEF AddItem
  <2>2. Off
    BY <1>2 DEF AddItem, Off
  <2>3. UNCHANGED <<bill, moved>>
    BY <1>2 DEF AddItem
  <2>4. Shapes'
    BY <2>1, <2>3 DEF BInv, Shapes
  <2>5. ItemsStay
    BY <2>1 DEF BInv, Shapes, ItemsStay
  <2>6. BillsStay
    BY <2>3 DEF BillsStay, Live
  <2> QED BY <2>2, <2>3, <2>4, <2>5, <2>6, OffKeeps
<1>3. ASSUME NEW b \in Bills, GuestPays(b) \/ CancelBill(b) PROVE BInv'
  <2>1. PICK st : bill' = [bill EXCEPT ![b].st = st] /\ Live(b)
    BY <1>3 DEF GuestPays, CancelBill, Live
  <2>2. UNCHANGED <<item, moved, req>>
    BY <1>3 DEF GuestPays, CancelBill
  <2>3. Shapes' /\ ItemsStay
    BY <2>1, <2>2 DEF BInv, Shapes, ItemsStay
  <2>4. BillsStay
    BY <2>1 DEF BInv, Shapes, BillsStay, Live
  <2>5. Off
    BY <2>2 DEF Off
  <2> QED BY <2>2, <2>3, <2>4, <2>5, OffKeeps
<1>4. ASSUME NEW h \in Handlers, Fail(h) PROVE BInv'
  <2>1. Off
    BY <1>4, OffIs DEF Fail
  <2> QED BY <1>4, <2>1, RowsStay DEF Fail
<1> QED BY <1>1, <1>2, <1>3, <1>4

\* A till loads a check: it will bill items that are the check's own.
LEMMA BillBills ==
  ASSUME IInv, BInv, NEW h \in Tills, h \in Handlers, NEW o \in Orders,
         NEW pc \in {"sellNow", "sellLink"}, Bill(h, o, pc)
  PROVE  BInv'
<1>1. PICK T, r : T = Billable(o) /\ r = [Request(pc, o) EXCEPT !.items = T]
  OBVIOUS
<1>2. r.pc = pc /\ r.order = o /\ r.items = T
  BY <1>1 DEF Request, Idle
<1>3. req'[h] = r /\ \A g \in Handlers \ {h} : req'[g] = req[g]
  BY <1>1 DEF Bill, Serve, IInv, Requests
<1>4. PICK S, st : st = "DONE" /\ SetItems(S, st) /\ UNCHANGED <<bill, moved>>
  BY DEF Bill
<1>5. /\ Shapes' /\ ItemsStay /\ BillsStay /\ moved \subseteq moved'
      /\ \A i \in Items : item'[i].on = item[i].on
  BY <1>4, SetItemsStays
<1>6. Of(T, o)'
  <2>1. \A i \in T : i \in Items /\ item[i].st # "none" /\ item[i].on = o
    BY <1>1 DEF Billable, Standing, On, Exists
  <2>2. \A i \in T : i \in Items /\ item'[i].st # "none" /\ item'[i].on = o
    BY <1>5, <2>1 DEF ItemsStay
  <2> QED BY <2>2 DEF Of
<1>7. TillOf(h)' /\ req'[h].pc \notin {"chargeNow", "chargeLink"}
  BY <1>2, <1>3, <1>6 DEF TillOf, Billing, Of
<1>8. \A g \in Handlers :
        /\ TillOf(g)'
        /\ req'[g].pc \in {"chargeNow", "chargeLink"} => SaleOf(req'[g].order) = {}
  BY <1>3, <1>5, <1>7, TillStays DEF ItemsStay
<1> QED BY <1>5, <1>8, NoBill DEF ItemsStay, BillsStay

\* A till looks for the sale of its check.
LEMMA LookUpBills == ASSUME IInv, BInv, NEW h \in Handlers, LookUpSale(h) PROVE BInv'
<1>1. UNCHANGED <<item, bill, moved>> /\ req[h].pc \in {"sellNow", "sellLink"}
  BY DEF LookUpSale
<1>2. CASE SaleOf(req[h].order) = {} /\ NoSaleYet(h)
  <2>1. PICK pc \in {"chargeNow", "chargeLink"} : req' = [req EXCEPT ![h].pc = pc]
    BY <1>2 DEF NoSaleYet
  <2>2. /\ req'[h].pc = pc /\ req'[h].order = req[h].order /\ req'[h].items = req[h].items
        /\ \A g \in Handlers \ {h} : req'[g] = req[g]
    BY <2>1 DEF IInv, Requests
  <2>3. TillOf(h) /\ req[h].pc \in Billing
    BY <1>1 DEF BInv, Billing
  <2>4. TillOf(h)'
    BY <1>1, <2>2, <2>3 DEF TillOf, Of
  <2>5. Shapes' /\ ItemsStay /\ BillsStay /\ moved \subseteq moved'
    BY <1>1 DEF BInv, Shapes, ItemsStay, BillsStay, Live
  <2>6. \A g \in Handlers :
          /\ TillOf(g)'
          /\ req'[g].pc \in {"chargeNow", "chargeLink"} => SaleOf(req'[g].order) = {}
    BY <1>2, <2>2, <2>4, <2>5, TillStays DEF ItemsStay
  <2> QED BY <2>5, <2>6, NoBill DEF ItemsStay, BillsStay
<1>3. ASSUME NEW b, WithBill(h, b) PROVE BInv'
  <2>1. Off
    BY <1>3 DEF WithBill, Off, Billing, IInv, Requests
  <2> QED BY <1>1, <2>1, RowsStay
<1> QED BY <1>2, <1>3 DEF LookUpSale

\* The only till makes the only bill of its check.
LEMMA NewBillBills ==
  ASSUME OneTill, IInv, BInv, NEW h \in Handlers, req[h].pc \in {"chargeNow", "chargeLink"},
         NEW b \in Bills, NEW st, NewBill(h, b, st), req'[h].pc \notin Billing,
         \A g \in Handlers \ {h} : req'[g] = req[g]
  PROVE  BInv'
<1>1. PICK S, o : S = req[h].items /\ o = req[h].order
  OBVIOUS
<1>2. h \in Tills /\ o \in Orders /\ Of(S, o) /\ SaleOf(o) = {}
  BY <1>1 DEF BInv, TillOf, Looked, Billing
<1>3. /\ bill' = [bill EXCEPT ![b] = [st |-> st, of |-> o, lines |-> S]]
      /\ UNCHANGED <<item, moved>>
  BY <1>1 DEF NewBill
<1>4. /\ bill'[b] = [st |-> st, of |-> o, lines |-> S]
      /\ \A c \in Bills \ {b} : bill'[c] = bill[c]
      /\ Shapes'
  BY <1>3 DEF BInv, Shapes
<1>5. OneSale'
  BY <1>2, <1>4 DEF BInv, OneSale, SaleOf
<1>6. ASSUME NEW c \in Bills PROVE BillOf(c)'
  <2>1. CASE c = b
    <3>1. bill'[c].of = o /\ bill'[c].lines = S /\ o # None
      BY <1>2, <1>4, <2>1, CheckConstants
    <3>2. \A i \in S : i \in Items /\ item[i].st # "none" /\ (i \in moved \/ item[i].on = o)
      BY <1>2 DEF Of
    <3> QED BY <1>3, <3>1, <3>2 DEF BillOf, Of
  <2>2. CASE c # b
    <3>1. bill'[c] = bill[c] /\ BillOf(c)
      BY <1>4, <2>2 DEF BInv
    <3> QED BY <1>3, <3>1 DEF BillOf, Of, Live
  <2> QED BY <2>1, <2>2
<1>7. ASSUME NEW g \in Handlers PROVE TillOf(g)' /\ Looked(g)'
  <2>1. CASE g = h
    BY <2>1 DEF TillOf, Looked, Billing
  <2>2. CASE g # h
    <3>1. req'[g] = req[g] /\ TillOf(g)
      BY <2>2 DEF BInv
    <3>2. req[g].pc \notin Billing
      BY <1>2, <2>2, <3>1 DEF OneTill, TillOf
    <3> QED BY <3>1, <3>2 DEF TillOf, Looked, Billing
  <2> QED BY <2>1, <2>2
<1> QED BY <1>4, <1>5, <1>6, <1>7 DEF BInv

LEMMA TillBills == ASSUME OneTill, IInv, BInv, NEW h \in Tills, Till(h) PROVE BInv'
<1>1. h \in Handlers
  BY CheckConstants
<1>2. ASSUME NEW o \in Orders, CloseOrder(h, o) \/ SoftClose(h, o) \/ CreatePayLink(h, o)
      PROVE  BInv'
  <2>1. CASE \E pc \in {"sellNow", "sellLink"} : Bill(h, o, pc)
    BY <1>1, <2>1, BillBills
  <2>2. CASE Serve(h, Request("shut", o)) /\ UNCHANGED <<order, item, bill, moved>>
    <3>1. "shut" \notin Billing
      BY DEF Billing
    <3>2. Off
      BY <1>1, <2>2, <3>1, OffIs
    <3> QED BY <2>2, <3>2, RowsStay
  <2> QED BY <1>2, <2>1, <2>2 DEF CloseOrder, SoftClose, CreatePayLink
<1>3. ASSUME NEW b \in Bills, CreateSale(h, b) PROVE BInv'
  <2>1. req[h].pc \in {"chargeNow", "chargeLink"} /\ WithBill(h, b)
    BY <1>3 DEF CreateSale
  <2>2. PICK st : NewBill(h, b, st)
    BY <1>3 DEF CreateSale
  <2>3. /\ req'[h].pc \in {"finish", "link"}
        /\ \A g \in Handlers \ {h} : req'[g] = req[g]
    BY <1>1, <2>1 DEF WithBill, IInv, Requests
  <2> QED BY <1>1, <2>1, <2>2, <2>3, NewBillBills DEF Billing
<1>4. ASSUME NEW b \in Bills, SaleBreaks(h, b) PROVE BInv'
  <2>1. /\ req[h].pc = "chargeNow" /\ NewBill(h, b, "UNPAID")
        /\ req'[h] = Idle /\ \A g \in Handlers \ {h} : req'[g] = req[g]
    BY <1>1, <1>4 DEF SaleBreaks, Finish, IInv, Requests
  <2>2. req'[h].pc \notin Billing
    BY <2>1 DEF Idle, Billing
  <2> QED BY <1>1, <2>1, <2>2, NewBillBills
<1>5. CASE FinishClose(h) \/ StorePayLink(h) \/ FinalizeOrder(h)
  <2>1. Off
    BY <1>1, <1>5, OffIs DEF FinishClose, StorePayLink, FinalizeOrder
  <2> QED BY <1>5, <2>1, RowsStay DEF FinishClose, StorePayLink, FinalizeOrder
<1> QED BY <1>1, <1>2, <1>3, <1>4, <1>5, LookUpBills DEF Till

LEMMA InitBInv == Init => BInv
<1> SUFFICES ASSUME Init PROVE BInv
  OBVIOUS
<1>1. Shapes
  BY DEF Init, Shapes
<1>2. (\A b \in Bills : bill[b].of = None /\ bill[b].st = "none") /\ \A h \in Handlers : req[h].pc = "idle"
  BY DEF Init, Idle
<1> QED BY <1>1, <1>2 DEF BInv, OneSale, BillOf, Live, TillOf, Looked, Billing

LEMMA NextBills == OneTill /\ IInv /\ BInv /\ [Next]_vars => BInv'
<1> SUFFICES ASSUME OneTill, IInv, BInv, [Next]_vars PROVE BInv'
  OBVIOUS
<1>1. CASE UNCHANGED vars
  <2>1. Off /\ UNCHANGED <<item, bill, moved>>
    BY <1>1 DEF vars, Off
  <2> QED BY <2>1, RowsStay
<1> QED BY <1>1, TillBills, StaffBills, OutsideBills DEF Next

\* For any checks, items, bills and staff, and one till at a time: two live bills
\* share an item only if it was moved off a check already billed.
THEOREM NoDishTwice == ASSUME OneTill PROVE Spec => []BilledOnce
<1>1. BInv => BilledOnce
  <2> SUFFICES ASSUME BInv, NEW b \in Bills, NEW c \in Bills, b # c, Live(b), Live(c),
                      NEW i \in bill[b].lines \cap bill[c].lines
               PROVE  i \in moved
    BY DEF BilledOnce
  <2>1. bill[b].of # None /\ bill[b].of # bill[c].of
    BY DEF BInv, BillOf, OneSale
  <2> QED BY <2>1 DEF BInv, BillOf, Of
<1>2. IInv /\ BInv /\ [Next]_vars => IInv' /\ BInv'
  BY NextBills, NextKeeps
<1> QED BY <1>1, <1>2, InitIInv, InitBInv, PTL DEF Spec
=============================================================================
