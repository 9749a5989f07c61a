----------------------------- MODULE CashDrawer -----------------------------
(***************************************************************************)
(* The cash drawer of a POS counter (pos.service.ts): shifts and their     *)
(* Z report, the cash sales, voids and refunds it counts, drawer movements *)
(* with their journals (gl-posting.service.ts), and the cash held for a    *)
(* parked cart.                                                            *)
(*                                                                         *)
(* Every amount is 1 and paid in cash, and one warehouse has one drawer.   *)
(* The company requires an open shift for a sale. What the cashier enters  *)
(* is true: the float is the cash in the drawer when a shift is opened,    *)
(* the closing cash what is in it when the shift is closed; cash is        *)
(* counted from the float on. A handler looks for the open shift first and *)
(* writes afterwards, so Load.. actions read and the step named by pc      *)
(* writes. Invoices are reduced to what the report reads; approvals, tips, *)
(* other means of payment are left out.                                    *)
(***************************************************************************)
EXTENDS PosTerms, Integers, FiniteSets

CONSTANTS
  Shifts, Moves, Drafts,  \* rows that may come to exist
  MaxMade, MaxFailures    \* bounds: sales and movements, requests that end with an error

ASSUME DrawerConstants ==
  None \notin Shifts \cup Moves \cup Drafts /\ {MaxMade, MaxFailures} \subseteq Nat

VARIABLES
  shift,     \* pos_shifts: status, and the cash that came into the drawer since it was
             \* opened; of a closed shift the variance of its Z report
  cashSale,  \* cash sales: status, posShiftId, until that is set the shifts it was made in
  note,      \* the credit note of a refunded sale: status, posShiftId, when it was made
  move,      \* pos_cash_movements, with what their journals left on the cash account
  draft,     \* parked carts with cash held for them, and how often it was paid out
  odd,       \* shifts in whose time cash moved for something of another shift
  torn,      \* movements and drafts a request stopped with, or that two handled
  failures,  \* requests that ended with an error
  task       \* what each handler is doing, with what it has read

rows == <<shift, cashSale, note, move, draft>>
drawerVars == <<rows, odd, torn, failures, task>>

NoShift == [st |-> "none", cash |-> 0]
NoDoc == [st |-> "none", shift |-> None, when |-> {}]
NoMove == [st |-> "none", sign |-> 1, shift |-> None, journal |-> FALSE,
           booked |-> 0, reversed |-> FALSE]
NoDraft == [st |-> "none", outs |-> 0]
NoTask == [pc |-> "idle", shift |-> None, doc |-> None, amount |-> 0,
           draft |-> None, then |-> "none"]

DrawerInit ==
  /\ shift = [k \in Shifts |-> NoShift]
  /\ cashSale = [s \in Sales |-> NoDoc] /\ note = [s \in Sales |-> NoDoc]
  /\ move = [m \in Moves |-> NoMove]
  /\ draft = [d \in Drafts |-> NoDraft]
  /\ odd = {} /\ torn = {} /\ failures = 0
  /\ task = [h \in Handlers |-> NoTask]

OpenShifts == {k \in Shifts : shift[k].st = "OPEN"}
BeingOpened == {task[h].shift : h \in {g \in Handlers : task[g].pc = "open"}}
Begin(h, r) == task[h].pc = "idle" /\ task' = [task EXCEPT ![h] = r]
GoOn(h, pc) == task' = [task EXCEPT ![h].pc = pc]
Done(h) == task' = [task EXCEPT ![h] = NoTask]
Moved(x) == \E h \in Handlers : task[h].doc = x \/ task[h].draft = x

MayMake ==
  Cardinality({s \in Sales : cashSale[s].st # "none"}
                \cup {m \in Moves : move[m].st # "none"}) < MaxMade

\* Cash moves for something the report of the shifts in own will count.
Pay(amount, own) ==
  /\ shift' = [k \in Shifts |-> IF k \in OpenShifts THEN [shift[k] EXCEPT !.cash = @ + amount]
                               ELSE shift[k]]
  /\ odd' = odd \cup ((OpenShifts \cup BeingOpened) \ own)

(***************************************************************************)
(* Shifts. Nothing but the look before keeps a drawer at one open shift.   *)
(***************************************************************************)
LoadOpen(h, k) ==
  /\ OpenShifts = {} /\ shift[k].st = "none" /\ k \notin BeingOpened
  /\ Begin(h, [NoTask EXCEPT !.pc = "open", !.shift = k])
  /\ UNCHANGED <<rows, odd, torn, failures>>

OpenShift(h) ==
  /\ task[h].pc = "open"
  /\ shift' = [shift EXCEPT ![task[h].shift].st = "OPEN"]
  /\ Done(h)
  /\ UNCHANGED <<cashSale, note, move, draft, odd, torn, failures>>

\* buildZReport: documents of the shift, and those without one made in its time.
InTime(doc, k) == doc.shift = None /\ k \in doc.when

\* Faulty: counts voided sales.
AllSalesOf(k) ==
  {s \in Sales : cashSale[s].st # "none" /\ (cashSale[s].shift = k \/ InTime(cashSale[s], k))}

SalesOf(k) ==
  {s \in Sales : cashSale[s].st = "PAID" /\ (cashSale[s].shift = k \/ InTime(cashSale[s], k))}
NotesOf(k) == {s \in Sales : note[s].st = "PAID" /\ (note[s].shift = k \/ k \in note[s].when)}

\* The list of sales takes every invoice that carries the shift, credit notes too.
CashSales(k) == Cardinality(SalesOf(k)) + Cardinality({s \in NotesOf(k) : note[s].shift = k})
MovesOf(k, sign) == {m \in Moves : move[m].st = "live" /\ move[m].shift = k /\ move[m].sign = sign}
ExpectedCash(k) ==
  CashSales(k) - Cardinality(NotesOf(k))
    + Cardinality(MovesOf(k, 1)) - Cardinality(MovesOf(k, -1))

LoadClose(h, k) ==
  /\ k \in OpenShifts
  /\ Begin(h, [NoTask EXCEPT !.pc = "close", !.shift = k,
                             !.amount = shift[k].cash - ExpectedCash(k)])
  /\ UNCHANGED <<rows, odd, torn, failures>>

CloseShift(h) ==
  /\ task[h].pc = "close"
  /\ shift' = [shift EXCEPT ![task[h].shift] = [st |-> "CLOSED", cash |-> task[h].amount]]
  /\ Done(h)
  /\ UNCHANGED <<cashSale, note, move, draft, odd, torn, failures>>

(***************************************************************************)
(* Sales, voids and refunds. The shift is written on the invoice after it  *)
(* was created; a failure of that is ignored.                              *)
(***************************************************************************)
LoadCashSale(h, k) ==
  /\ k \in OpenShifts
  /\ Begin(h, [NoTask EXCEPT !.pc = "sell", !.shift = k])
  /\ UNCHANGED <<rows, odd, torn, failures>>

CreateSale(h) ==
  /\ task[h].pc = "sell" /\ MayMake
  /\ \E s \in Sales :
       /\ cashSale[s].st = "none"
       /\ cashSale' = [cashSale EXCEPT ![s] = [st |-> "PAID", shift |-> None, when |-> OpenShifts]]
       /\ task' = [task EXCEPT ![h].pc = "attach", ![h].doc = s]
  /\ Pay(1, {task[h].shift})
  /\ UNCHANGED <<note, move, draft, torn, failures>>

AttachSale(h) ==
  /\ task[h].pc = "attach"
  /\ cashSale' = [cashSale EXCEPT ![task[h].doc].shift = task[h].shift, ![task[h].doc].when = {}]
  /\ Done(h)
  /\ UNCHANGED <<shift, note, move, draft, odd, torn, failures>>

VoidSale(s) ==
  /\ cashSale[s].st = "PAID"
  /\ cashSale' = [cashSale EXCEPT ![s].st = "CANCELLED"]
  /\ Pay(-1, IF cashSale[s].shift = None THEN cashSale[s].when ELSE {cashSale[s].shift})
  /\ UNCHANGED <<note, move, draft, torn, failures, task>>

RefundCashSale(h, s) ==
  /\ cashSale[s].st = "PAID" /\ note[s].st = "none"
  /\ note' = [note EXCEPT ![s] = [st |-> "PAID", shift |-> None, when |-> OpenShifts]]
  /\ Pay(-1, OpenShifts)
  /\ Begin(h, [NoTask EXCEPT !.pc = "noted", !.doc = s])
  /\ UNCHANGED <<cashSale, move, draft, torn, failures>>

AttachNote(h) ==
  LET s == task[h].doc IN
  /\ task[h].pc = "noted"
  /\ \E k \in IF OpenShifts = {} THEN {cashSale[s].shift} ELSE OpenShifts :
       note' = [note EXCEPT ![s].shift = k]
  /\ Done(h)
  /\ UNCHANGED <<shift, cashSale, move, draft, odd, torn, failures>>

(***************************************************************************)
(* Drawer movements and their journals; a parked cart's hold is paid in    *)
(* before the cart is parked and paid out before it is deleted.            *)
(***************************************************************************)
LoadMove(h, k) ==
  /\ k \in OpenShifts
  /\ \E sign \in {1, -1} :
       Begin(h, [NoTask EXCEPT !.pc = "move", !.shift = k, !.amount = sign])
  /\ UNCHANGED <<rows, odd, torn, failures>>

CreateMove(h) ==
  /\ task[h].pc = "move" /\ MayMake
  /\ \E m \in Moves :
       /\ move[m].st = "none"
       /\ move' = [move EXCEPT ![m] =
            [NoMove EXCEPT !.st = "live", !.sign = task[h].amount, !.shift = task[h].shift]]
       /\ task' = [task EXCEPT ![h].pc = "book", ![h].doc = m]
  /\ draft' = IF task[h].then # "drop" THEN draft
              ELSE [draft EXCEPT ![task[h].draft].outs = @ + 1]
  /\ Pay(task[h].amount, {task[h].shift})
  /\ UNCHANGED <<cashSale, note, torn, failures>>

BookMove(h) ==
  /\ task[h].pc = "book"
  /\ move' = [move EXCEPT ![task[h].doc].booked = @ + task[h].amount]
  /\ GoOn(h, "store")
  /\ UNCHANGED <<shift, cashSale, note, draft, odd, torn, failures>>

StoreJournal(h) ==
  /\ task[h].pc = "store" /\ move[task[h].doc].st = "live"
  /\ move' = [move EXCEPT ![task[h].doc].journal = TRUE]
  /\ IF task[h].then = "none" THEN Done(h) ELSE GoOn(h, task[h].then)
  /\ UNCHANGED <<shift, cashSale, note, draft, odd, torn, failures>>

\* Refused once the shift is closed. torn: two requests have the movement.
LoadReverse(h, m) ==
  /\ move[m].st = "live" /\ shift[move[m].shift].st # "CLOSED"
  /\ Begin(h, [NoTask EXCEPT !.pc = IF move[m].journal THEN "look" ELSE "delete", !.doc = m])
  /\ torn' = IF Moved(m) THEN torn \cup {m} ELSE torn
  /\ UNCHANGED <<rows, odd, failures>>

\* reversePosCashMovement: an entry with the reference REV-POS-CASH is reused.
LookForReversal(h) ==
  /\ task[h].pc = "look"
  /\ IF move[task[h].doc].reversed
     THEN GoOn(h, "delete") /\ move' = [move EXCEPT ![task[h].doc].journal = FALSE]
     ELSE GoOn(h, "unbook") /\ UNCHANGED move
  /\ UNCHANGED <<shift, cashSale, note, draft, odd, torn, failures>>

\* Faulty: the entry is not reversed.
OnlyUnlink(h) ==
  /\ task[h].pc = "unbook"
  /\ move' = [move EXCEPT ![task[h].doc].reversed = TRUE, ![task[h].doc].journal = FALSE]
  /\ GoOn(h, "delete")
  /\ UNCHANGED <<shift, cashSale, note, draft, odd, torn, failures>>

Unbook(h) ==
  LET m == task[h].doc IN
  /\ task[h].pc = "unbook"
  /\ move' = [move EXCEPT ![m].booked = @ - move[m].sign, ![m].reversed = TRUE,
                          ![m].journal = FALSE]
  /\ GoOn(h, "delete")
  /\ UNCHANGED <<shift, cashSale, note, draft, odd, torn, failures>>

DeleteMove(h) ==
  LET m == task[h].doc IN
  /\ task[h].pc = "delete" /\ move[m].st = "live"
  /\ move' = [move EXCEPT ![m].st = "gone", ![m].journal = FALSE]
  /\ Pay(-move[m].sign, {move[m].shift})
  /\ Done(h)
  /\ UNCHANGED <<cashSale, note, draft, torn, failures>>

LoadPark(h, k, d) ==
  /\ k \in OpenShifts /\ draft[d].st = "none" /\ ~Moved(d)
  /\ Begin(h, [NoTask EXCEPT !.pc = "move", !.shift = k, !.amount = 1,
                             !.draft = d, !.then = "park"])
  /\ UNCHANGED <<rows, odd, torn, failures>>

ParkCart(h) ==
  /\ task[h].pc = "park"
  /\ draft' = [draft EXCEPT ![task[h].draft].st = "held"]
  /\ Done(h)
  /\ UNCHANGED <<shift, cashSale, note, move, odd, torn, failures>>

\* deleteDraft, and the sale of a parked cart.
LoadRelease(h, k, d) ==
  /\ k \in OpenShifts /\ draft[d].st = "held"
  /\ Begin(h, [NoTask EXCEPT !.pc = "move", !.shift = k, !.amount = -1,
                             !.draft = d, !.then = "drop"])
  /\ torn' = IF Moved(d) THEN torn \cup {d} ELSE torn
  /\ UNCHANGED <<rows, odd, failures>>

\* The sale of a parked cart deletes it even when no shift is open any more.
SellUnshifted(h, d) ==
  /\ OpenShifts = {} /\ draft[d].st = "held"
  /\ Begin(h, [NoTask EXCEPT !.pc = "drop", !.draft = d])
  /\ torn' = torn \cup {d}
  /\ UNCHANGED <<rows, odd, failures>>

DropCart(h) ==
  /\ task[h].pc = "drop" /\ draft[task[h].draft].st = "held"
  /\ draft' = [draft EXCEPT ![task[h].draft].st = "gone"]
  /\ Done(h)
  /\ UNCHANGED <<shift, cashSale, note, move, odd, torn, failures>>

\* A request ends with an error, or the API stops: nothing written is undone.
\* (One that wrote nothing might as well not have come.)
FailTask(h) ==
  /\ failures < MaxFailures /\ {task[h].doc, task[h].draft} # {None}
  /\ failures' = failures + 1 /\ Done(h)
  /\ torn' = torn \cup ({task[h].doc, task[h].draft} \cap (Moves \cup Drafts))
  /\ UNCHANGED <<rows, odd>>

Counter(h) ==
  \/ \E k \in Shifts : LoadOpen(h, k) \/ LoadClose(h, k) \/ LoadCashSale(h, k)
  \/ \E s \in Sales : RefundCashSale(h, s)
  \/ OpenShift(h) \/ CloseShift(h) \/ CreateSale(h) \/ AttachSale(h) \/ AttachNote(h)

Drawer(h) ==
  \/ \E k \in Shifts : \/ LoadMove(h, k)
                       \/ \E d \in Drafts : LoadPark(h, k, d) \/ LoadRelease(h, k, d)
  \/ \E d \in Drafts : SellUnshifted(h, d)
  \/ \E m \in Moves : LoadReverse(h, m)
  \/ CreateMove(h) \/ BookMove(h) \/ StoreJournal(h)
  \/ LookForReversal(h) \/ Unbook(h) \/ DeleteMove(h)
  \/ ParkCart(h) \/ DropCart(h)

DrawerNext ==
  \/ \E h \in Handlers : Counter(h) \/ Drawer(h) \/ FailTask(h)
  \/ \E s \in Sales : VoidSale(s)

DrawerSpec == DrawerInit /\ [][DrawerNext]_drawerVars
-----------------------------------------------------------------------------
(***************************************************************************)
(* Properties.                                                             *)
(***************************************************************************)
\* The expected cash of a closed shift is what was in the drawer: sales whose
\* shift was not written, voids, movements and reversals that overlapped the
\* close included, as long as no cash moved in its time for another shift.
Counted(k) == shift[k].st = "CLOSED" => shift[k].cash = 0
ZFindsTheCash ==
  \A k \in Shifts \ odd : (\A s \in Sales : note[s].st = "none") => Counted(k)

\* "Z expected cash: opening + cash sales - cash refunds + cash in - cash out":
\* refunds make no difference between the report and the drawer.
ZFindsTheRefunds == \A k \in Shifts \ odd : Counted(k)

\* The journals of a drawer movement left its amount on the cash account while
\* it is there and nothing once it is reversed; and the cash held for a parked
\* cart is paid out once. Only a request that stopped, two of the same movement
\* or cart, or a cart sold when no shift is open, make it otherwise.
BooksFollowDrawer ==
  /\ \A m \in Moves \ torn : (~Moved(m) \/ move[m].st = "gone") =>
       move[m].booked = IF move[m].st = "live" THEN move[m].sign ELSE 0
  /\ \A d \in Drafts \ torn : draft[d].outs <= 1 /\ (draft[d].st = "gone" => draft[d].outs = 1)
=============================================================================
