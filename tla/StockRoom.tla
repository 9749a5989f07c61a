----------------------------- MODULE StockRoom -----------------------------
(***************************************************************************)
(* The stock of one tracked product: adjustments and transfers             *)
(* (products.service.ts), delivery notes, stock counts, and the            *)
(* reservations of sales (pos.service.ts). Each is a request that reads a  *)
(* document outside any transaction, then runs one transaction on the      *)
(* warehouse rows, the product row, the movement rows and the document.    *)
(*                                                                         *)
(* The transaction has two steps. WriteLevels updates the warehouse rows,  *)
(* which PostgreSQL then keeps locked, and sums all rows as they are       *)
(* committed; a Commit action shows the new levels, books the movements    *)
(* and stores the total. A movement row is kept as what it adds to         *)
(* booked[w]. What any request read before its transaction stays in req.   *)
(* Documents have one line; quantities are whole units. The approval and   *)
(* the open period that some handlers ask for first only refuse requests.  *)
(***************************************************************************)
EXTENDS Integers, Sequences, FiniteSets, Functions

CONSTANTS
  Warehouses,
  Notes, Counts, Sales,  \* delivery notes, stock counts, lines of POS sales
  Handlers,              \* requests the API can be serving at once
  Wh,                    \* [documents -> Warehouses]
  Qty,                   \* [Notes \cup Sales -> Nat \ {0}]
  Opening,               \* [Warehouses -> Nat]
  Amounts,               \* quantities a user adjusts, transfers or counts
  Overrides,             \* may a sale be approved to oversell?
  None,                  \* no document
  MaxAdjusts, MaxTransfers

ASSUME StockConstants ==
  /\ Wh \in [Notes \cup Counts \cup Sales -> Warehouses]
  /\ Qty \in [Notes \cup Sales -> Nat \ {0}]
  /\ Opening \in [Warehouses -> Nat]
  /\ Amounts \subseteq Nat \ {0}
  /\ Overrides \subseteq BOOLEAN
  /\ None \notin Notes \cup Counts \cup Sales
  /\ MaxAdjusts \in Nat /\ MaxTransfers \in Nat

ASSUME FinitelyManyWarehouses == IsFiniteSet(Warehouses)

VARIABLES
  level,      \* warehouse_stocks.quantity
  total,      \* products.quantity, the sum a sale and the reports read
  booked,     \* the movement rows of a warehouse, added up with their sign
  note,       \* status of the delivery notes
  noteOut,    \* units out on the movement rows with the note's number
  count,      \* rows of stock_counts
  sale,       \* state of each sale's reservation
  adjusts,    \* adjustments in the order of their movement rows
  transfers,  \* transfers in the order of their movement rows
  req,        \* what each handler is doing, with what it has read
  agg         \* the sum over the warehouse rows its transaction took

vars == <<level, total, booked, note, noteOut, count, sale, adjusts,
          transfers, req, agg>>

CountStatus == {"absent", "DRAFT", "COMPLETED", "CANCELLED", "removed"}
Ops == {"none", "adjust", "undoAdjust", "transfer", "undoTransfer",
        "deliver", "undeliver", "cancelNote", "removeNote", "reserve",
        "release", "recount", "complete", "uncomplete", "cancelCount",
        "removeCount"}

Moves == [Warehouses -> Int]
CountRow == [status : CountStatus, system : Int, counted : Int,
             completedAt : BOOLEAN, revRows : Nat]
AdjustRow == [moves : Moves, abs : BOOLEAN, was : Int, listed : BOOLEAN, undone : Nat]
TransferRow == [moves : Moves, undone : Nat]

Still == [w \in Warehouses |-> 0]
By(w, d) == [Still EXCEPT ![w] = d]
Negated(m) == [w \in Warehouses |-> -m[w]]
SumOf(f) == FoldFunction(LAMBDA x, y : x + y, 0, f)

\* moves: what the transaction adds to each warehouse row, zero where it
\* touches none. An absolute request writes "to", whatever the row holds, and
\* its moves are the difference to the quantity it had read.
Idle == [pc |-> "idle", op |-> "none", doc |-> None, row |-> 0, listed |-> FALSE,
         moves |-> Still, abs |-> FALSE, was |-> 0, to |-> 0, guarded |-> FALSE]

Init ==
  /\ level = Opening /\ total = SumOf(Opening) /\ booked = Still
  /\ note = [n \in Notes |-> "absent"] /\ noteOut = [n \in Notes |-> 0]
  /\ count = [c \in Counts |-> [status |-> "absent", system |-> 0, counted |-> 0,
                                completedAt |-> FALSE, revRows |-> 0]]
  /\ sale = [s \in Sales |-> "absent"]
  /\ adjusts = << >> /\ transfers = << >>
  /\ req = [h \in Handlers |-> Idle] /\ agg = [h \in Handlers |-> 0]

documents == <<note, noteOut, count, sale, adjusts, transfers>>

\* A request that passed its checks, about to open its transaction.
Serve(h, r) == req[h].pc = "idle" /\ req' = [req EXCEPT ![h] = r]
Adding(op, doc, moves, guarded) ==
  [pc |-> "ready", op |-> op, doc |-> doc, row |-> 0, listed |-> FALSE,
   moves |-> moves, abs |-> FALSE, was |-> 0, to |-> 0, guarded |-> guarded]
Setting(op, doc, w, was, to) ==
  [pc |-> "ready", op |-> op, doc |-> doc, row |-> 0, listed |-> FALSE,
   moves |-> By(w, to - was), abs |-> TRUE, was |-> was, to |-> to, guarded |-> FALSE]
Finish(h) == req' = [req EXCEPT ![h] = Idle] /\ agg' = [agg EXCEPT ![h] = 0]
Checked == UNCHANGED <<level, total, booked, agg, documents>>

(***************************************************************************)
(* The checks of each request.                                             *)
(***************************************************************************)
\* reverseLastAdjust finds an adjustment by its automatic reference or its
\* automatic note; a SET always has the note ("listed").
AdjustStock(h) ==
  /\ Len(adjusts) < MaxAdjusts
  /\ \E w \in Warehouses :
       \/ \E q \in Amounts, listed \in BOOLEAN :
            \E r \in {Adding("adjust", None, By(w, q), FALSE),
                     Adding("adjust", None, By(w, -q), TRUE)} :
              Serve(h, [r EXCEPT !.listed = listed])
       \/ \E q \in Amounts \cup {0} :
            /\ q # level[w]
            /\ Serve(h, [Setting("adjust", None, w, level[w], q) EXCEPT !.listed = TRUE])
  /\ Checked

\* Faulty: does not look for the movement of an earlier reversal.
UndoAdjustAgain(h) ==
  /\ adjusts # << >>
  /\ LET a == adjusts[Len(adjusts)] IN
       Serve(h, [Adding("undoAdjust", None, Negated(a.moves), FALSE)
                   EXCEPT !.row = Len(adjusts)])
  /\ Checked

ReverseLastAdjust(h) ==
  /\ \E k \in DOMAIN adjusts :
       LET a == adjusts[k] IN
       /\ a.listed /\ \A j \in DOMAIN adjusts : adjusts[j].listed => j <= k
       /\ a.undone = 0                      \* no movement REV-ADJ:<reference>
       /\ Serve(h, [Adding("undoAdjust", None, Negated(a.moves),
                           ~a.abs /\ \E w \in Warehouses : a.moves[w] > 0)
                      EXCEPT !.row = k, !.abs = a.abs, !.to = IF a.abs THEN a.was ELSE 0])
  /\ Checked

TransferStock(h) ==
  /\ Len(transfers) < MaxTransfers
  /\ \E from \in Warehouses, q \in Amounts : \E to \in Warehouses \ {from} :
       Serve(h, Adding("transfer", None, [By(from, -q) EXCEPT ![to] = q], TRUE))
  /\ Checked

ReverseLastTransfer(h) ==
  /\ transfers # << >>
  /\ LET k == Len(transfers) IN
       /\ transfers[k].undone = 0           \* no movement REV-XFER:<reference>
       /\ Serve(h, [Adding("undoTransfer", None, Negated(transfers[k].moves), TRUE)
                      EXCEPT !.row = k])
  /\ Checked

Deliver(h, n) ==
  /\ note[n] = "DRAFT"
  /\ Serve(h, Adding("deliver", n, By(Wh[n], -Qty[n]), TRUE))
  /\ Checked

\* Faulty: a delivered note is cancelled like a draft.
CancelWithoutReturn(h, n) ==
  /\ note[n] \in {"DRAFT", "DELIVERED"}
  /\ Serve(h, Adding("cancelNote", n, Still, FALSE))
  /\ Checked

CancelNote(h, n) ==
  /\ \/ /\ note[n] = "DELIVERED"
        /\ Serve(h, Adding("undeliver", n, By(Wh[n], Qty[n]), FALSE))
     \/ note[n] = "DRAFT" /\ Serve(h, Adding("cancelNote", n, Still, FALSE))
  /\ Checked

RemoveNote(h, n) ==
  note[n] = "DRAFT" /\ Serve(h, Adding("removeNote", n, Still, FALSE)) /\ Checked

UpdateLines(h, c) ==
  /\ count[c].status = "DRAFT"
  /\ \E q \in Amounts \cup {0} :
       Serve(h, [Adding("recount", c, Still, FALSE) EXCEPT !.to = q])
  /\ Checked

Complete(h, c) ==
  /\ count[c].status = "DRAFT"
  /\ Serve(h, Setting("complete", c, Wh[c], count[c].system, count[c].counted))
  /\ Checked

\* Faulty: a completed count can be cancelled without reversing it.
CancelAnyCount(h, c) ==
  /\ count[c].status \in {"DRAFT", "CANCELLED", "COMPLETED"}
  /\ Serve(h, Adding("cancelCount", c, Still, FALSE))
  /\ Checked

CancelCount(h, c) ==
  /\ count[c].status \in {"DRAFT", "CANCELLED"}
  /\ Serve(h, Adding("cancelCount", c, Still, FALSE))
  /\ Checked

ReverseCompleted(h, c) ==
  /\ count[c].status = "COMPLETED" /\ count[c].revRows = 0
  /\ Serve(h, Setting("uncomplete", c, Wh[c], count[c].counted, count[c].system))
  /\ Checked

RemoveCount(h, c) ==
  /\ count[c].status \in {"DRAFT", "CANCELLED"} /\ ~count[c].completedAt
  /\ Serve(h, Adding("removeCount", c, Still, FALSE))
  /\ Checked

ReserveStockOut(h, s) ==
  /\ sale[s] = "absent" /\ sale' = [sale EXCEPT ![s] = "busy"]
  /\ \E override \in Overrides :
       Serve(h, Adding("reserve", s, By(Wh[s], -Qty[s]), ~override))
  /\ UNCHANGED <<level, total, booked, agg, note, noteOut, count, adjusts,
                 transfers>>

ReleaseStockIn(h, s) ==
  /\ sale[s] = "reserved" /\ sale' = [sale EXCEPT ![s] = "busy"]
  /\ Serve(h, Adding("release", s, By(Wh[s], Qty[s]), FALSE))
  /\ UNCHANGED <<level, total, booked, agg, note, noteOut, count, adjusts,
                 transfers>>

\* Inserts of one statement, which read nothing that another request changes
\* in between.
CreateNote(n) ==
  /\ note[n] = "absent" /\ note' = [note EXCEPT ![n] = "DRAFT"]
  /\ UNCHANGED <<level, total, booked, noteOut, count, sale, adjusts, transfers,
                 req, agg>>

CreateCount(c) ==
  /\ count[c].status = "absent"
  /\ count' = [count EXCEPT ![c] = [status |-> "DRAFT", system |-> level[Wh[c]],
                                    counted |-> level[Wh[c]], completedAt |-> FALSE,
                                    revRows |-> 0]]
  /\ UNCHANGED <<level, total, booked, note, noteOut, sale, adjusts, transfers,
                 req, agg>>

(***************************************************************************)
(* The transaction.                                                        *)
(***************************************************************************)
Touched(h) == {w \in Warehouses : req[h].moves[w] # 0}
Locked(h) == IF req[h].pc = "open" THEN Touched(h) ELSE {}

After(h) == [w \in Warehouses |->
               IF w \notin Touched(h) THEN level[w]
               ELSE IF req[h].abs THEN req[h].to ELSE level[w] + req[h].moves[w]]

\* Faulty: reads the quantities and writes them back without a row lock.
WriteUnlocked(h) ==
  /\ req[h].pc = "ready"
  /\ req[h].guarded => \A w \in Touched(h) : After(h)[w] >= 0
  /\ req' = [req EXCEPT ![h].pc = "open"]
  /\ agg' = [agg EXCEPT ![h] = SumOf(After(h))]
  /\ UNCHANGED <<level, total, booked, documents>>

WriteLevels(h) ==
  /\ req[h].pc = "ready"
  /\ \A g \in Handlers \ {h} : Locked(g) \cap Touched(h) = {}
  /\ req[h].guarded => \A w \in Touched(h) : After(h)[w] >= 0
  /\ req' = [req EXCEPT ![h].pc = "open"]
  /\ agg' = [agg EXCEPT ![h] = SumOf(After(h))]
  /\ UNCHANGED <<level, total, booked, documents>>

\* Insufficient stock, a deadlock of two transactions, an error or a restart:
\* the transaction rolls back.
Fail(h) ==
  /\ req[h].pc # "idle"
  /\ Finish(h)
  /\ UNCHANGED <<level, total, booked, documents>>

Committing(h, op) == req[h].pc = "open" /\ req[h].op = op
Post(h) ==
  /\ level' = After(h)
  /\ booked' = [w \in Warehouses |-> booked[w] + req[h].moves[w]]
  /\ Finish(h)

CommitAdjust(h) ==
  /\ Committing(h, "adjust") /\ Post(h) /\ total' = agg[h]
  /\ adjusts' = Append(adjusts, [moves |-> req[h].moves, abs |-> req[h].abs,
                                 was |-> req[h].was, listed |-> req[h].listed,
                                 undone |-> 0])
  /\ UNCHANGED <<note, noteOut, count, sale, transfers>>

CommitReverseAdjust(h) ==
  /\ Committing(h, "undoAdjust") /\ Post(h) /\ total' = agg[h]
  /\ adjusts' = [adjusts EXCEPT ![req[h].row].undone = @ + 1]
  /\ UNCHANGED <<note, noteOut, count, sale, transfers>>

CommitTransfer(h) ==
  /\ Committing(h, "transfer") /\ Post(h)
  /\ transfers' = Append(transfers, [moves |-> req[h].moves, undone |-> 0])
  /\ UNCHANGED <<total, note, noteOut, count, sale, adjusts>>

CommitReverseTransfer(h) ==
  /\ Committing(h, "undoTransfer") /\ Post(h)
  /\ transfers' = [transfers EXCEPT ![req[h].row].undone = @ + 1]
  /\ UNCHANGED <<total, note, noteOut, count, sale, adjusts>>

\* The document row is updated by its id, whatever its status has become; a
\* removed row fails the transaction.
FileNote(h, status) ==
  LET n == req[h].doc IN
  /\ note[n] # "removed" /\ note' = [note EXCEPT ![n] = status]
  /\ noteOut' = [noteOut EXCEPT ![n] = @ - req[h].moves[Wh[n]]]
  /\ UNCHANGED <<count, sale, adjusts, transfers>>

\* Faulty: no movement row for a delivery.
DeliverUnbooked(h) ==
  /\ Committing(h, "deliver")
  /\ level' = After(h) /\ booked' = booked /\ total' = agg[h]
  /\ Finish(h)
  /\ FileNote(h, "DELIVERED")

CommitDeliver(h) ==
  /\ Committing(h, "deliver") /\ Post(h) /\ total' = agg[h]
  /\ FileNote(h, "DELIVERED")

CommitUndeliver(h) ==
  /\ Committing(h, "undeliver") /\ Post(h) /\ total' = agg[h]
  /\ FileNote(h, "CANCELLED")

CommitCancelDraft(h) ==
  /\ Committing(h, "cancelNote") /\ Post(h) /\ total' = total
  /\ FileNote(h, "CANCELLED")

CommitRemoveNote(h) ==
  /\ Committing(h, "removeNote") /\ Post(h) /\ total' = total
  /\ FileNote(h, "removed")

FileCount(h, row) ==
  LET c == req[h].doc IN
  /\ count[c].status # "removed" /\ count' = [count EXCEPT ![c] = row]
  /\ UNCHANGED <<note, noteOut, sale, adjusts, transfers>>
RowOf(h) == count[req[h].doc]

\* A count without a variance writes neither a warehouse row nor the total.
Recounted(h) == total' = IF Touched(h) = {} THEN total ELSE agg[h]

CommitUpdateLines(h) ==
  /\ Committing(h, "recount") /\ Post(h) /\ total' = total
  /\ FileCount(h, [RowOf(h) EXCEPT !.counted = req[h].to])

CommitComplete(h) ==
  /\ Committing(h, "complete") /\ Post(h) /\ Recounted(h)
  /\ FileCount(h, [RowOf(h) EXCEPT !.status = "COMPLETED", !.completedAt = TRUE])

CommitCancelCount(h) ==
  /\ Committing(h, "cancelCount") /\ Post(h) /\ total' = total
  /\ FileCount(h, [RowOf(h) EXCEPT !.status = "CANCELLED"])

CommitReverseCompleted(h) ==
  /\ Committing(h, "uncomplete") /\ Post(h) /\ Recounted(h)
  /\ FileCount(h, [RowOf(h) EXCEPT
                     !.status = "CANCELLED",
                     !.revRows = IF Touched(h) = {} THEN @ ELSE @ + 1])

CommitRemoveCount(h) ==
  /\ Committing(h, "removeCount") /\ Post(h) /\ total' = total
  /\ FileCount(h, [RowOf(h) EXCEPT !.status = "removed"])

\* A sale also takes its units off the total, and asks that they be there.
CommitReserve(h) ==
  LET s == req[h].doc IN
  /\ Committing(h, "reserve") /\ Post(h)
  /\ req[h].guarded => total >= Qty[s]
  /\ total' = total - Qty[s]
  /\ sale' = [sale EXCEPT ![s] = "reserved"]
  /\ UNCHANGED <<note, noteOut, count, adjusts, transfers>>

CommitRelease(h) ==
  /\ Committing(h, "release") /\ Post(h) /\ total' = agg[h]
  /\ sale' = [sale EXCEPT ![req[h].doc] = "returned"]
  /\ UNCHANGED <<note, noteOut, count, adjusts, transfers>>

Check(h) ==
  \/ AdjustStock(h) \/ ReverseLastAdjust(h)
  \/ TransferStock(h) \/ ReverseLastTransfer(h)
  \/ \E n \in Notes : Deliver(h, n) \/ CancelNote(h, n) \/ RemoveNote(h, n)
  \/ \E c \in Counts : \/ UpdateLines(h, c) \/ Complete(h, c) \/ CancelCount(h, c)
                       \/ ReverseCompleted(h, c) \/ RemoveCount(h, c)
  \/ \E s \in Sales : ReserveStockOut(h, s) \/ ReleaseStockIn(h, s)

Commit(h) ==
  \/ CommitAdjust(h) \/ CommitReverseAdjust(h)
  \/ CommitTransfer(h) \/ CommitReverseTransfer(h)
  \/ CommitDeliver(h) \/ CommitUndeliver(h)
  \/ CommitCancelDraft(h) \/ CommitRemoveNote(h)
  \/ CommitUpdateLines(h) \/ CommitComplete(h) \/ CommitCancelCount(h)
  \/ CommitReverseCompleted(h) \/ CommitRemoveCount(h)
  \/ CommitReserve(h) \/ CommitRelease(h)

Next ==
  \/ \E n \in Notes : CreateNote(n)
  \/ \E c \in Counts : CreateCount(c)
  \/ \E h \in Handlers : Check(h) \/ WriteLevels(h) \/ Fail(h) \/ Commit(h)

Spec == Init /\ [][Next]_vars

-----------------------------------------------------------------------------
Requests ==
  [pc : {"idle", "ready", "open"}, op : Ops,
   doc : Notes \cup Counts \cup Sales \cup {None}, row : Nat, listed : BOOLEAN,
   moves : Moves, abs : BOOLEAN, was : Int, to : Int, guarded : BOOLEAN]

\* However many cashiers, storekeepers and reversals overlap, no warehouse row
\* goes below zero (unless selling without stock is approved): the guarded
\* updateMany decides under the row's lock.
NeverOversold == \A w \in Warehouses : level[w] >= 0

\* products.quantity, which sales are checked against, is the sum over the
\* warehouses: always when one request works at a time, and with one warehouse
\* also when they overlap.
TotalIsSum == total = SumOf(level)

\* Only a SET adjustment, a stock count, or the reversal of one, can move a
\* warehouse row away from what its movement rows explain.
OnlyAbsoluteWritesDrift ==
  [][\A w \in Warehouses :
       level'[w] - level[w] # booked'[w] - booked[w]
         => \E h \in Handlers : req[h].pc = "open" /\ req[h].abs]_vars

\* A delivery note has taken its quantity out of stock if it is DELIVERED, and
\* nothing otherwise: deliver, cancel and delete in any order.
NoteMovesStock ==
  \A n \in Notes : noteOut[n] = IF note[n] = "DELIVERED" THEN Qty[n] ELSE 0

\* No adjustment or transfer is reversed twice.
UndoneOnce == /\ \A k \in DOMAIN adjusts : adjusts[k].undone <= 1
              /\ \A k \in DOMAIN transfers : transfers[k].undone <= 1

\* A count that was completed is cancelled by its reversal only, once.
CompletedIsReversed ==
  \A c \in Counts : count[c].completedAt =>
    \/ count[c].status = "COMPLETED" /\ count[c].revRows = 0
    \/ /\ count[c].status = "CANCELLED"
       /\ count[c].revRows = IF count[c].counted = count[c].system THEN 0 ELSE 1
=============================================================================
