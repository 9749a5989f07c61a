----------------------------- MODULE RestoFloor -----------------------------
(***************************************************************************)
(* The floor of a restaurant (resto.service.ts): tables and the checks at  *)
(* them, reservations, and checks that delivery platforms send in.         *)
(*                                                                         *)
(* A request looks for what is at a table, and writes the table's status   *)
(* later, whatever is there by then: Load.. actions look, the step named   *)
(* by pc writes, and after a check left its table LookIdle and FreeTable   *)
(* do it once more. The bookings are for times within the next two hours   *)
(* and in conflict with each other (a later one leaves the table alone).   *)
(* PENDING and CONFIRMED are one status BOOKED, CANCELLED and NO_SHOW one. *)
(* Items, bills and the kitchen are RestoChecks'; parties, opening hours,  *)
(* zones, deliveries and messages to guests are left out.                  *)
(*                                                                         *)
(* Variables only the properties read: torn are the tables where requests  *)
(* met, where one stopped, or where a payment came after its check was     *)
(* cancelled; clash the bookings made by requests that met, or brought     *)
(* back to life. Bounds: no later request touches those tables and         *)
(* bookings, of which nothing is claimed, and one such thing happens.      *)
(***************************************************************************)
EXTENDS Integers, FiniteSets

CONSTANTS
  Tables, Orders, Bookings,  \* rows that may come to exist
  Externals,                 \* orders of delivery platforms
  Handlers,                  \* requests the API can be serving at once
  None

ASSUME FloorConstants == None \notin Tables \cup Orders \cup Bookings \cup Externals

VARIABLES
  table,    \* resto_tables: status
  order,    \* resto_orders: status, table, external id, has its items; for: what it was made for
  booking,  \* resto_reservations: status, table
  torn, clash,
  lost,     \* external orders a request stopped on
  req       \* what each handler is doing, with what it has read

rows == <<table, order, booking>>
ghosts == <<torn, clash, lost>>
vars == <<rows, ghosts, req>>

NoOrder == [st |-> "none", table |-> None, ext |-> None, for |-> None, items |-> FALSE]
NoBooking == [st |-> "none", table |-> None]
Idle == [pc |-> "idle", order |-> None, table |-> None, from |-> None,
         booking |-> None, st |-> "none", ext |-> None]

Init ==
  /\ table = [t \in Tables |-> "FREE"]
  /\ order = [o \in Orders |-> NoOrder]
  /\ booking = [b \in Bookings |-> NoBooking]
  /\ torn = {} /\ clash = {} /\ lost = {}
  /\ req = [h \in Handlers |-> Idle]

Active(o) == order[o].st = "active"
At(t) == {o \in Orders : Active(o) /\ order[o].table = t}
Has(h) == {req[h].table, req[h].from} \cap Tables
Calm == torn = {} /\ lost = {} /\ clash = {}  \* bound: one thing goes wrong
Busy(t) == \E h \in Handlers : t \in Has(h)
Go(h, pc) == req' = [req EXCEPT ![h].pc = pc]
Finish(h) == req' = [req EXCEPT ![h] = Idle]

\* A request begins; it has met those that work on one of its tables or its order.
Serve(h, r) ==
  LET mine == {r.table, r.from} \cap Tables
      met == {g \in Handlers : Has(g) \cap mine # {} \/ (r.order # None /\ req[g].order = r.order)}
  IN /\ req[h].pc = "idle" /\ mine \cap torn = {} /\ (met = {} \/ Calm)
     /\ req' = [req EXCEPT ![h] = r]
     /\ torn' = IF met = {} THEN torn ELSE torn \cup mine \cup UNION {Has(g) : g \in met}

(***************************************************************************)
(* Checks.                                                                 *)
(***************************************************************************)
LoadOpen(h, t) ==
  /\ At(t) = {}
  /\ Serve(h, [Idle EXCEPT !.pc = "open", !.table = t])
  /\ UNCHANGED <<rows, clash, lost>>

\* Some lines of an active check move to a new one at a free table.
LoadSplit(h, o, t) ==
  /\ Active(o) /\ At(t) = {}
  /\ Serve(h, [Idle EXCEPT !.pc = "open", !.table = t])
  /\ UNCHANGED <<rows, clash, lost>>

CreateOrder(h) ==
  /\ req[h].pc = "open"
  /\ \E o \in Orders :
       /\ order[o].st = "none"
       /\ order' = [order EXCEPT ![o] = [NoOrder EXCEPT !.st = "active", !.table = req[h].table]]
  /\ table' = [table EXCEPT ![req[h].table] = "OCCUPIED"]
  /\ Finish(h)
  /\ UNCHANGED <<booking, ghosts>>

\* Faulty: does not look who is at the table.
LoadTransferBlind(h, o, t) ==
  /\ Active(o) /\ order[o].table # t
  /\ Serve(h, [Idle EXCEPT !.pc = "transfer", !.order = o, !.table = t, !.from = order[o].table])
  /\ UNCHANGED <<rows, clash, lost>>

LoadTransfer(h, o, t) ==
  /\ Active(o) /\ order[o].table # t /\ At(t) = {}
  /\ Serve(h, [Idle EXCEPT !.pc = "transfer", !.order = o, !.table = t, !.from = order[o].table])
  /\ UNCHANGED <<rows, clash, lost>>

Transfer(h) ==
  /\ req[h].pc = "transfer"
  /\ order' = [order EXCEPT ![req[h].order].table = req[h].table]
  /\ table' = [table EXCEPT ![req[h].table] = "OCCUPIED"]
  /\ IF req[h].from = None THEN Finish(h) ELSE Go(h, "look")
  /\ UNCHANGED <<booking, ghosts>>

LoadMerge(h, o) ==
  /\ Active(o) /\ \E into \in Orders \ {o} : Active(into)
  /\ Serve(h, [Idle EXCEPT !.pc = "merge", !.order = o, !.from = order[o].table])
  /\ UNCHANGED <<rows, clash, lost>>

Merge(h) ==
  /\ req[h].pc = "merge"
  /\ order' = [order EXCEPT ![req[h].order].st = "CANCELLED"]
  /\ IF req[h].from = None THEN Finish(h) ELSE Go(h, "look")
  /\ UNCHANGED <<table, booking, ghosts>>

\* freeTableIfIdle; also what a cancelled booking does to its table.
LookIdle(h) ==
  /\ req[h].pc = "look"
  /\ IF At(req[h].from) = {} THEN Go(h, "free") ELSE Finish(h)
  /\ UNCHANGED <<rows, ghosts>>

FreeTable(h) ==
  /\ req[h].pc = "free"
  /\ table' = [table EXCEPT ![req[h].from] = "FREE"]
  /\ Finish(h)
  /\ UNCHANGED <<order, booking, ghosts>>

\* closeOrder, cancelOrder: one transaction for the check and the table it was read at.
LoadClose(h, o) ==
  /\ Active(o)
  /\ \E st \in {"CLOSED", "CANCELLED"} :
       Serve(h, [Idle EXCEPT !.pc = "close", !.order = o, !.from = order[o].table, !.st = st])
  /\ UNCHANGED <<rows, clash, lost>>

Close(h) ==
  /\ req[h].pc = "close"
  /\ order' = [order EXCEPT ![req[h].order].st = req[h].st]
  /\ table' = IF req[h].from = None THEN table ELSE [table EXCEPT ![req[h].from] = "FREE"]
  /\ Finish(h)
  /\ UNCHANGED <<booking, ghosts>>

\* finalizeOrderAfterPayment is LoadClose for an active check, but closes a
\* cancelled one too, and frees the table it was at.
PaidLate(h, o) ==
  LET t == order[o].table IN
  /\ order[o].st = "CANCELLED" /\ Calm /\ req[h].pc = "idle"
  /\ order' = [order EXCEPT ![o].st = "CLOSED"]
  /\ table' = IF t = None THEN table ELSE [table EXCEPT ![t] = "FREE"]
  /\ torn' = torn \cup ({t} \cap Tables)
  /\ UNCHANGED <<booking, clash, lost, req>>

(***************************************************************************)
(* Reservations.                                                           *)
(***************************************************************************)
Booked(t) == {b \in Bookings : booking[b] = [st |-> "BOOKED", table |-> t]}
Booking(h, b, t) == [Idle EXCEPT !.pc = "book", !.booking = b, !.table = t]
Rivals(t) == {g \in Handlers : req[g].pc = "book" /\ req[g].table = t}

\* Faulty: relies on the free tables the guest was shown.
LoadBookingBlind(h, b, t) ==
  /\ booking[b].st = "none" /\ (\A g \in Handlers : req[g].booking # b)
  /\ Serve(h, Booking(h, b, t))
  /\ clash' = clash \cup {c \in {b} \cup {req[g].booking : g \in Rivals(t)} : Rivals(t) # {}}
  /\ UNCHANGED <<rows, lost>>

\* createReservation, by the staff or for a table picked for a guest.
LoadBooking(h, b, t) ==
  /\ booking[b].st = "none" /\ (\A g \in Handlers : req[g].booking # b)
  /\ Booked(t) = {}
  /\ Serve(h, Booking(h, b, t))
  /\ clash' = clash \cup {c \in {b} \cup {req[g].booking : g \in Rivals(t)} : Rivals(t) # {}}
  /\ UNCHANGED <<rows, lost>>

CreateBooking(h) ==
  /\ req[h].pc = "book"
  /\ booking' = [booking EXCEPT ![req[h].booking] = [st |-> "BOOKED", table |-> req[h].table]]
  /\ Go(h, "lookReserve")
  /\ UNCHANGED <<table, order, ghosts>>

LookReserve(h) ==
  /\ req[h].pc = "lookReserve"
  /\ IF At(req[h].table) = {} THEN Go(h, "reserve") ELSE Finish(h)
  /\ UNCHANGED <<rows, ghosts>>

ReserveTable(h) ==
  /\ req[h].pc = "reserve"
  /\ table' = [table EXCEPT ![req[h].table] = "RESERVED"]
  /\ Finish(h)
  /\ UNCHANGED <<order, booking, ghosts>>

\* updateReservationStatus takes any status to any other, looking at nothing;
\* publicCancelReservation comes here too.
SetBooking(h, b, st, pc) ==
  LET t == booking[b].table IN
  /\ booking[b].st # "none" /\ b \notin clash
  /\ Serve(h, IF pc = "look" THEN [Idle EXCEPT !.pc = pc, !.booking = b, !.from = t]
              ELSE [Idle EXCEPT !.pc = pc, !.booking = b, !.table = t])
  /\ booking' = [booking EXCEPT ![b].st = st]
  /\ clash' = IF st = "BOOKED" /\ booking[b].st # st THEN clash \cup {b} ELSE clash
  /\ UNCHANGED <<table, order, lost>>

Confirm(h, b) == SetBooking(h, b, "BOOKED", "lookReserve")
SeatGuests(h, b) == SetBooking(h, b, "SEATED", "seat")
CancelBooking(h, b) == SetBooking(h, b, "CANCELLED", "look")

\* publicConfirmReservation takes a seated booking back, too, and leaves the table alone.
GuestConfirms(b) ==
  /\ booking[b].st = "SEATED" /\ b \notin clash
  /\ booking' = [booking EXCEPT ![b].st = "BOOKED"]
  /\ clash' = clash \cup {b}
  /\ UNCHANGED <<table, order, torn, lost, req>>

Seat(h) ==
  /\ req[h].pc = "seat"
  /\ table' = [table EXCEPT ![req[h].table] = "OCCUPIED"]
  /\ Go(h, "lookOpen")
  /\ UNCHANGED <<order, booking, ghosts>>

LookOpen(h) ==
  /\ req[h].pc = "lookOpen"
  /\ IF At(req[h].table) = {} THEN Go(h, "open") ELSE Finish(h)
  /\ UNCHANGED <<rows, ghosts>>

(***************************************************************************)
(* Checks of delivery platforms. The database keeps an external id unique. *)
(***************************************************************************)
LoadIngest(h, x) ==
  /\ \A o \in Orders : order[o].ext # x
  /\ x \notin lost
  /\ Serve(h, [Idle EXCEPT !.pc = "shell", !.ext = x])
  /\ UNCHANGED <<rows, clash, lost>>

CreateShell(h) ==
  /\ req[h].pc = "shell"
  /\ \E o \in Orders :
       /\ order[o].st = "none"
       /\ order' = [order EXCEPT ![o] = [NoOrder EXCEPT !.st = "active", !.for = req[h].ext]]
       /\ req' = [req EXCEPT ![h].pc = "tag", ![h].order = o]
  /\ UNCHANGED <<table, booking, ghosts>>

\* Faulty: leaves the shell of the request that lost.
TagOrLeave(h) ==
  LET o == req[h].order  x == req[h].ext IN
  /\ req[h].pc = "tag"
  /\ IF \E p \in Orders : order[p].ext = x
     THEN UNCHANGED order /\ Finish(h)
     ELSE order' = [order EXCEPT ![o].ext = x] /\ Go(h, "items")
  /\ UNCHANGED <<table, booking, ghosts>>

Tag(h) ==
  LET o == req[h].order  x == req[h].ext IN
  /\ req[h].pc = "tag"
  /\ IF \E p \in Orders : order[p].ext = x
     THEN order' = [order EXCEPT ![o].st = "CANCELLED"] /\ Finish(h)
     ELSE order' = [order EXCEPT ![o].ext = x] /\ Go(h, "items")
  /\ UNCHANGED <<table, booking, ghosts>>

AddItems(h) ==
  /\ req[h].pc = "items" /\ Active(req[h].order)
  /\ order' = [order EXCEPT ![req[h].order].items = TRUE]
  /\ Finish(h)
  /\ UNCHANGED <<table, booking, ghosts>>

\* An error or a restart; addItem refuses a check that is not active.
Stop(h) ==
  /\ req[h].pc # "idle"
  /\ \/ Calm
     \/ req[h].pc = "items" /\ ~Active(req[h].order)
  /\ torn' = torn \cup Has(h)
  /\ lost' = lost \cup ({req[h].ext} \cap Externals)
  /\ Finish(h)
  /\ UNCHANGED <<rows, clash>>

Floor(h) ==
  \/ \E t \in Tables : \/ LoadOpen(h, t)
                       \/ \E o \in Orders : LoadSplit(h, o, t) \/ LoadTransfer(h, o, t)
  \/ \E o \in Orders : LoadMerge(h, o) \/ LoadClose(h, o) \/ PaidLate(h, o)
  \/ CreateOrder(h) \/ Transfer(h) \/ Merge(h) \/ LookIdle(h) \/ FreeTable(h) \/ Close(h)

Desk(h) ==
  \/ \E b \in Bookings :
       \/ \E t \in Tables : LoadBooking(h, b, t)
       \/ Confirm(h, b) \/ SeatGuests(h, b) \/ CancelBooking(h, b)
  \/ CreateBooking(h) \/ LookReserve(h) \/ ReserveTable(h) \/ Seat(h) \/ LookOpen(h)

Platform(h) ==
  \/ \E x \in Externals : LoadIngest(h, x)
  \/ CreateShell(h) \/ Tag(h) \/ AddItems(h)

Next ==
  \/ \E h \in Handlers : Floor(h) \/ Desk(h) \/ Platform(h) \/ Stop(h)
  \/ \E b \in Bookings : GuestConfirms(b)

Spec == Init /\ [][Next]_vars
-----------------------------------------------------------------------------
(***************************************************************************)
(* Properties.                                                             *)
(***************************************************************************)
\* A table is marked occupied exactly while a check is open at it, and one
\* check only, through splits, moves, merges, bookings and late frees; only
\* where requests met or one stopped may the mark be wrong.
TableFollowsChecks ==
  \A t \in Tables \ torn : ~Busy(t) =>
    Cardinality(At(t)) = IF table[t] = "OCCUPIED" THEN 1 ELSE 0

\* No table is promised to two parties for times in conflict, but by requests
\* that met, or by giving a booking that was over its status back.
NeverDoubleBooked == \A t \in Tables : Cardinality(Booked(t) \ clash) <= 1

\* However often a platform sends an order, and at once, one check is open for
\* it, under its id and with its items; unless a request stopped on it.
IngestedOnce ==
  \A x \in Externals \ lost : (\A h \in Handlers : req[h].ext # x) =>
    LET made == {o \in Orders : order[o].for = x /\ Active(o)} IN
    Cardinality(made) <= 1 /\ \A o \in made : order[o].ext = x /\ order[o].items
=============================================================================
