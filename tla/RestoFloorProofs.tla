-------------------------- MODULE RestoFloorProofs --------------------------
(***************************************************************************)
(* What the floor keeps to, for any tables, checks, bookings, platform     *)
(* orders and requests.                                                    *)
(*                                                                         *)
(* No table is promised twice (IInv): only making a booking and changing   *)
(* its status matter; any other step is Quiet.                             *)
(*                                                                         *)
(* A platform's order is one open check (XInv): each check made for it is  *)
(* fed by the request that made it, or is done; other steps are Aside.     *)
(*                                                                         *)
(* Tables are marked as their checks are (TInv): a table that no request   *)
(* works on is Settled, and one request at most works on it, with what it  *)
(* read still true (AtTable, FromTable), because no other request has the  *)
(* check that it moves or ends. A step is looked at from one table: the    *)
(* request works there (MineTended) or not (OtherTended).                  *)
(***************************************************************************)
EXTENDS RestoFloor, FiniteSetTheorems, TLAPS

\* Rows have their fields.
Shape ==
  /\ DOMAIN req = Handlers
  /\ \A h \in Handlers :
       DOMAIN req[h] = {"pc", "order", "table", "from", "booking", "st", "ext"}
  /\ DOMAIN booking = Bookings
  /\ \A b \in Bookings : booking[b] = [st |-> booking[b].st, table |-> booking[b].table]

Promised(b) == b \notin clash /\ booking[b].st = "BOOKED"

\* No two bookings in force have one table.
Apart ==
  \A b, c \in Bookings :
    Promised(b) /\ Promised(c) /\ booking[b].table = booking[c].table => b = c

\* A booking about to be made has its table to itself, and two about to be made
\* at one table have met.
Alone ==
  /\ \A h \in Handlers : req[h].pc = "book" =>
       /\ req[h].booking \in Bookings
       /\ req[h].booking \notin clash =>
            \A c \in Bookings : Promised(c) => booking[c].table # req[h].table
  /\ \A g, h \in Handlers :
       g # h /\ req[g].pc = "book" /\ req[h].pc = "book" /\ req[g].table = req[h].table =>
         req[h].booking \in clash

IInv == Shape /\ Apart /\ Alone

\* A step that neither makes a booking nor changes one.
Quiet ==
  /\ UNCHANGED booking /\ clash \subseteq clash'
  /\ DOMAIN req' = Handlers
  /\ \A h \in Handlers :
       DOMAIN req'[h] = {"pc", "order", "table", "from", "booking", "st", "ext"}
  /\ \A h \in Handlers : req'[h] = req[h] \/ req'[h].pc # "book"

-----------------------------------------------------------------------------
LEMMA InitIInv == Init => IInv
  BY DEF Init, IInv, Shape, Apart, Alone, Promised, Idle, NoBooking

LEMMA QuietKeeps == ASSUME IInv, Quiet PROVE IInv'
<1>1. Shape'
  BY DEF IInv, Quiet, Shape
<1>2. Apart'
  BY DEF IInv, Quiet, Apart, Promised
<1>3. Alone'
  BY DEF IInv, Quiet, Alone, Promised
<1> QED BY <1>1, <1>2, <1>3 DEF IInv

\* Requests that begin with a step other than making a booking.
LEMMA ServeQuiet ==
  ASSUME IInv, NEW h \in Handlers, NEW r, Serve(h, r), r.pc # "book",
         DOMAIN r = {"pc", "order", "table", "from", "booking", "st", "ext"},
         UNCHANGED <<booking, clash>>
  PROVE  Quiet
  BY DEF Quiet, IInv, Shape, Serve

LEMMA FloorQuiet == ASSUME IInv, NEW h \in Handlers, Floor(h) PROVE Quiet
<1> USE DEF rows, ghosts
<1>1. ASSUME NEW t \in Tables, LoadOpen(h, t) PROVE Quiet
  BY <1>1, ServeQuiet DEF LoadOpen, Idle
<1>2. ASSUME NEW t \in Tables, NEW o \in Orders, LoadSplit(h, o, t) \/ LoadTransfer(h, o, t)
      PROVE  Quiet
  BY <1>2, ServeQuiet DEF LoadSplit, LoadTransfer, Idle
<1>3. ASSUME NEW o \in Orders, LoadMerge(h, o) PROVE Quiet
  BY <1>3, ServeQuiet DEF LoadMerge, Idle
<1>4. ASSUME NEW o \in Orders, LoadClose(h, o) PROVE Quiet
  <2>1. PICK st \in {"CLOSED", "CANCELLED"} :
          Serve(h, [Idle EXCEPT !.pc = "close", !.order = o, !.from = order[o].table, !.st = st])
    BY <1>4 DEF LoadClose
  <2> QED BY <1>4, <2>1, ServeQuiet DEF LoadClose, Idle
<1>5. ASSUME NEW o \in Orders, PaidLate(h, o) PROVE Quiet
  BY <1>5 DEF PaidLate, Quiet, IInv, Shape
<1>6. CASE CreateOrder(h) \/ Transfer(h) \/ Merge(h)
  BY <1>6 DEF CreateOrder, Transfer, Merge, Go, Finish, Idle, Quiet, IInv, Shape
<1>7. CASE LookIdle(h) \/ FreeTable(h) \/ Close(h)
  BY <1>7 DEF LookIdle, FreeTable, Close, Go, Finish, Idle, Quiet, IInv, Shape
<1> QED BY <1>1, <1>2, <1>3, <1>4, <1>5, <1>6, <1>7 DEF Floor

LEMMA PlatformQuiet == ASSUME IInv, NEW h \in Handlers, Platform(h) \/ Stop(h) PROVE Quiet
<1> USE DEF rows, ghosts
<1>1. ASSUME NEW x \in Externals, LoadIngest(h, x) PROVE Quiet
  BY <1>1, ServeQuiet DEF LoadIngest, Idle
<1>2. CASE CreateShell(h)
  BY <1>2 DEF CreateShell, Quiet, IInv, Shape
<1>3. CASE Tag(h) \/ AddItems(h)
  BY <1>3 DEF Tag, AddItems, Go, Finish, Idle, Quiet, IInv, Shape
<1>4. CASE Stop(h)
  BY <1>4 DEF Stop, Finish, Idle, Quiet, IInv, Shape
<1> QED BY <1>1, <1>2, <1>3, <1>4 DEF Platform

LEMMA SeatQuiet ==
  ASSUME IInv, NEW h \in Handlers,
         LookReserve(h) \/ ReserveTable(h) \/ Seat(h) \/ LookOpen(h)
  PROVE  Quiet
  BY DEF LookReserve, ReserveTable, Seat, LookOpen, Go, Finish, Idle, Quiet, IInv, Shape,
         rows, ghosts

\* Reading: no booking in force has the table, and whoever is about to book it
\* is in clash from now on.
LEMMA LoadBookingKeeps ==
  ASSUME IInv, NEW h \in Handlers, NEW b \in Bookings, NEW t \in Tables, LoadBooking(h, b, t)
  PROVE  IInv'
<1> DEFINE r == Booking(h, b, t)
<1>0. /\ r.pc = "book" /\ r.booking = b /\ r.table = t
      /\ DOMAIN r = {"pc", "order", "table", "from", "booking", "st", "ext"}
  BY DEF Booking, Idle
<1>1. /\ req[h].pc = "idle" /\ req' = [req EXCEPT ![h] = r] /\ UNCHANGED booking
      /\ Booked(t) = {} /\ clash \subseteq clash'
      /\ \A g \in Rivals(t) : req[g].booking \in clash' /\ b \in clash'
  BY DEF LoadBooking, Serve, rows
<1> HIDE DEF r
<1>2. Shape'
  BY <1>0, <1>1 DEF IInv, Shape
<1>3. Apart'
  BY <1>1 DEF IInv, Apart, Promised
<1>4. \A c \in Bookings : Promised(c) => booking[c].table # t
  <2> SUFFICES ASSUME NEW c \in Bookings, booking[c].st = "BOOKED", booking[c].table = t
               PROVE  FALSE
    BY DEF Promised
  <2>1. c \notin Booked(t)
    BY <1>1
  <2> QED BY <2>1 DEF IInv, Shape, Booked
<1>5. Alone'
  BY <1>0, <1>1, <1>4 DEF IInv, Shape, Alone, Promised, Rivals
<1> QED BY <1>2, <1>3, <1>5 DEF IInv

LEMMA CreateBookingKeeps == ASSUME IInv, NEW h \in Handlers, CreateBooking(h) PROVE IInv'
<1>1. /\ req[h].pc = "book" /\ req[h].booking \in Bookings
      /\ booking' = [booking EXCEPT ![req[h].booking] = [st |-> "BOOKED", table |-> req[h].table]]
      /\ req' = [req EXCEPT ![h].pc = "lookReserve"] /\ UNCHANGED clash
  BY DEF CreateBooking, Go, ghosts, IInv, Alone
<1>2. Shape'
  BY <1>1 DEF IInv, Shape
<1>3. Apart'
  BY <1>1 DEF IInv, Shape, Apart, Alone, Promised
<1>4. Alone'
  BY <1>1 DEF IInv, Shape, Alone, Promised
<1> QED BY <1>2, <1>3, <1>4 DEF IInv

\* A booking that becomes BOOKED again is in clash from then on.
LEMMA StatusKeeps ==
  ASSUME IInv, NEW b \in Bookings, NEW st, booking' = [booking EXCEPT ![b].st = st],
         clash \subseteq clash', st = "BOOKED" => b \in clash' \/ booking[b].st = "BOOKED",
         DOMAIN req' = Handlers,
         \A h \in Handlers :
           /\ DOMAIN req'[h] = {"pc", "order", "table", "from", "booking", "st", "ext"}
           /\ req'[h] = req[h] \/ req'[h].pc # "book"
  PROVE  IInv'
<1>1. /\ DOMAIN booking' = Bookings
      /\ \A c \in Bookings : /\ booking'[c] = [st |-> booking'[c].st, table |-> booking'[c].table]
                             /\ booking'[c].table = booking[c].table
                             /\ Promised(c)' => Promised(c)
  BY DEF IInv, Shape, Promised
<1>2. Shape'
  BY <1>1 DEF Shape
<1>3. Apart'
  BY <1>1 DEF IInv, Apart, Promised
<1>4. Alone'
  BY <1>1 DEF IInv, Alone, Promised
<1> QED BY <1>2, <1>3, <1>4 DEF IInv

LEMMA SetBookingKeeps ==
  ASSUME IInv, NEW h \in Handlers, NEW b \in Bookings,
         Confirm(h, b) \/ SeatGuests(h, b) \/ CancelBooking(h, b)
  PROVE  IInv'
<1>1. PICK st, pc : SetBooking(h, b, st, pc) /\ pc # "book"
  BY DEF Confirm, SeatGuests, CancelBooking
<1> DEFINE t == booking[b].table
           looks == [Idle EXCEPT !.pc = pc, !.booking = b, !.from = t]
           writes == [Idle EXCEPT !.pc = pc, !.booking = b, !.table = t]
<1>a. /\ looks.pc = pc /\ writes.pc = pc
      /\ DOMAIN looks = {"pc", "order", "table", "from", "booking", "st", "ext"}
      /\ DOMAIN writes = {"pc", "order", "table", "from", "booking", "st", "ext"}
  BY DEF Idle
<1>b. Serve(h, looks) \/ Serve(h, writes)
  <2>1. Serve(h, IF pc = "look" THEN looks ELSE writes)
    BY <1>1 DEF SetBooking
  <2> HIDE DEF looks, writes
  <2> QED BY <2>1
<1> HIDE DEF looks, writes
<1>2. PICK r : /\ Serve(h, r) /\ r.pc = pc
               /\ DOMAIN r = {"pc", "order", "table", "from", "booking", "st", "ext"}
  BY <1>a, <1>b
<1>3. /\ booking' = [booking EXCEPT ![b].st = st] /\ clash \subseteq clash'
      /\ st = "BOOKED" => b \in clash' \/ booking[b].st = "BOOKED"
  BY <1>1 DEF SetBooking
<1>4. /\ DOMAIN req' = Handlers
      /\ \A g \in Handlers :
           /\ DOMAIN req'[g] = {"pc", "order", "table", "from", "booking", "st", "ext"}
           /\ req'[g] = req[g] \/ req'[g].pc # "book"
  BY <1>1, <1>2 DEF Serve, IInv, Shape
<1> QED BY <1>3, <1>4, StatusKeeps

LEMMA NextKeepsIInv == IInv /\ [Next]_vars => IInv'
<1> SUFFICES ASSUME IInv, [Next]_vars PROVE IInv'
  OBVIOUS
<1>1. ASSUME NEW h \in Handlers, Desk(h) PROVE IInv'
  BY <1>1, LoadBookingKeeps, SetBookingKeeps, CreateBookingKeeps, SeatQuiet, QuietKeeps DEF Desk
<1>2. ASSUME NEW h \in Handlers, Floor(h) \/ Platform(h) \/ Stop(h) PROVE IInv'
  BY <1>2, FloorQuiet, PlatformQuiet, QuietKeeps
<1>3. ASSUME NEW b \in Bookings, GuestConfirms(b) PROVE IInv'
  <2>1. /\ booking' = [booking EXCEPT ![b].st = "BOOKED"] /\ clash' = clash \cup {b} /\ req' = req
    BY <1>3 DEF GuestConfirms
  <2> QED BY <2>1, StatusKeeps DEF IInv, Shape
<1>4. CASE UNCHANGED vars
  <2>1. Quiet
    BY <1>4 DEF vars, rows, ghosts, Quiet, IInv, Shape
  <2> QED BY <2>1, QuietKeeps
<1> QED BY <1>1, <1>2, <1>3, <1>4 DEF Next

\* No table is promised to two parties, but by requests that read at the same
\* time or by a booking given its status back.
THEOREM SpecNeverDoubleBooked == Spec => []NeverDoubleBooked
<1>1. IInv => NeverDoubleBooked
  <2> SUFFICES ASSUME IInv, NEW t \in Tables
               PROVE  Cardinality(Booked(t) \ clash) <= 1
    BY DEF NeverDoubleBooked
  <2> DEFINE S == Booked(t) \ clash
  <2>1. ASSUME NEW b \in S, NEW c \in S PROVE b = c
    BY DEF IInv, Apart, Promised, Booked
  <2>2. CASE S = {}
    BY <2>2, FS_EmptySet
  <2>3. CASE S # {}
    <3>1. PICK b \in S : TRUE
      BY <2>3
    <3>2. S = {b}
      BY <2>1, <3>1
    <3> QED BY <3>2, FS_Singleton
  <2> QED BY <2>2, <2>3
<1> QED BY InitIInv, NextKeepsIInv, <1>1, PTL DEF Spec

-----------------------------------------------------------------------------
(***************************************************************************)
(* Orders of delivery platforms.                                           *)
(***************************************************************************)
\* Checks have their fields, and are closed to an end.
Checks ==
  /\ DOMAIN order = Orders
  /\ \A o \in Orders : DOMAIN order[o] = {"st", "table", "ext", "for", "items"}
  /\ \A h \in Handlers : req[h].pc = "close" => req[h].st \in {"CLOSED", "CANCELLED"}

\* What the database sees to: an external id is one check's.
OneId == \A o, p \in Orders : order[o].ext # None /\ order[o].ext = order[p].ext => o = p

\* A request about to tag a shell made that shell, for its own order.
Shells ==
  \A h \in Handlers : req[h].pc = "tag" =>
    /\ req[h].order \in Orders
    /\ order[req[h].order].for = req[h].ext
    /\ order[req[h].order].st # "none"

\* A check made for x is x's, or a request is at work to make it so.
Fed(o, x) ==
  \/ \E h \in Handlers : req[h].pc = "tag" /\ req[h].order = o /\ req[h].ext = x
  \/ /\ order[o].ext = x
     /\ \/ order[o].items
        \/ \E h \in Handlers : req[h].pc = "items" /\ req[h].order = o /\ req[h].ext = x

Feeding == \A x \in Externals \ lost, o \in Orders : order[o].for = x /\ Active(o) => Fed(o, x)

XInv == IInv /\ Checks /\ OneId /\ Shells /\ Feeding

\* A check is left as it is, but for its status and table, or is a new one that
\* no platform ordered.
Same(o) ==
  \/ /\ order'[o].ext = order[o].ext /\ order'[o].for = order[o].for
     /\ order'[o].items = order[o].items
     /\ order[o].st # "active" => order'[o].st # "active"
     /\ order[o].st # "none" => order'[o].st # "none"
  \/ order[o].st = "none" /\ order'[o].ext = None /\ order'[o].for = None

Feeds == {"tag", "items"}

\* A step that has nothing to do with platforms.
Aside ==
  /\ Checks' /\ lost \subseteq lost'
  /\ \A o \in Orders : Same(o)
  /\ \A h \in Handlers : req'[h] = req[h] \/ {req[h].pc, req'[h].pc} \cap Feeds = {}

LEMMA InitXInv == Init => XInv
  BY InitIInv, FloorConstants
  DEF Init, XInv, Checks, OneId, Shells, Feeding, Active, Idle, NoOrder

LEMMA AsideKeeps == ASSUME XInv, Aside PROVE OneId' /\ Shells' /\ Feeding'
<1>1. OneId'
  <2> SUFFICES ASSUME NEW o \in Orders, NEW p \in Orders,
                      order'[o].ext # None, order'[o].ext = order'[p].ext
               PROVE  o = p
    BY DEF OneId
  <2>1. order'[o].ext = order[o].ext /\ order'[p].ext = order[p].ext
    BY DEF Aside, Same
  <2> QED BY <2>1 DEF XInv, OneId
<1>2. Shells'
  <2> SUFFICES ASSUME NEW h \in Handlers, req'[h].pc = "tag"
               PROVE  /\ req'[h].order \in Orders
                      /\ order'[req'[h].order].for = req'[h].ext
                      /\ order'[req'[h].order].st # "none"
    BY DEF Shells
  <2>1. req'[h] = req[h]
    BY DEF Aside, Feeds
  <2>2. /\ req[h].order \in Orders /\ order[req[h].order].for = req[h].ext
        /\ order[req[h].order].st # "none"
    BY <2>1 DEF XInv, Shells
  <2>3. Same(req[h].order)
    BY <2>2 DEF Aside
  <2> QED BY <2>1, <2>2, <2>3 DEF Same
<1>3. Feeding'
  <2> SUFFICES ASSUME NEW x \in Externals \ lost', NEW o \in Orders,
                      order'[o].for = x, order'[o].st = "active"
               PROVE  Fed(o, x)'
    BY DEF Feeding, Active
  <2>1. x # None /\ x \in Externals \ lost
    BY FloorConstants DEF Aside
  <2>2. /\ order'[o].ext = order[o].ext /\ order[o].for = x /\ order'[o].items = order[o].items
        /\ order[o].st = "active"
    BY <2>1 DEF Aside, Same
  <2>3. Fed(o, x)
    BY <2>1, <2>2 DEF XInv, Feeding, Active
  <2>4. \A h \in Handlers : req[h].pc \in Feeds => req'[h] = req[h]
    BY DEF Aside
  <2> QED BY <2>2, <2>3, <2>4 DEF Fed, Feeds
<1> QED BY <1>1, <1>2, <1>3

\* Every request but the platforms' is Aside.
LEMMA ServeAside ==
  ASSUME XInv, NEW h \in Handlers, NEW r, Serve(h, r), r.pc \notin Feeds, UNCHANGED <<order, lost>>,
         r.pc = "close" => r.st \in {"CLOSED", "CANCELLED"}
  PROVE  Aside
  BY DEF Aside, Same, Feeds, XInv, IInv, Shape, Checks, Serve

LEMMA FloorAside == ASSUME XInv, NEW h \in Handlers, Floor(h) PROVE Aside
<1> USE DEF rows, ghosts
<1>0. DOMAIN req = Handlers /\ Checks /\ \A g \in Handlers :
        DOMAIN req[g] = {"pc", "order", "table", "from", "booking", "st", "ext"}
  BY DEF XInv, IInv, Shape
<1>1. ASSUME NEW t \in Tables, LoadOpen(h, t) PROVE Aside
  BY <1>1, ServeAside DEF LoadOpen, Idle, Feeds
<1>2. ASSUME NEW t \in Tables, NEW o \in Orders, LoadSplit(h, o, t) \/ LoadTransfer(h, o, t)
      PROVE  Aside
  BY <1>2, ServeAside DEF LoadSplit, LoadTransfer, Idle, Feeds
<1>3. ASSUME NEW o \in Orders, LoadMerge(h, o) PROVE Aside
  BY <1>3, ServeAside DEF LoadMerge, Idle, Feeds
<1>4. ASSUME NEW o \in Orders, LoadClose(h, o) PROVE Aside
  <2>1. PICK st \in {"CLOSED", "CANCELLED"} :
          Serve(h, [Idle EXCEPT !.pc = "close", !.order = o, !.from = order[o].table, !.st = st])
    BY <1>4 DEF LoadClose
  <2> QED BY <1>4, <2>1, ServeAside DEF LoadClose, Idle, Feeds
<1>5. ASSUME NEW o \in Orders, PaidLate(h, o) PROVE Aside
  BY <1>0, <1>5 DEF PaidLate, Aside, Same, Checks
<1>6. CASE CreateOrder(h)
  <2>1. PICK o \in Orders :
          /\ order[o].st = "none"
          /\ order' = [order EXCEPT ![o] = [NoOrder EXCEPT !.st = "active", !.table = req[h].table]]
    BY <1>6 DEF CreateOrder
  <2>2. /\ req' = [req EXCEPT ![h] = Idle] /\ req[h].pc = "open" /\ lost' = lost
        /\ Idle.pc = "idle"
    BY <1>6 DEF CreateOrder, Finish, Idle
  <2>3. \A p \in Orders : Same(p)
    BY <1>0, <2>1 DEF NoOrder, Same, Checks
  <2>4. Checks'
    BY <1>0, <2>1, <2>2 DEF NoOrder, Checks
  <2> QED BY <1>0, <2>2, <2>3, <2>4 DEF Aside, Feeds
<1>7. CASE Transfer(h)
  BY <1>0, <1>7 DEF Transfer, Go, Finish, Idle, Aside, Same, Feeds, Checks
<1>8. CASE Merge(h)
  BY <1>0, <1>8 DEF Merge, Go, Finish, Idle, Aside, Same, Feeds, Checks
<1>9. CASE LookIdle(h) \/ FreeTable(h)
  BY <1>0, <1>9 DEF LookIdle, FreeTable, Go, Finish, Idle, Aside, Same, Feeds, Checks
<1>10. CASE Close(h)
  BY <1>0, <1>10 DEF Close, Finish, Idle, Aside, Same, Feeds, Checks
<1> QED BY <1>1, <1>2, <1>3, <1>4, <1>5, <1>6, <1>7, <1>8, <1>9, <1>10 DEF Floor

LEMMA DeskAside == ASSUME XInv, NEW h \in Handlers, Desk(h) PROVE Aside
<1> USE DEF rows, ghosts
<1>0. DOMAIN req = Handlers /\ Checks /\ \A g \in Handlers :
        DOMAIN req[g] = {"pc", "order", "table", "from", "booking", "st", "ext"}
  BY DEF XInv, IInv, Shape
<1>1. ASSUME NEW b \in Bookings, NEW t \in Tables, LoadBooking(h, b, t) PROVE Aside
  BY <1>1, ServeAside DEF LoadBooking, Booking, Idle, Feeds
<1>2. ASSUME NEW b \in Bookings, Confirm(h, b) \/ SeatGuests(h, b) \/ CancelBooking(h, b)
      PROVE  Aside
  <2>1. PICK st, pc : SetBooking(h, b, st, pc) /\ pc \notin Feeds \cup {"close"}
    BY <1>2 DEF Confirm, SeatGuests, CancelBooking, Feeds
  <2> DEFINE t == booking[b].table
             looks == [Idle EXCEPT !.pc = pc, !.booking = b, !.from = t]
             writes == [Idle EXCEPT !.pc = pc, !.booking = b, !.table = t]
  <2>2. looks.pc = pc /\ writes.pc = pc
    BY DEF Idle
  <2>3. Serve(h, looks) \/ Serve(h, writes)
    <3>1. Serve(h, IF pc = "look" THEN looks ELSE writes)
      BY <2>1 DEF SetBooking
    <3> HIDE DEF looks, writes
    <3> QED BY <3>1
  <2> HIDE DEF looks, writes
  <2> QED BY <2>1, <2>2, <2>3, ServeAside DEF SetBooking
<1>3. CASE CreateBooking(h) \/ LookReserve(h) \/ ReserveTable(h)
  BY <1>0, <1>3
  DEF CreateBooking, LookReserve, ReserveTable, Go, Finish, Idle, Aside, Same, Feeds, Checks
<1>4. CASE Seat(h) \/ LookOpen(h)
  BY <1>0, <1>4 DEF Seat, LookOpen, Go, Finish, Idle, Aside, Same, Feeds, Checks
<1> QED BY <1>1, <1>2, <1>3, <1>4 DEF Desk

\* The four steps of a platform's order.
LEMMA CreateShellFeeds ==
  ASSUME XInv, NEW h \in Handlers, CreateShell(h) PROVE Checks' /\ OneId' /\ Shells' /\ Feeding'
<1> DEFINE x == req[h].ext
<1>1. PICK o \in Orders :
        /\ order[o].st = "none"
        /\ order' = [order EXCEPT ![o] = [NoOrder EXCEPT !.st = "active", !.for = x]]
        /\ req' = [req EXCEPT ![h].pc = "tag", ![h].order = o]
  BY DEF CreateShell
<1>2. /\ DOMAIN req = Handlers /\ Checks /\ req[h].pc = "shell" /\ lost' = lost
      /\ DOMAIN req[h] = {"pc", "order", "table", "from", "booking", "st", "ext"}
  BY DEF XInv, IInv, Shape, CreateShell, ghosts
<1>3. /\ order'[o].ext = None /\ order'[o].for = x /\ order'[o].st = "active" /\ Checks'
      /\ \A p \in Orders \ {o} : order'[p] = order[p]
  BY <1>1, <1>2 DEF Checks, NoOrder
<1>4. /\ req'[h].pc = "tag" /\ req'[h].order = o /\ req'[h].ext = x
      /\ \A g \in Handlers \ {h} : req'[g] = req[g]
  BY <1>1, <1>2
<1>5. OneId'
  BY <1>3 DEF XInv, OneId
<1>6. Shells'
  <2>1. ASSUME NEW g \in Handlers \ {h}, req[g].pc = "tag"
        PROVE  /\ req[g].order \in Orders \ {o} /\ order[req[g].order].for = req[g].ext
               /\ order[req[g].order].st # "none"
    BY <1>1, <2>1 DEF XInv, Shells
  <2> QED BY <1>3, <1>4, <2>1 DEF Shells
<1>7. ASSUME NEW y \in Externals \ lost, NEW p \in Orders \ {o},
             order[p].for = y, order[p].st = "active"
      PROVE  Fed(p, y)'
  <2>1. Fed(p, y)
    BY <1>7 DEF XInv, Feeding, Active
  <2> QED BY <1>2, <1>3, <1>4, <2>1 DEF Fed
<1>8. Feeding'
  BY <1>2, <1>3, <1>4, <1>7 DEF Feeding, Active, Fed
<1> QED BY <1>3, <1>5, <1>6, <1>8

LEMMA TagFeeds ==
  ASSUME XInv, NEW h \in Handlers, Tag(h) PROVE Checks' /\ OneId' /\ Shells' /\ Feeding'
<1>1. PICK o, x : o = req[h].order /\ x = req[h].ext
  OBVIOUS
<1>2. /\ DOMAIN req = Handlers /\ Checks /\ req[h].pc = "tag" /\ lost' = lost
      /\ DOMAIN req[h] = {"pc", "order", "table", "from", "booking", "st", "ext"}
      /\ o \in Orders /\ order[o].for = x /\ order[o].st # "none"
  BY <1>1 DEF XInv, IInv, Shape, Shells, Tag, ghosts
<1>3. \A g \in Handlers \ {h} : req'[g] = req[g]
  BY <1>2 DEF Tag, Go, Finish
<1>4. CASE \E p \in Orders : order[p].ext = x
  <2>1. /\ order' = [order EXCEPT ![o].st = "CANCELLED"] /\ req' = [req EXCEPT ![h] = Idle]
    BY <1>1, <1>4 DEF Tag, Finish
  <2>2. /\ order'[o].st = "CANCELLED" /\ Checks' /\ req'[h].pc = "idle"
        /\ \A p \in Orders \ {o} : order'[p] = order[p]
        /\ \A p \in Orders : order'[p].ext = order[p].ext /\ order'[p].for = order[p].for
    BY <1>2, <2>1 DEF Checks, Idle
  <2>3. OneId' /\ Shells'
    BY <1>3, <2>2 DEF XInv, OneId, Shells
  <2>4. ASSUME NEW y \in Externals \ lost, NEW p \in Orders \ {o},
               order[p].for = y, order[p].st = "active"
        PROVE  Fed(p, y)'
    <3>1. Fed(p, y)
      BY <2>4 DEF XInv, Feeding, Active
    <3> QED BY <1>1, <1>2, <1>3, <2>2, <3>1 DEF Fed
  <2>5. Feeding'
    BY <1>2, <2>2, <2>4 DEF Feeding, Active
  <2> QED BY <2>2, <2>3, <2>5
<1>5. CASE \A p \in Orders : order[p].ext # x
  <2>1. /\ order' = [order EXCEPT ![o].ext = x] /\ req' = [req EXCEPT ![h].pc = "items"]
    BY <1>1, <1>5 DEF Tag, Go
  <2>2. /\ order'[o].ext = x /\ order'[o].st = order[o].st /\ order'[o].for = order[o].for /\ Checks'
        /\ \A p \in Orders \ {o} : order'[p] = order[p]
        /\ req'[h].pc = "items" /\ req'[h].order = o /\ req'[h].ext = x
    BY <1>1, <1>2, <2>1 DEF Checks
  <2>3. OneId'
    BY <1>5, <2>2 DEF XInv, OneId
  <2>4. Shells'
    BY <1>3, <2>2 DEF XInv, Shells
  <2>5. ASSUME NEW y \in Externals \ lost, NEW p \in Orders \ {o},
               order[p].for = y, order[p].st = "active"
        PROVE  Fed(p, y)'
    <3>1. Fed(p, y)
      BY <2>5 DEF XInv, Feeding, Active
    <3> QED BY <1>1, <1>2, <1>3, <2>2, <3>1 DEF Fed
  <2>6. Fed(o, x)'
    BY <2>2 DEF Fed
  <2>7. Feeding'
    BY <1>2, <2>2, <2>5, <2>6 DEF Feeding, Active
  <2> QED BY <2>2, <2>3, <2>4, <2>7
<1> QED BY <1>4, <1>5

LEMMA AddItemsFeeds ==
  ASSUME XInv, NEW h \in Handlers, AddItems(h) PROVE Checks' /\ OneId' /\ Shells' /\ Feeding'
<1>1. PICK o : o = req[h].order
  OBVIOUS
<1>2. /\ DOMAIN req = Handlers /\ Checks /\ req[h].pc = "items" /\ lost' = lost
      /\ order' = [order EXCEPT ![o].items = TRUE] /\ req' = [req EXCEPT ![h] = Idle]
  BY <1>1 DEF XInv, IInv, Shape, AddItems, Finish, ghosts
<1>3. /\ Checks' /\ \A p \in Orders : /\ order'[p].ext = order[p].ext /\ order'[p].for = order[p].for
                                      /\ order'[p].st = order[p].st
                                      /\ IF p = o THEN order'[p].items ELSE order'[p] = order[p]
  BY <1>2 DEF Checks, Idle
<1>4. req'[h].pc = "idle" /\ \A g \in Handlers \ {h} : req'[g] = req[g]
  BY <1>2 DEF Idle
<1>5. OneId' /\ Shells'
  BY <1>3, <1>4 DEF XInv, OneId, Shells
<1>6. ASSUME NEW y \in Externals \ lost, NEW p \in Orders,
             order[p].for = y, order[p].st = "active"
      PROVE  Fed(p, y)'
  <2>1. Fed(p, y)
    BY <1>6 DEF XInv, Feeding, Active
  <2> QED BY <1>1, <1>2, <1>3, <1>4, <2>1 DEF Fed
<1>7. Feeding'
  BY <1>2, <1>3, <1>6 DEF Feeding, Active
<1> QED BY <1>3, <1>5, <1>7

LEMMA StopFeeds ==
  ASSUME XInv, NEW h \in Handlers, Stop(h) PROVE Checks' /\ OneId' /\ Shells' /\ Feeding'
<1>1. /\ DOMAIN req = Handlers /\ order' = order /\ lost' = lost \cup ({req[h].ext} \cap Externals)
      /\ req' = [req EXCEPT ![h] = Idle]
  BY DEF XInv, IInv, Shape, Stop, Finish, rows
<1>2. req'[h].pc = "idle" /\ \A g \in Handlers \ {h} : req'[g] = req[g]
  BY <1>1 DEF Idle
<1>3. Checks' /\ OneId' /\ Shells'
  BY <1>1, <1>2 DEF XInv, Checks, OneId, Shells
<1>4. ASSUME NEW y \in Externals \ lost', NEW p \in Orders,
             order[p].for = y, order[p].st = "active"
      PROVE  Fed(p, y)'
  <2>1. y # req[h].ext /\ y \in Externals \ lost
    BY <1>1
  <2>2. Fed(p, y)
    BY <1>4, <2>1 DEF XInv, Feeding, Active
  <2> QED BY <1>1, <1>2, <2>1, <2>2 DEF Fed
<1>5. Feeding'
  BY <1>1, <1>4 DEF Feeding, Active
<1> QED BY <1>3, <1>5

LEMMA NextKeepsXInv == XInv /\ [Next]_vars => XInv'
<1> SUFFICES ASSUME XInv, [Next]_vars PROVE XInv'
  OBVIOUS
<1>0. IInv'
  BY NextKeepsIInv DEF XInv
<1>1. CASE Aside
  BY <1>0, <1>1, AsideKeeps DEF XInv, Aside
<1>2. ASSUME NEW h \in Handlers, Floor(h) \/ Desk(h) PROVE XInv'
  BY <1>1, <1>2, FloorAside, DeskAside
<1>3. ASSUME NEW h \in Handlers, Platform(h) PROVE XInv'
  <2>1. ASSUME NEW x \in Externals, LoadIngest(h, x) PROVE Aside
    BY <2>1, ServeAside DEF LoadIngest, Idle, Feeds, rows
  <2> QED BY <1>0, <1>1, <1>3, <2>1, CreateShellFeeds, TagFeeds, AddItemsFeeds DEF Platform, XInv
<1>4. ASSUME NEW h \in Handlers, Stop(h) PROVE XInv'
  BY <1>0, <1>4, StopFeeds DEF XInv
<1>5. ASSUME NEW b \in Bookings, GuestConfirms(b) PROVE XInv'
  <2>1. Aside
    BY <1>5 DEF GuestConfirms, Aside, Same, XInv, Checks
  <2> QED BY <1>1, <2>1
<1>6. CASE UNCHANGED vars
  <2>1. Aside
    BY <1>6 DEF vars, rows, ghosts, Aside, Same, XInv, Checks
  <2> QED BY <1>1, <2>1
<1> QED BY <1>2, <1>3, <1>4, <1>5, <1>6 DEF Next

\* A platform's order, sent however often and at once, is one open check, under
\* its id and with its items; unless a request stopped on it.
THEOREM PlatformOrderOnce == Spec => []IngestedOnce
<1>1. XInv => IngestedOnce
  <2> SUFFICES ASSUME XInv, NEW x \in Externals \ lost, \A h \in Handlers : req[h].ext # x
               PROVE  LET made == {o \in Orders : order[o].for = x /\ Active(o)} IN
                      Cardinality(made) <= 1 /\ \A o \in made : order[o].ext = x /\ order[o].items
    BY DEF IngestedOnce
  <2> DEFINE made == {o \in Orders : order[o].for = x /\ Active(o)}
  <2>1. ASSUME NEW o \in made PROVE order[o].ext = x /\ order[o].items
    <3>1. Fed(o, x)
      BY DEF XInv, Feeding
    <3> QED BY <3>1 DEF Fed
  <2>2. ASSUME NEW o \in made, NEW p \in made PROVE o = p
    BY <2>1, FloorConstants DEF XInv, OneId
  <2>3. CASE made = {}
    BY <2>3, FS_EmptySet
  <2>4. ASSUME made # {} PROVE Cardinality(made) = 1
    <3>1. PICK o \in made : TRUE
      BY <2>4
    <3>2. made = {o}
      BY <2>2, <3>1
    <3> QED BY <3>2, FS_Singleton
  <2>5. Cardinality(made) <= 1
    BY <2>3, <2>4
  <2> QED BY <2>1, <2>5
<1> QED BY InitXInv, NextKeepsXInv, <1>1, PTL DEF Spec

-----------------------------------------------------------------------------
(***************************************************************************)
(* Tables and the checks at them.                                          *)
(***************************************************************************)
\* One check at most is at the table, and the table is marked so.
One(t) == \A o, p \in At(t) : o = p
Settled(t) == One(t) /\ (table[t] = "OCCUPIED" <=> At(t) # {})

\* What a request q that has the table knows of it, until it writes.
AtTable(q, t) ==
  /\ q.pc \in {"open", "transfer", "reserve", "look", "free", "book", "lookReserve",
               "seat", "lookOpen"}
  /\ q.pc \in {"open", "transfer", "reserve"} => At(t) = {}
  /\ q.pc = "transfer" => Active(q.order)
  /\ q.pc \in {"look", "free", "book", "lookReserve", "seat"} => Settled(t)
  /\ q.pc = "lookOpen" => One(t) /\ table[t] = "OCCUPIED"

\* The same for the table it takes a check away from, or may free.
FromTable(q, t) ==
  /\ q.pc \in {"transfer", "merge", "close", "look", "free"}
  /\ q.pc \in {"transfer", "merge", "close"} => At(t) \subseteq {q.order}
  /\ q.pc = "look" => Settled(t) \/ At(t) = {}
  /\ q.pc = "free" => At(t) = {}

Works(h, t) == req[h].table = t \/ req[h].from = t

\* One request at a time works on a table, no other has its check, and while
\* none does the table is settled.
Tended(t) ==
  /\ \A g, h \in Handlers : Works(g, t) /\ Works(h, t) => g = h
  /\ \A g, h \in Handlers :
       Works(g, t) /\ req[g].order # None /\ req[h].order = req[g].order => g = h
  /\ Settled(t) \/ \E h \in Handlers : Works(h, t)
  /\ \A h \in Handlers : /\ req[h].table = t => AtTable(req[h], t)
                         /\ req[h].from = t => FromTable(req[h], t)

Moves == {"transfer", "merge", "close", "tag"}

\* What a request holds: its check was made, and is where it was read to be.
Known(q) ==
  /\ q.order # None => q.order \in Orders /\ order[q.order].st # "none"
  /\ q.table = q.from => q.table = None
  /\ q.pc \in Moves =>
       /\ q.order \in Orders
       /\ order[q.order].table \in Tables \ torn => order[q.order].table = q.from
  /\ q.pc \in {"tag", "merge", "close", "shell"} => q.table = None
  /\ q.pc \in {"tag", "shell"} => q.from = None

Floors ==
  /\ DOMAIN table = Tables
  /\ \A h \in Handlers : Known(req[h])
  /\ \A t \in Tables \ torn : Tended(t)

TInv == XInv /\ Floors

Only(h) == \A g \in Handlers \ {h} : req'[g] = req[g]

\* A request of h ends or goes on to a later step.
Goes(h) ==
  /\ Only(h)
  /\ \/ req'[h] = Idle
     \/ /\ req'[h].table = req[h].table /\ req'[h].from = req[h].from
        /\ req'[h].order = req[h].order /\ req'[h].pc \notin Moves \cup {"shell"}

\* No check of anyone's is moved or unmade.
Lasting ==
  \A o \in Orders : order[o].st # "none" =>
    order'[o].st # "none" /\ order'[o].table = order[o].table

LEMMA InitTInv == Init => TInv
<1> SUFFICES ASSUME Init PROVE TInv
  OBVIOUS
<1>1. XInv /\ DOMAIN table = Tables
  BY InitXInv DEF Init
<1>2. \A h \in Handlers : Known(req[h])
  BY DEF Init, Known, Idle, Moves
<1>3. \A t \in Tables : At(t) = {}
  BY DEF Init, At, Active, NoOrder
<1>4. \A t \in Tables : Settled(t)
  BY <1>3 DEF Init, Settled, One
<1>5. \A t \in Tables : Tended(t)
  BY <1>4, FloorConstants DEF Init, Tended, Works, Idle
<1> QED BY <1>1, <1>2, <1>5 DEF TInv, Floors

LEMMA MineTended ==
  ASSUME NEW h \in Handlers, NEW t \in Tables, Tended(t), Works(h, t), Only(h),
         \/ req'[h] = Idle /\ Settled(t)'
         \/ /\ req'[h].table = req[h].table /\ req'[h].from = req[h].from
            /\ req'[h].order = req[h].order
            /\ req[h].table = t => AtTable(req[h], t)'
            /\ req[h].from = t => FromTable(req[h], t)'
  PROVE  Tended(t)'
<1>1. t # None
  BY FloorConstants
<1>2. \A g \in Handlers \ {h} : ~Works(g, t) /\ ~Works(g, t)'
  BY DEF Tended, Only, Works
<1>3. CASE req'[h] = Idle /\ Settled(t)'
  <2>1. ~Works(h, t)'
    BY <1>1, <1>3 DEF Idle, Works
  <2>2. \A g \in Handlers : req'[g].table # t /\ req'[g].from # t
    BY <1>2, <2>1 DEF Works
  <2> QED BY <1>3, <2>2 DEF Tended, Works
<1>4. CASE /\ req'[h].table = req[h].table /\ req'[h].from = req[h].from
           /\ req'[h].order = req[h].order
           /\ req[h].table = t => AtTable(req[h], t)'
           /\ req[h].from = t => FromTable(req[h], t)'
  <2>1. Works(h, t)'
    BY <1>4 DEF Works
  <2>2. \A f, g \in Handlers : Works(f, t)' /\ Works(g, t)' => f = g
    BY <1>2
  <2>3. \A f, g \in Handlers :
          Works(f, t)' /\ req'[f].order # None /\ req'[g].order = req'[f].order => f = g
    BY <1>2, <1>4 DEF Tended, Only
  <2>4. \A g \in Handlers : /\ req'[g].table = t => AtTable(req[g], t)'
                            /\ req'[g].from = t => FromTable(req[g], t)'
    BY <1>2, <1>4 DEF Works
  <2> QED BY <2>1, <2>2, <2>3, <2>4 DEF Tended
<1> QED BY <1>3, <1>4

\* A step on other tables.
LEMMA OtherTended ==
  ASSUME NEW h \in Handlers, NEW t \in Tables, Tended(t), Only(h),
         ~Works(h, t), ~Works(h, t)', At(t)' = At(t), table'[t] = table[t],
         \A g \in Handlers \ {h} :
           Works(g, t) /\ req[g].order # None => req'[h].order # req[g].order,
         \A g \in Handlers \ {h} :
           Works(g, t) /\ req[g].pc = "transfer" /\ Active(req[g].order)
             => order'[req[g].order].st = "active"
  PROVE  Tended(t)'
<1>1. Settled(t)' <=> Settled(t)
  BY DEF Settled, One
<1>2. One(t)' <=> One(t)
  BY DEF One
<1>3. \A g \in Handlers \ {h} : Works(g, t)' <=> Works(g, t)
  BY DEF Only, Works
<1>4. \A f, g \in Handlers : Works(f, t)' /\ Works(g, t)' => f = g
  BY <1>3 DEF Tended
<1>5. \A f, g \in Handlers :
        Works(f, t)' /\ req'[f].order # None /\ req'[g].order = req'[f].order => f = g
  BY <1>3 DEF Tended, Only
<1>6. Settled(t)' \/ \E g \in Handlers : Works(g, t)'
  BY <1>1, <1>3 DEF Tended
<1>7. ASSUME NEW g \in Handlers, req'[g].table = t PROVE AtTable(req[g], t)'
  <2>1. g # h /\ req'[g] = req[g] /\ Works(g, t) /\ AtTable(req[g], t)
    BY <1>7 DEF Works, Only, Tended
  <2> QED BY <1>1, <1>2, <2>1 DEF AtTable, Active
<1>8. ASSUME NEW g \in Handlers, req'[g].from = t PROVE FromTable(req[g], t)'
  <2>1. g # h /\ req'[g] = req[g] /\ FromTable(req[g], t)
    BY <1>8 DEF Works, Only, Tended
  <2> QED BY <1>1, <2>1 DEF FromTable
<1> QED BY <1>4, <1>5, <1>6, <1>7, <1>8 DEF Tended

\* The same for a request that only goes on.
LEMMA OtherGoes ==
  ASSUME TInv, NEW h \in Handlers, NEW t \in Tables \ torn, Goes(h), ~Works(h, t),
         At(t)' = At(t), table'[t] = table[t],
         \A p \in Orders \ {req[h].order} : Active(p) => order'[p].st = "active"
  PROVE  Tended(t)'
<1>1. Tended(t) /\ t # None /\ Only(h)
  BY FloorConstants DEF TInv, Floors, Goes
<1>2. ~Works(h, t)'
  BY <1>1 DEF Goes, Works, Idle
<1>3. \A g \in Handlers \ {h} :
        Works(g, t) /\ req[g].order # None => req[h].order # req[g].order
  BY <1>1 DEF Tended
<1>4. \A g \in Handlers \ {h} :
        Works(g, t) /\ req[g].order # None => req'[h].order # req[g].order
  BY <1>3 DEF Goes, Idle
<1>5. ASSUME NEW g \in Handlers \ {h}, Works(g, t), req[g].pc = "transfer", Active(req[g].order)
      PROVE  order'[req[g].order].st = "active"
  <2>1. req[g].order \in Orders /\ req[g].order # None
    BY <1>5, FloorConstants DEF TInv, Floors, Known, Moves
  <2> QED BY <1>3, <1>5, <2>1
<1> QED BY <1>1, <1>2, <1>4, <1>5, OtherTended

LEMMA KnownLasts ==
  ASSUME NEW q, Known(q), Lasting, torn \subseteq torn' PROVE Known(q)'
  BY FloorConstants DEF Known, Lasting

LEMMA GoesKnown ==
  ASSUME TInv, NEW h \in Handlers, Goes(h), Lasting, torn \subseteq torn'
  PROVE  \A g \in Handlers : Known(req[g])'
<1> SUFFICES ASSUME NEW g \in Handlers PROVE Known(req[g])'
  OBVIOUS
<1>1. PICK q : q = req[g]
  OBVIOUS
<1>2. Known(q)'
  BY <1>1, KnownLasts DEF TInv, Floors
<1>3. CASE g # h
  BY <1>1, <1>2, <1>3 DEF Goes, Only
<1>4. CASE g = h /\ req'[h] = Idle
  BY <1>4 DEF Known, Idle, Moves
<1>5. CASE g = h /\ req'[h] # Idle
  BY <1>1, <1>2, <1>5 DEF Goes, Known, Moves
<1> QED BY <1>3, <1>4, <1>5

\* A request begins.
LEMMA ServeKeeps ==
  ASSUME TInv, NEW h \in Handlers, NEW r, Serve(h, r), UNCHANGED <<table, order>>, Known(r),
         \A t \in Tables : Settled(t) => /\ r.table = t => AtTable(r, t)
                                         /\ r.from = t => FromTable(r, t)
  PROVE  Floors'
<1>1. /\ DOMAIN req = Handlers /\ req[h].pc = "idle" /\ req'[h] = r /\ Only(h)
      /\ torn \subseteq torn' /\ Lasting
  BY DEF TInv, XInv, IInv, Shape, Serve, Only, Lasting
<1>2. ASSUME NEW g \in Handlers PROVE Known(req[g])'
  <2>1. PICK q : q = req'[g]
    OBVIOUS
  <2>2. Known(q)
    BY <1>1, <2>1 DEF TInv, Floors, Only
  <2> QED BY <1>1, <2>1, <2>2, KnownLasts DEF Known
<1>3. ASSUME NEW t \in Tables \ torn' PROVE Tended(t)'
  <2>1. t \in Tables \ torn /\ t # None /\ Tended(t)
    BY <1>1, FloorConstants DEF TInv, Floors
  <2>2. ~Works(h, t)
    BY <1>1, <2>1 DEF Works, Tended, AtTable, FromTable
  <2>3. At(t)' = At(t) /\ (Settled(t)' <=> Settled(t)) /\ (One(t)' <=> One(t)) /\ table' = table
    BY DEF At, Active, Settled, One
  <2> DEFINE mine == {r.table, r.from} \cap Tables
             met == {g \in Handlers : \/ Has(g) \cap mine # {}
                                      \/ r.order # None /\ req[g].order = r.order}
  <2>4. torn' = IF met = {} THEN torn ELSE torn \cup mine \cup UNION {Has(g) : g \in met}
    BY DEF Serve
  <2>5. \A g \in Handlers : Works(g, t) <=> t \in Has(g)
    BY DEF Works, Has
  <2>6. CASE r.table = t \/ r.from = t
    <3>1. t \in mine /\ met = {}
      BY <2>4, <2>6
    <3>2. \A g \in Handlers : ~Works(g, t) /\ (r.order # None => req[g].order # r.order)
      BY <2>5, <3>1
    <3>3. \A g \in Handlers \ {h} : ~Works(g, t)'
      BY <1>1, <3>2 DEF Works, Only
    <3>4. Works(h, t)' /\ Settled(t)
      BY <1>1, <2>1, <2>6, <3>2 DEF Works, Tended
    <3>5. /\ r.table = t => AtTable(r, t)
          /\ r.from = t => FromTable(r, t)
      BY <3>4
    <3>6. /\ req'[h].table = t => AtTable(req[h], t)'
          /\ req'[h].from = t => FromTable(req[h], t)'
      BY <1>1, <2>3, <3>5 DEF AtTable, FromTable, Active
    <3>7. \A f, g \in Handlers :
            Works(f, t)' /\ req'[f].order # None /\ req'[g].order = req'[f].order => f = g
      BY <1>1, <3>2, <3>3 DEF Only
    <3>8. \A f, g \in Handlers : Works(f, t)' /\ Works(g, t)' => f = g
      BY <3>3
    <3>9. \A g \in Handlers : /\ req'[g].table = t => AtTable(req[g], t)'
                              /\ req'[g].from = t => FromTable(req[g], t)'
      BY <3>3, <3>6 DEF Works
    <3> QED BY <3>4, <3>7, <3>8, <3>9 DEF Tended
  <2>7. CASE ~(r.table = t \/ r.from = t)
    <3>1. ~Works(h, t)'
      BY <1>1, <2>7 DEF Works
    <3>2. ASSUME NEW g \in Handlers \ {h}, Works(g, t), req[g].order # None, r.order = req[g].order
          PROVE  FALSE
      <4>1. g \in met /\ t \in Has(g)
        BY <2>5, <3>2
      <4> QED BY <2>4, <4>1
    <3>3. \A g \in Handlers \ {h} :
            Works(g, t) /\ req[g].pc = "transfer" /\ Active(req[g].order)
              => order'[req[g].order].st = "active"
      BY DEF Active
    <3> QED BY <1>1, <2>1, <2>2, <2>3, <3>1, <3>2, <3>3, OtherTended
  <2> QED BY <2>6, <2>7
<1> QED BY <1>2, <1>3 DEF Floors, TInv

\* Loads: what a request has read when it begins.
LEMMA OpenLoads ==
  ASSUME TInv, NEW h \in Handlers, NEW t \in Tables,
         LoadOpen(h, t) \/ \E o \in Orders : LoadSplit(h, o, t)
  PROVE  Floors'
<1>1. t # None
  BY FloorConstants
<1>2. PICK r : r = [Idle EXCEPT !.pc = "open", !.table = t]
  OBVIOUS
<1>3. r.pc = "open" /\ r.table = t /\ r.from = None /\ r.order = None
  BY <1>2 DEF Idle
<1>4. Serve(h, r) /\ UNCHANGED <<table, order>> /\ At(t) = {}
  BY <1>2 DEF LoadOpen, LoadSplit, rows
<1>5. Known(r) /\ AtTable(r, t)
  BY <1>1, <1>3, <1>4 DEF Known, AtTable, Moves
<1> QED BY <1>3, <1>4, <1>5, ServeKeeps, FloorConstants

LEMMA FloorLoads ==
  ASSUME TInv, NEW h \in Handlers, NEW o \in Orders,
         \/ \E t \in Tables : LoadSplit(h, o, t) \/ LoadTransfer(h, o, t)
         \/ LoadMerge(h, o) \/ LoadClose(h, o)
  PROVE  Floors'
<1>0. \A t \in Tables : t # None
  BY FloorConstants
<1>1. ASSUME NEW t \in Tables, LoadSplit(h, o, t) PROVE Floors'
  BY <1>1, OpenLoads
<1>2. ASSUME NEW t \in Tables, LoadTransfer(h, o, t) PROVE Floors'
  <2>1. PICK r : r = [Idle EXCEPT !.pc = "transfer", !.order = o, !.table = t, !.from = order[o].table]
    OBVIOUS
  <2>2. r.pc = "transfer" /\ r.table = t /\ r.from = order[o].table /\ r.order = o
    BY <2>1 DEF Idle
  <2>3. /\ Serve(h, r) /\ UNCHANGED <<table, order>> /\ At(t) = {} /\ Active(o)
        /\ order[o].table # t
    BY <1>2, <2>1 DEF LoadTransfer, rows
  <2>4. Known(r) /\ AtTable(r, t)
    BY <2>2, <2>3 DEF Known, AtTable, Moves, Active
  <2>5. ASSUME NEW u \in Tables, Settled(u), r.from = u PROVE FromTable(r, u)
    <3>1. o \in At(u)
      BY <2>2, <2>3, <2>5 DEF At
    <3> QED BY <2>2, <2>5, <3>1 DEF FromTable, Settled, One
  <2> QED BY <2>2, <2>3, <2>4, <2>5, ServeKeeps
<1>3. ASSUME NEW r, r.pc \in {"merge", "close"}, r.table = None, r.from = order[o].table,
             r.order = o, Serve(h, r), UNCHANGED <<table, order>>, Active(o)
      PROVE  Floors'
  <2>1. Known(r)
    BY <1>3 DEF Known, Moves, Active
  <2>2. ASSUME NEW u \in Tables, Settled(u), r.from = u PROVE FromTable(r, u)
    <3>1. o \in At(u)
      BY <1>3, <2>2 DEF At
    <3> QED BY <1>3, <2>2, <3>1 DEF FromTable, Settled, One
  <2> QED BY <1>0, <1>3, <2>1, <2>2, ServeKeeps
<1>4. CASE LoadMerge(h, o) \/ LoadClose(h, o)
  <2>1. CASE LoadMerge(h, o)
    <3>1. PICK r : r = [Idle EXCEPT !.pc = "merge", !.order = o, !.from = order[o].table]
      OBVIOUS
    <3>2. r.pc = "merge" /\ r.table = None /\ r.from = order[o].table /\ r.order = o
      BY <3>1 DEF Idle
    <3>3. Serve(h, r) /\ UNCHANGED <<table, order>> /\ Active(o)
      BY <2>1, <3>1 DEF LoadMerge, rows
    <3> QED BY <1>3, <3>2, <3>3
  <2>2. CASE LoadClose(h, o)
    <3>1. PICK st \in {"CLOSED", "CANCELLED"} :
            Serve(h, [Idle EXCEPT !.pc = "close", !.order = o, !.from = order[o].table, !.st = st])
      BY <2>2 DEF LoadClose
    <3>2. PICK r : r = [Idle EXCEPT !.pc = "close", !.order = o, !.from = order[o].table, !.st = st]
      OBVIOUS
    <3>3. r.pc = "close" /\ r.table = None /\ r.from = order[o].table /\ r.order = o
      BY <3>2 DEF Idle
    <3>4. Serve(h, r) /\ UNCHANGED <<table, order>> /\ Active(o)
      BY <2>2, <3>1, <3>2 DEF LoadClose, rows
    <3> QED BY <1>3, <3>3, <3>4
  <2> QED BY <1>4, <2>1, <2>2
<1> QED BY <1>1, <1>2, <1>4

LEMMA DeskLoads ==
  ASSUME TInv, NEW h \in Handlers, NEW b \in Bookings,
         \/ \E t \in Tables : LoadBooking(h, b, t)
         \/ Confirm(h, b) \/ SeatGuests(h, b) \/ CancelBooking(h, b)
  PROVE  Floors'
<1>0. \A t \in Tables : t # None
  BY FloorConstants
<1>1. ASSUME NEW r, Serve(h, r), UNCHANGED <<table, order>>, r.order = None,
             \/ r.pc \in {"book", "lookReserve", "seat"} /\ r.from = None
             \/ r.pc = "look" /\ r.table = None
      PROVE  Floors'
  <2>1. Known(r)
    BY <1>1 DEF Known, Moves
  <2>2. \A t \in Tables : Settled(t) => /\ r.table = t => AtTable(r, t)
                                        /\ r.from = t => FromTable(r, t)
    BY <1>0, <1>1 DEF AtTable, FromTable
  <2> QED BY <1>1, <2>1, <2>2, ServeKeeps
<1>2. ASSUME NEW t \in Tables, LoadBooking(h, b, t) PROVE Floors'
  <2>1. PICK r : r = Booking(h, b, t)
    OBVIOUS
  <2>2. r.pc = "book" /\ r.from = None /\ r.order = None
    BY <2>1 DEF Booking, Idle
  <2> QED BY <1>1, <1>2, <2>1, <2>2 DEF LoadBooking, rows
<1>3. ASSUME Confirm(h, b) \/ SeatGuests(h, b) PROVE Floors'
  <2>1. PICK pc, st : pc \in {"lookReserve", "seat"} /\ SetBooking(h, b, st, pc)
    BY <1>3 DEF Confirm, SeatGuests
  <2>2. PICK r : r = [Idle EXCEPT !.pc = pc, !.booking = b, !.table = booking[b].table]
    OBVIOUS
  <2>3. r.pc = pc /\ r.from = None /\ r.order = None
    BY <2>2 DEF Idle
  <2>4. Serve(h, r)
    <3>1. CASE pc = "lookReserve"
      BY <2>1, <2>2, <3>1 DEF SetBooking
    <3>2. CASE pc = "seat"
      BY <2>1, <2>2, <3>2 DEF SetBooking
    <3> QED BY <2>1, <3>1, <3>2
  <2>5. UNCHANGED <<table, order>>
    BY <2>1 DEF SetBooking
  <2> QED BY <1>1, <2>1, <2>3, <2>4, <2>5
<1>4. ASSUME CancelBooking(h, b) PROVE Floors'
  <2>2. PICK r : r = [Idle EXCEPT !.pc = "look", !.booking = b, !.from = booking[b].table]
    OBVIOUS
  <2>3. r.pc = "look" /\ r.table = None /\ r.order = None
    BY <2>2 DEF Idle
  <2>4. Serve(h, r) /\ UNCHANGED <<table, order>>
    BY <1>4, <2>2 DEF CancelBooking, SetBooking
  <2> QED BY <1>1, <2>3, <2>4
<1> QED BY <1>2, <1>3, <1>4

LEMMA IngestLoads ==
  ASSUME TInv, NEW h \in Handlers, NEW x \in Externals, LoadIngest(h, x) PROVE Floors'
<1>1. PICK r : r = [Idle EXCEPT !.pc = "shell", !.ext = x]
  OBVIOUS
<1>2. r.pc = "shell" /\ r.table = None /\ r.from = None /\ r.order = None
  BY <1>1 DEF Idle
<1>3. Serve(h, r) /\ UNCHANGED <<table, order>>
  BY <1>1 DEF LoadIngest, rows
<1>4. Known(r)
  BY <1>2 DEF Known, Moves
<1> QED BY <1>2, <1>3, <1>4, ServeKeeps, FloorConstants

-----------------------------------------------------------------------------
\* Steps that write. What is at a table:
LEMMA SameAt ==
  ASSUME NEW t, \A o \in Orders : (order'[o].st = "active" /\ order'[o].table = t)
                                    <=> (order[o].st = "active" /\ order[o].table = t)
  PROVE  At(t)' = At(t)
  BY DEF At, Active

\* A request about to move or end a check knows it is at none of the others' tables.
LEMMA NotAt ==
  ASSUME TInv, NEW h \in Handlers, req[h].pc \in Moves, NEW t \in Tables \ torn, ~Works(h, t)
  PROVE  req[h].order \in Orders /\ order[req[h].order].table # t
  BY DEF TInv, Floors, Known, Works

\* What is left to prove of a request that goes on.
LEMMA GoesKeeps ==
  ASSUME TInv, NEW h \in Handlers, Goes(h), torn' = torn, Lasting,
         DOMAIN table' = Tables,
         \A t \in Tables \ torn : Works(h, t) =>
           \/ req'[h] = Idle /\ Settled(t)'
           \/ /\ req'[h].table = req[h].table /\ req'[h].from = req[h].from
              /\ req'[h].order = req[h].order
              /\ req[h].table = t => AtTable(req[h], t)'
              /\ req[h].from = t => FromTable(req[h], t)',
         \A t \in Tables \ torn : ~Works(h, t) =>
           /\ At(t)' = At(t) /\ table'[t] = table[t]
           /\ \A p \in Orders \ {req[h].order} : Active(p) => order'[p].st = "active"
  PROVE  Floors'
<1>1. \A g \in Handlers : Known(req[g])'
  BY GoesKnown
<1>2. ASSUME NEW t \in Tables \ torn PROVE Tended(t)'
  <2>1. Tended(t) /\ Only(h)
    BY DEF TInv, Floors, Goes
  <2>2. CASE Works(h, t)
    <3>1. \/ req'[h] = Idle /\ Settled(t)'
          \/ /\ req'[h].table = req[h].table /\ req'[h].from = req[h].from
             /\ req'[h].order = req[h].order
             /\ req[h].table = t => AtTable(req[h], t)'
             /\ req[h].from = t => FromTable(req[h], t)'
      BY <2>2
    <3> QED BY <2>1, <2>2, <3>1, MineTended
  <2>3. CASE ~Works(h, t)
    BY <2>3, OtherGoes
  <2> QED BY <2>2, <2>3
<1> QED BY <1>1, <1>2 DEF Floors

\* Where the request of h is: its own tables, its next step, the rows.
LEMMA Here ==
  ASSUME TInv, NEW h \in Handlers
  PROVE  /\ DOMAIN req = Handlers /\ DOMAIN table = Tables /\ DOMAIN order = Orders
         /\ DOMAIN req[h] = {"pc", "order", "table", "from", "booking", "st", "ext"}
         /\ \A o \in Orders : DOMAIN order[o] = {"st", "table", "ext", "for", "items"}
         /\ Known(req[h]) /\ \A t \in Tables : t # None
         /\ \A t \in Tables \ torn : /\ req[h].table = t => AtTable(req[h], t)
                                     /\ req[h].from = t => FromTable(req[h], t)
  BY FloorConstants DEF TInv, XInv, IInv, Shape, Checks, Floors, Tended

LEMMA GoGoes ==
  ASSUME TInv, NEW h \in Handlers,
         \/ Finish(h)
         \/ \E pc \in {"look", "free", "lookReserve", "reserve", "lookOpen", "open", "items"} : Go(h, pc)
  PROVE  Goes(h)
  BY Here DEF Finish, Go, Goes, Only, Moves

LEMMA CreateOrderKeeps == ASSUME TInv, NEW h \in Handlers, CreateOrder(h) PROVE Floors'
<1>1. PICK o \in Orders :
        /\ order[o].st = "none"
        /\ order' = [order EXCEPT ![o] = [NoOrder EXCEPT !.st = "active", !.table = req[h].table]]
  BY DEF CreateOrder
<1>2. /\ req[h].pc = "open" /\ req'[h] = Idle /\ Goes(h) /\ torn' = torn
      /\ table' = [table EXCEPT ![req[h].table] = "OCCUPIED"]
  BY Here, GoGoes DEF CreateOrder, Finish, ghosts
<1>3. /\ order'[o].st = "active" /\ order'[o].table = req[h].table
      /\ \A p \in Orders \ {o} : order'[p] = order[p]
  BY <1>1, Here DEF NoOrder
<1>4. Lasting
  BY <1>1, <1>3 DEF Lasting
<1>5. ASSUME NEW t \in Tables \ torn, Works(h, t) PROVE Settled(t)'
  <2>1. req[h].table = t /\ At(t) = {}
    BY <1>2, <1>5, Here DEF Works, AtTable, FromTable
  <2>2. At(t)' = {o}
    BY <1>3, <2>1 DEF At, Active
  <2>3. table'[t] = "OCCUPIED"
    BY <1>2, <2>1, Here
  <2> QED BY <2>2, <2>3 DEF Settled, One
<1>6. ASSUME NEW t \in Tables \ torn, ~Works(h, t)
      PROVE  /\ At(t)' = At(t) /\ table'[t] = table[t]
             /\ \A p \in Orders : Active(p) => order'[p].st = "active"
  BY <1>1, <1>2, <1>3, <1>6, SameAt, Here DEF Works, Active
<1> QED BY <1>2, <1>4, <1>5, <1>6, GoesKeeps, Here

LEMMA MergeKeeps == ASSUME TInv, NEW h \in Handlers, Merge(h) PROVE Floors'
<1>1. PICK o : o = req[h].order
  OBVIOUS
<1>2. /\ req[h].pc = "merge" /\ Goes(h) /\ torn' = torn /\ table' = table
      /\ order' = [order EXCEPT ![o].st = "CANCELLED"] /\ o \in Orders
      /\ req[h].from # None => req' = [req EXCEPT ![h].pc = "look"]
  BY <1>1, Here, GoGoes DEF Merge, ghosts, Known, Moves, Go
<1>3. /\ order'[o].st = "CANCELLED" /\ \A p \in Orders \ {o} : order'[p] = order[p]
      /\ order'[o].table = order[o].table
  BY <1>2, Here
<1>4. Lasting
  BY <1>2, <1>3 DEF Lasting
<1>5. ASSUME NEW t \in Tables \ torn, Works(h, t)
      PROVE  /\ req'[h].table = req[h].table /\ req'[h].from = req[h].from
             /\ req'[h].order = req[h].order /\ req[h].table # t
             /\ req[h].from = t => FromTable(req[h], t)'
  <2>1. req[h].from = t /\ req[h].table # t /\ At(t) \subseteq {o}
    BY <1>1, <1>2, <1>5, Here DEF Works, Known, FromTable
  <2>2. At(t)' = {}
    BY <1>3, <2>1 DEF At, Active
  <2>3. req' = [req EXCEPT ![h].pc = "look"]
    BY <1>2, <2>1, Here
  <2> QED BY <2>1, <2>2, <2>3, Here DEF FromTable
<1>6. ASSUME NEW t \in Tables \ torn, ~Works(h, t)
      PROVE  /\ At(t)' = At(t) /\ table'[t] = table[t]
             /\ \A p \in Orders \ {o} : Active(p) => order'[p].st = "active"
  <2>1. order[o].table # t
    BY <1>1, <1>2, <1>6, NotAt DEF Moves
  <2> QED BY <1>2, <1>3, <2>1, SameAt DEF Active
<1> QED BY <1>1, <1>2, <1>4, <1>5, <1>6, GoesKeeps, Here

LEMMA CloseKeeps == ASSUME TInv, NEW h \in Handlers, Close(h) PROVE Floors'
<1>1. PICK o, st : o = req[h].order /\ st = req[h].st
  OBVIOUS
<1>2. /\ req[h].pc = "close" /\ Goes(h) /\ torn' = torn /\ st \in {"CLOSED", "CANCELLED"}
      /\ table' = IF req[h].from = None THEN table ELSE [table EXCEPT ![req[h].from] = "FREE"]
      /\ order' = [order EXCEPT ![o].st = st] /\ o \in Orders /\ req'[h] = Idle
  BY <1>1, Here, GoGoes DEF Close, Finish, ghosts, Known, Moves, TInv, XInv, Checks
<1>3. /\ order'[o].st = st /\ \A p \in Orders \ {o} : order'[p] = order[p]
      /\ order'[o].table = order[o].table
  BY <1>2, Here
<1>4. Lasting
  BY <1>2, <1>3 DEF Lasting
<1>5. ASSUME NEW t \in Tables \ torn, Works(h, t) PROVE Settled(t)'
  <2>1. req[h].from = t /\ At(t) \subseteq {o}
    BY <1>1, <1>2, <1>5, Here DEF Works, Known, FromTable
  <2>2. At(t)' = {}
    BY <1>2, <1>3, <2>1 DEF At, Active
  <2>3. table'[t] = "FREE"
    BY <1>2, <2>1, Here
  <2> QED BY <2>2, <2>3 DEF Settled, One
<1>6. ASSUME NEW t \in Tables \ torn, ~Works(h, t)
      PROVE  /\ At(t)' = At(t) /\ table'[t] = table[t]
             /\ \A p \in Orders \ {o} : Active(p) => order'[p].st = "active"
  <2>1. order[o].table # t
    BY <1>1, <1>2, <1>6, NotAt DEF Moves
  <2>2. table'[t] = table[t]
    BY <1>2, <1>6, Here DEF Works
  <2> QED BY <1>2, <1>3, <2>1, <2>2, SameAt DEF Active
<1>7. DOMAIN table' = Tables
  BY <1>2, Here
<1> QED BY <1>1, <1>2, <1>4, <1>5, <1>6, <1>7, GoesKeeps

LEMMA TransferKeeps == ASSUME TInv, NEW h \in Handlers, Transfer(h) PROVE Floors'
<1>1. PICK o, to : o = req[h].order /\ to = req[h].table
  OBVIOUS
<1>2. /\ req[h].pc = "transfer" /\ Goes(h) /\ torn' = torn
      /\ table' = [table EXCEPT ![to] = "OCCUPIED"]
      /\ order' = [order EXCEPT ![o].table = to] /\ o \in Orders
      /\ IF req[h].from = None THEN req'[h] = Idle ELSE req' = [req EXCEPT ![h].pc = "look"]
  BY <1>1, Here, GoGoes DEF Transfer, Finish, Go, ghosts, Known, Moves
<1>3. /\ order'[o].table = to /\ \A p \in Orders \ {o} : order'[p] = order[p]
      /\ order'[o].st = order[o].st
  BY <1>2, Here
<1>4. o # None /\ \A t \in Tables : t # None
  BY <1>2, FloorConstants
<1>5. ASSUME NEW g \in Handlers PROVE Known(req[g])'
  <2>1. PICK q : q = req[g]
    OBVIOUS
  <2>2. Known(q)
    BY <2>1 DEF TInv, Floors
  <2>3. CASE g = h
    BY <1>1, <1>2, <1>3, <2>1, <2>2, <2>3, Here DEF Goes, Known, Idle, Moves
  <2>4. CASE g # h /\ q.order # o
    BY <1>2, <1>3, <2>1, <2>2, <2>4 DEF Goes, Only, Known
  <2>5. CASE g # h /\ q.order = o
    <3>1. to \notin Tables \ torn
      <4>1. SUFFICES ASSUME to \in Tables \ torn PROVE FALSE
        OBVIOUS
      <4>2. Tended(to) /\ Works(h, to)
        BY <1>1, <4>1 DEF TInv, Floors, Works
      <4> QED BY <1>1, <1>4, <2>1, <2>5, <4>2 DEF Tended
    <3> QED BY <1>2, <1>3, <2>1, <2>2, <2>5, <3>1 DEF Goes, Only, Known
  <2> QED BY <2>3, <2>4, <2>5
<1>6. ASSUME NEW t \in Tables \ torn, req[h].table = t PROVE At(t)' = {o} /\ Settled(t)'
  <2>1. At(t) = {} /\ order[o].st = "active"
    BY <1>1, <1>2, <1>6, Here DEF AtTable, Active
  <2>2. At(t)' = {o}
    BY <1>1, <1>2, <1>3, <1>6, <2>1 DEF At, Active
  <2>3. table'[t] = "OCCUPIED"
    BY <1>1, <1>2, <1>6, Here
  <2> QED BY <2>2, <2>3 DEF Settled, One
<1>7. ASSUME NEW t \in Tables \ torn, req[h].from = t PROVE At(t)' = {}
  <2>1. At(t) \subseteq {o} /\ to # t
    BY <1>1, <1>2, <1>4, <1>7, Here DEF FromTable, Known
  <2> QED BY <1>3, <2>1 DEF At, Active
<1>8. ASSUME NEW t \in Tables \ torn, Works(h, t) PROVE Tended(t)'
  <2>1. Tended(t) /\ Only(h)
    BY <1>2 DEF TInv, Floors, Goes
  <2>2. CASE req[h].from = None
    <3>1. req'[h] = Idle /\ Settled(t)'
      BY <1>2, <1>4, <1>6, <1>8, <2>2 DEF Works
    <3> QED BY <1>8, <2>1, <3>1, MineTended
  <2>3. CASE req[h].from # None
    <3>1. /\ req'[h].table = req[h].table /\ req'[h].from = req[h].from
          /\ req'[h].order = req[h].order /\ req'[h].pc = "look"
      BY <1>2, <2>3, Here
    <3>2. req[h].table = t => AtTable(req[h], t)'
      BY <1>6, <3>1 DEF AtTable
    <3>3. req[h].from = t => FromTable(req[h], t)'
      BY <1>7, <3>1 DEF FromTable
    <3> QED BY <1>8, <2>1, <3>1, <3>2, <3>3, MineTended
  <2> QED BY <2>2, <2>3
<1>9. ASSUME NEW t \in Tables \ torn, ~Works(h, t) PROVE Tended(t)'
  <2>1. order[o].table # t /\ to # t
    BY <1>1, <1>2, <1>9, NotAt DEF Moves, Works
  <2>2. At(t)' = At(t)
    BY <1>3, <2>1, SameAt
  <2>3. table'[t] = table[t] /\ \A p \in Orders \ {req[h].order} : Active(p) => order'[p].st = "active"
    BY <1>1, <1>2, <1>3, <2>1, Here DEF Active
  <2> QED BY <1>2, <1>9, <2>2, <2>3, OtherGoes
<1> QED BY <1>2, <1>5, <1>8, <1>9, Here DEF Floors

\* Steps that leave every check as it is.
LEMMA LookingKeeps ==
  ASSUME TInv, NEW h \in Handlers,
         LookIdle(h) \/ CreateBooking(h) \/ LookReserve(h) \/ LookOpen(h)
  PROVE  Floors'
<1>1. Goes(h) /\ UNCHANGED <<table, order, torn>>
  BY GoGoes DEF LookIdle, CreateBooking, LookReserve, LookOpen, rows, ghosts
<1>2. Lasting /\ \A t : At(t)' = At(t) /\ (Settled(t)' <=> Settled(t)) /\ (One(t)' <=> One(t))
  BY <1>1 DEF Lasting, At, Active, Settled, One
<1>3. ASSUME NEW t \in Tables \ torn, Works(h, t)
      PROVE  \/ req'[h] = Idle /\ Settled(t)'
             \/ /\ req'[h].table = req[h].table /\ req'[h].from = req[h].from
                /\ req'[h].order = req[h].order
                /\ req[h].table = t => AtTable(req[h], t)'
                /\ req[h].from = t => FromTable(req[h], t)'
  <2>1. /\ req[h].table = t => AtTable(req[h], t)
        /\ req[h].from = t => FromTable(req[h], t)
    BY Here
  <2>2. CASE LookIdle(h)
    <3>1. req[h].pc = "look"
      BY <2>2 DEF LookIdle
    <3>2. CASE At(req[h].from) = {}
      <4>1. req' = [req EXCEPT ![h].pc = "free"]
        BY <2>2, <3>2 DEF LookIdle, Go
      <4> QED BY <1>1, <1>2, <2>1, <3>1, <3>2, <4>1, Here DEF AtTable, FromTable
    <3>3. CASE At(req[h].from) # {}
      <4>1. req'[h] = Idle
        BY <2>2, <3>3, Here DEF LookIdle, Finish
      <4>2. Settled(t)
        BY <1>3, <2>1, <3>1, <3>3 DEF AtTable, FromTable, Works
      <4> QED BY <1>2, <4>1, <4>2
    <3> QED BY <3>2, <3>3
  <2>3. CASE CreateBooking(h)
    <3>1. req[h].pc = "book" /\ req' = [req EXCEPT ![h].pc = "lookReserve"]
      BY <2>3 DEF CreateBooking, Go
    <3> QED BY <1>1, <1>2, <1>3, <2>1, <3>1, Here DEF AtTable, FromTable, Works
  <2>4. CASE LookReserve(h)
    <3>1. req[h].pc = "lookReserve" /\ req[h].table = t /\ req[h].from # t /\ Settled(t)
      BY <1>3, <2>1, <2>4 DEF LookReserve, Works, AtTable, FromTable
    <3>2. CASE At(t) = {}
      <4>1. req' = [req EXCEPT ![h].pc = "reserve"]
        BY <2>4, <3>1, <3>2 DEF LookReserve, Go
      <4> QED BY <1>2, <3>1, <3>2, <4>1, Here DEF AtTable
    <3>3. CASE At(t) # {}
      <4>1. req'[h] = Idle
        BY <2>4, <3>1, <3>3, Here DEF LookReserve, Finish
      <4> QED BY <1>2, <3>1, <4>1
    <3> QED BY <3>2, <3>3
  <2>5. CASE LookOpen(h)
    <3>1. /\ req[h].pc = "lookOpen" /\ req[h].table = t /\ req[h].from # t
          /\ One(t) /\ table[t] = "OCCUPIED"
      BY <1>3, <2>1, <2>5 DEF LookOpen, Works, AtTable, FromTable
    <3>2. CASE At(t) = {}
      <4>1. req' = [req EXCEPT ![h].pc = "open"]
        BY <2>5, <3>1, <3>2 DEF LookOpen, Go
      <4> QED BY <1>2, <3>1, <3>2, <4>1, Here DEF AtTable
    <3>3. CASE At(t) # {}
      <4>1. req'[h] = Idle
        BY <2>5, <3>1, <3>3, Here DEF LookOpen, Finish
      <4> QED BY <1>2, <3>1, <3>3, <4>1 DEF Settled
    <3> QED BY <3>2, <3>3
  <2> QED BY <2>2, <2>3, <2>4, <2>5
<1> QED BY <1>1, <1>2, <1>3, GoesKeeps, Here DEF Active

LEMMA MarkingKeeps ==
  ASSUME TInv, NEW h \in Handlers, FreeTable(h) \/ ReserveTable(h) \/ Seat(h)
  PROVE  Floors'
<1>1. Goes(h) /\ UNCHANGED <<order, torn>>
  BY GoGoes DEF FreeTable, ReserveTable, Seat, ghosts
<1>2. Lasting /\ \A t : At(t)' = At(t) /\ (One(t)' <=> One(t))
  BY <1>1 DEF Lasting, At, Active, One
<1>3. DOMAIN table' = Tables /\ \A t \in Tables : ~Works(h, t) => table'[t] = table[t]
  BY Here DEF FreeTable, ReserveTable, Seat, Works
<1>4. ASSUME NEW t \in Tables \ torn, Works(h, t)
      PROVE  \/ req'[h] = Idle /\ Settled(t)'
             \/ /\ req'[h].table = req[h].table /\ req'[h].from = req[h].from
                /\ req'[h].order = req[h].order
                /\ req[h].table = t => AtTable(req[h], t)'
                /\ req[h].from = t => FromTable(req[h], t)'
  <2>1. /\ req[h].table = t => AtTable(req[h], t)
        /\ req[h].from = t => FromTable(req[h], t)
    BY Here
  <2>2. CASE FreeTable(h)
    <3>1. /\ req[h].pc = "free" /\ req'[h] = Idle /\ table' = [table EXCEPT ![req[h].from] = "FREE"]
      BY <2>2, Here DEF FreeTable, Finish
    <3>2. CASE req[h].from = t
      <4>1. At(t)' = {} /\ table'[t] = "FREE"
        BY <1>2, <2>1, <3>1, <3>2, Here DEF FromTable
      <4> QED BY <3>1, <4>1 DEF Settled, One
    <3>3. CASE req[h].from # t
      <4>1. Settled(t) /\ table'[t] = table[t]
        BY <1>4, <2>1, <3>1, <3>3, Here DEF AtTable, Works
      <4> QED BY <1>2, <3>1, <4>1 DEF Settled
    <3> QED BY <3>2, <3>3
  <2>3. CASE ReserveTable(h)
    <3>1. req[h].pc = "reserve" /\ req'[h] = Idle /\ table' = [table EXCEPT ![req[h].table] = "RESERVED"]
      BY <2>3, Here DEF ReserveTable, Finish
    <3>2. At(t)' = {} /\ table'[t] = "RESERVED"
      BY <1>2, <1>4, <2>1, <3>1, Here DEF AtTable, FromTable, Works
    <3> QED BY <3>1, <3>2 DEF Settled, One
  <2>4. CASE Seat(h)
    <3>1. /\ req[h].pc = "seat" /\ req' = [req EXCEPT ![h].pc = "lookOpen"]
          /\ table' = [table EXCEPT ![req[h].table] = "OCCUPIED"]
      BY <2>4 DEF Seat, Go
    <3>2. One(t)' /\ table'[t] = "OCCUPIED" /\ req[h].from # t
      BY <1>2, <1>4, <2>1, <3>1, Here DEF AtTable, FromTable, Works, Settled
    <3>3. /\ req'[h].table = req[h].table /\ req'[h].from = req[h].from
          /\ req'[h].order = req[h].order /\ req'[h].pc = "lookOpen"
      BY <3>1, Here
    <3> QED BY <3>2, <3>3 DEF AtTable
  <2> QED BY <2>2, <2>3, <2>4
<1> QED BY <1>1, <1>2, <1>3, <1>4, GoesKeeps DEF Active

LEMMA ShellKeeps == ASSUME TInv, NEW h \in Handlers, CreateShell(h) PROVE Floors'
<1>1. PICK o \in Orders :
        /\ order[o].st = "none"
        /\ order' = [order EXCEPT ![o] = [NoOrder EXCEPT !.st = "active", !.for = req[h].ext]]
        /\ req' = [req EXCEPT ![h].pc = "tag", ![h].order = o]
  BY DEF CreateShell
<1>2. /\ req[h].pc = "shell" /\ torn' = torn /\ table' = table /\ Only(h)
      /\ req'[h].pc = "tag" /\ req'[h].order = o
      /\ req'[h].table = req[h].table /\ req'[h].from = req[h].from
  BY <1>1, Here DEF CreateShell, ghosts, Only
<1>3. /\ order'[o].st = "active" /\ order'[o].table = None
      /\ \A p \in Orders \ {o} : order'[p] = order[p]
  BY <1>1, Here DEF NoOrder
<1>4. Lasting
  BY <1>1, <1>3 DEF Lasting
<1>5. req[h].table = None /\ req[h].from = None /\ \A t \in Tables : t # None
  BY <1>2, Here DEF Known
<1>6. ASSUME NEW g \in Handlers PROVE Known(req[g])'
  <2>1. CASE g = h
    BY <1>2, <1>3, <1>5, <2>1 DEF Known, Moves
  <2>2. CASE g # h
    <3>1. PICK q : q = req[g]
      OBVIOUS
    <3>2. Known(q)'
      BY <1>2, <1>4, <3>1, KnownLasts DEF TInv, Floors
    <3> QED BY <1>2, <2>2, <3>1, <3>2 DEF Only
  <2> QED BY <2>1, <2>2
<1>7. ASSUME NEW t \in Tables \ torn PROVE Tended(t)'
  <2>1. Tended(t) /\ ~Works(h, t) /\ ~Works(h, t)' /\ table'[t] = table[t]
    BY <1>2, <1>5 DEF TInv, Floors, Works
  <2>2. At(t)' = At(t)
    BY <1>1, <1>3, <1>5, SameAt
  <2>3. \A g \in Handlers \ {h} : req[g].order # None => req'[h].order # req[g].order
    BY <1>1, <1>2 DEF TInv, Floors, Known
  <2>4. \A g \in Handlers \ {h} :
          req[g].pc = "transfer" /\ Active(req[g].order) => order'[req[g].order].st = "active"
    BY <1>1, <1>3 DEF TInv, Floors, Known, Moves, Active
  <2> QED BY <1>2, <2>1, <2>2, <2>3, <2>4, OtherTended
<1> QED BY <1>2, <1>6, <1>7, Here DEF Floors

LEMMA TagKeeps == ASSUME TInv, NEW h \in Handlers, Tag(h) PROVE Floors'
<1>1. PICK o : o = req[h].order
  OBVIOUS
<1>2. /\ req[h].pc = "tag" /\ torn' = torn /\ table' = table /\ o \in Orders /\ Goes(h)
      /\ req[h].table = None /\ req[h].from = None
  BY <1>1, Here, GoGoes DEF Tag, ghosts, Known, Moves
<1>3. /\ \A p \in Orders \ {o} : order'[p] = order[p]
      /\ order'[o].table = order[o].table
      /\ order'[o].st = order[o].st \/ order'[o].st = "CANCELLED"
  BY <1>1, <1>2, Here DEF Tag
<1>4. Lasting
  BY <1>2, <1>3 DEF Lasting
<1>5. ASSUME NEW t \in Tables \ torn
      PROVE  /\ ~Works(h, t) /\ At(t)' = At(t) /\ table'[t] = table[t]
             /\ \A p \in Orders \ {o} : Active(p) => order'[p].st = "active"
  <2>1. ~Works(h, t)
    BY <1>2, Here DEF Works
  <2>2. order[o].table # t
    BY <1>1, <1>2, <2>1, NotAt DEF Moves
  <2> QED BY <1>2, <1>3, <2>1, <2>2, SameAt DEF Active
<1> QED BY <1>1, <1>2, <1>4, <1>5, GoesKeeps, Here

LEMMA ItemsKeep == ASSUME TInv, NEW h \in Handlers, AddItems(h) PROVE Floors'
<1>1. /\ req[h].pc = "items" /\ torn' = torn /\ table' = table /\ Goes(h)
      /\ order' = [order EXCEPT ![req[h].order].items = TRUE]
  BY GoGoes DEF AddItems, ghosts
<1>2. \A p \in Orders : order'[p].table = order[p].table /\ order'[p].st = order[p].st
  BY <1>1, Here
<1>3. Lasting
  BY <1>2 DEF Lasting
<1>4. ASSUME NEW t \in Tables \ torn
      PROVE  /\ ~Works(h, t) /\ At(t)' = At(t) /\ table'[t] = table[t]
             /\ \A p \in Orders \ {req[h].order} : Active(p) => order'[p].st = "active"
  BY <1>1, <1>2, SameAt, Here DEF Works, AtTable, FromTable, Active
<1> QED BY <1>1, <1>3, <1>4, GoesKeeps, Here

\* A request that stops tears its tables.
LEMMA StopKeeps == ASSUME TInv, NEW h \in Handlers, Stop(h) PROVE Floors'
<1>1. /\ UNCHANGED <<table, order>> /\ torn' = torn \cup Has(h) /\ req'[h] = Idle /\ Only(h)
  BY Here DEF Stop, Finish, rows, Only
<1>2. Goes(h) /\ Lasting /\ torn \subseteq torn'
  BY <1>1 DEF Goes, Lasting
<1>3. ASSUME NEW t \in Tables \ torn' PROVE Tended(t)'
  <2>1. t \in Tables \ torn /\ ~Works(h, t) /\ At(t)' = At(t)
    BY <1>1 DEF Has, Works, At, Active
  <2> QED BY <1>1, <1>2, <2>1, OtherGoes DEF Active
<1> QED BY <1>1, <1>2, <1>3, GoesKnown DEF TInv, Floors

\* A payment that comes after its check was cancelled tears the table of it.
LEMMA PaidLateKeeps ==
  ASSUME TInv, NEW h \in Handlers, NEW o \in Orders, PaidLate(h, o) PROVE Floors'
<1>1. PICK u : u = order[o].table
  OBVIOUS
<1>2. /\ order[o].st = "CANCELLED" /\ order' = [order EXCEPT ![o].st = "CLOSED"]
      /\ table' = IF u = None THEN table ELSE [table EXCEPT ![u] = "FREE"]
      /\ torn' = torn \cup ({u} \cap Tables) /\ req' = req
  BY <1>1 DEF PaidLate
<1>3. /\ order'[o].st = "CLOSED" /\ \A p \in Orders \ {o} : order'[p] = order[p]
      /\ order'[o].table = u
  BY <1>1, <1>2, Here
<1>4. Lasting /\ torn \subseteq torn' /\ DOMAIN table' = Tables
  BY <1>1, <1>2, <1>3, Here DEF Lasting
<1>5. ASSUME NEW g \in Handlers PROVE Known(req[g])'
  <2>1. PICK q : q = req[g]
    OBVIOUS
  <2>2. Known(q)'
    BY <1>4, <2>1, KnownLasts DEF TInv, Floors
  <2> QED BY <1>2, <2>1, <2>2
<1>6. ASSUME NEW t \in Tables \ torn' PROVE Tended(t)'
  <2>1. t \in Tables \ torn /\ t # u /\ Tended(t)
    BY <1>2 DEF TInv, Floors
  <2>2. At(t)' = At(t) /\ table'[t] = table[t]
    BY <1>1, <1>2, <1>3, <2>1, SameAt, Here
  <2>3. \A p : Active(p) /\ p \in Orders => order'[p].st = "active"
    BY <1>2, <1>3 DEF Active
  <2>4. \A g \in Handlers : req[g].pc = "transfer" => req[g].order \in Orders
    BY DEF TInv, Floors, Known, Moves
  <2>5. Settled(t)' <=> Settled(t)
    BY <2>2 DEF Settled, One
  <2>6. ASSUME NEW g \in Handlers, req[g].table = t PROVE AtTable(req[g], t)'
    <3>1. AtTable(req[g], t)
      BY <2>1, <2>6 DEF Tended
    <3>2. One(t)' <=> One(t)
      BY <2>2 DEF One
    <3> QED BY <1>2, <2>2, <2>3, <2>4, <2>5, <3>1, <3>2 DEF AtTable, Active
  <2>7. ASSUME NEW g \in Handlers, req[g].from = t PROVE FromTable(req[g], t)'
    BY <1>2, <2>1, <2>2, <2>5, <2>7 DEF FromTable, Tended
  <2> QED BY <1>2, <2>1, <2>5, <2>6, <2>7 DEF Tended, Works
<1> QED BY <1>4, <1>5, <1>6 DEF Floors

LEMMA SameFloor == ASSUME TInv, UNCHANGED <<table, order, torn, req>> PROVE Floors'
<1>1. /\ \A h \in Handlers : Known(req[h])' <=> Known(req[h])
      /\ \A t : At(t)' = At(t)
  BY DEF Known, At, Active
<1>2. \A t : /\ (Settled(t)' <=> Settled(t)) /\ (One(t)' <=> One(t))
             /\ \A h \in Handlers : Works(h, t)' <=> Works(h, t)
  BY <1>1 DEF Settled, One, Works
<1>3. \A t, h : /\ AtTable(req[h], t)' <=> AtTable(req[h], t)
                /\ FromTable(req[h], t)' <=> FromTable(req[h], t)
  BY <1>1, <1>2 DEF AtTable, FromTable, Active
<1>4. \A t : Tended(t)' <=> Tended(t)
  BY <1>2, <1>3 DEF Tended
<1> QED BY <1>1, <1>4 DEF TInv, Floors

LEMMA NextKeepsTInv == TInv /\ [Next]_vars => TInv'
<1> SUFFICES ASSUME TInv, [Next]_vars PROVE TInv'
  OBVIOUS
<1>0. XInv'
  BY NextKeepsXInv DEF TInv
<1>1. ASSUME NEW h \in Handlers, Floor(h) PROVE Floors'
  <2>1. ASSUME NEW t \in Tables, LoadOpen(h, t) PROVE Floors'
    BY <2>1, OpenLoads
  <2> QED BY <1>1, <2>1, FloorLoads, PaidLateKeeps, CreateOrderKeeps, TransferKeeps, MergeKeeps,
             LookingKeeps, MarkingKeeps, CloseKeeps
          DEF Floor
<1>2. ASSUME NEW h \in Handlers, Desk(h) PROVE Floors'
  BY <1>2, DeskLoads, LookingKeeps, MarkingKeeps DEF Desk
<1>3. ASSUME NEW h \in Handlers, Platform(h) \/ Stop(h) PROVE Floors'
  BY <1>3, IngestLoads, ShellKeeps, TagKeeps, ItemsKeep, StopKeeps DEF Platform
<1>4. ASSUME NEW b \in Bookings, GuestConfirms(b) PROVE Floors'
  <2>1. UNCHANGED <<table, order, torn, req>>
    BY <1>4 DEF GuestConfirms
  <2> QED BY <2>1, SameFloor
<1>5. ASSUME UNCHANGED vars PROVE Floors'
  <2>1. UNCHANGED <<table, order, torn, req>>
    BY <1>5 DEF vars, rows, ghosts
  <2> QED BY <2>1, SameFloor
<1>6. Floors'
  BY <1>1, <1>2, <1>3, <1>4, <1>5 DEF Next
<1> QED BY <1>0, <1>6 DEF TInv

\* While nobody works on a table, it is marked occupied exactly if a check is
\* open at it, and never two are; but where requests met or one stopped.
THEOREM TablesFollowChecks == Spec => []TableFollowsChecks
<1>1. TInv => TableFollowsChecks
  <2> SUFFICES ASSUME TInv, NEW t \in Tables \ torn, ~Busy(t)
               PROVE  Cardinality(At(t)) = IF table[t] = "OCCUPIED" THEN 1 ELSE 0
    BY DEF TableFollowsChecks
  <2>1. Settled(t)
    BY DEF TInv, Floors, Tended, Busy, Works, Has
  <2>2. CASE At(t) = {}
    BY <2>1, <2>2, FS_EmptySet DEF Settled
  <2>3. CASE At(t) # {}
    <3>1. PICK o \in At(t) : TRUE
      BY <2>3
    <3>2. At(t) = {o}
      BY <2>1, <3>1 DEF Settled, One
    <3> QED BY <2>1, <2>3, <3>2, FS_Singleton DEF Settled
  <2> QED BY <2>2, <2>3
<1> QED BY InitTInv, NextKeepsTInv, <1>1, PTL DEF Spec
=============================================================================
