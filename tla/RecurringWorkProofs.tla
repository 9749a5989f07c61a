------------------------- MODULE RecurringWorkProofs ------------------------
(***************************************************************************)
(* For any rows, users, first days and bounds.                             *)
(*                                                                         *)
(* No month of a recurring row is passed over (IInv): a request that moves *)
(* a date has done the work of the month it read, and moves over nothing   *)
(* but months shorter than the day.                                        *)
(*                                                                         *)
(* No month is worked twice on a row that is not excused (OnceInv): at     *)
(* most one request has read its date, and that is the row's own.          *)
(*                                                                         *)
(* A cancelled commitment leaves no accrual but a late one (OweInv).       *)
(***************************************************************************)
EXTENDS RecurringWork, SequenceTheorems, TLAPS

Date == [m : 1..LastMonth + 2, d : 1..31]
RowRecord == [kind : {"none", "schedule", "commitment"},
              st : {"none", "ACTIVE", "INACTIVE", "PAUSED", "CANCELLED", "gone"},
              next : Date, generated : BOOLEAN]
OnRow == {"send", "move", "save", "switchOff", "switchOn", "remove", "cancel", "reverse"}

Typed == /\ today \in 1..LastMonth
         /\ row \in [Rows -> RowRecord]
         /\ start \in [Rows -> Date]
         /\ done \in [Rows -> [1..LastMonth -> Nat]]

\* What a request holds: a row, dates, and before a move the month it has done.
Held(q) ==
  /\ DOMAIN q = {"pc", "rest", "seen", "row", "next", "target"}
  /\ q.pc \in OnRow => q.row \in Rows
  /\ q.next \in Date
  /\ q.pc \in {"send", "move"} => q.next.m <= LastMonth
  /\ q.rest \subseteq Rows
  /\ \A r \in q.rest \cap DOMAIN q.seen : q.seen[r] \in Date /\ q.seen[r].m <= LastMonth
MonthDone(q) == q.pc = "move" => done[q.row][q.next.m] > 0
Requests == DOMAIN req = Handlers /\ \A h \in Handlers : Held(req[h]) /\ MonthDone(req[h])

\* A date after the 28th is the one the run of months began with, or older.
Days == \A r \in Rows : row[r].next.d <= 28 \/ row[r].next.d <= start[r].d

IInv == Typed /\ Requests /\ Days /\ NothingSkipped
-----------------------------------------------------------------------------
LEMMA LengthRange == ASSUME NEW m \in Nat PROVE Length(m) \in 28..31
  BY DEF Length

\* Moving by a month goes forward, over months that lack the day only.
LEMMA AddMonthMoves ==
  ASSUME NEW x \in Date, x.m <= LastMonth
  PROVE  /\ AddMonth(x) \in Date /\ AddMonth(x).m > x.m
         /\ \A m \in x.m + 1 .. AddMonth(x).m - 1 : Length(m) < x.d
         /\ AddMonth(x).d <= x.d
<1>1. x.m \in 1..LastMonth /\ x.d \in 1..31 /\ LastMonth \in 1..9
  BY RecurringConstants DEF Date
<1>2. Length(x.m + 1) \in 28..31
  BY <1>1, LengthRange
<1>3. CASE x.d <= Length(x.m + 1)
  BY <1>1, <1>2, <1>3 DEF AddMonth, Date
<1>4. CASE ~(x.d <= Length(x.m + 1))
  <2>1. AddMonth(x) = [m |-> x.m + 2, d |-> x.d - Length(x.m + 1)]
    BY <1>4 DEF AddMonth
  <2>2. \A m \in x.m + 1 .. x.m + 1 : m = x.m + 1
    BY <1>1
  <2>3. \A m \in x.m + 1 .. AddMonth(x).m - 1 : Length(m) < x.d
    BY <1>1, <1>2, <1>4, <2>1, <2>2
  <2> QED BY <1>1, <1>2, <1>4, <2>1, <2>3 DEF Date
<1> QED BY <1>3, <1>4

LEMMA AdvanceMoves ==
  ASSUME NEW x \in Date, x.m <= LastMonth
  PROVE  /\ AdvanceNextRun(x) \in Date /\ AdvanceNextRun(x).m = AddMonth(x).m
         /\ AdvanceNextRun(x).d <= 28 \/ AdvanceNextRun(x).d <= x.d
  BY AddMonthMoves, RecurringConstants DEF AdvanceNextRun, Date

LEMMA IdleHeld == Held(Idle) /\ Idle.pc = "idle" /\ Idle.rest = {}
  BY RecurringConstants DEF Held, Idle, Absent, Date, OnRow

\* A step of one request that changes neither rows nor work.
LEMMA RequestStep ==
  ASSUME IInv, NEW h \in Handlers, NEW q, Go(h, q), Held(q), q.pc # "move",
         UNCHANGED <<row, start, done>>, today' \in 1..LastMonth
  PROVE  IInv'
<1>1. Requests'
  BY DEF IInv, Requests, MonthDone, Go, Held
<1> QED BY <1>1 DEF IInv, Typed, Days, NothingSkipped

\* What writing a row and beginning a run of months do, point by point.
LEMMA PutAt ==
  ASSUME Typed, NEW r \in Rows, NEW f \in RowRecord, NEW x \in Date, Put(r, f, x)
  PROVE  /\ row' \in [Rows -> RowRecord] /\ row'[r].next = x
         /\ \A s \in Rows : s # r => row'[s] = row[s]
<1>1. [f EXCEPT !.next = x] \in RowRecord /\ [f EXCEPT !.next = x].next = x
  BY DEF RowRecord
<1> QED BY <1>1 DEF Put, Typed

LEMMA BeganAt ==
  ASSUME Typed, NEW r \in Rows, NEW x \in Date, Began(r, x)
  PROVE  /\ start' \in [Rows -> Date] /\ start'[r] = x
         /\ \A s \in Rows : s # r => start'[s] = start[s]
  BY DEF Began, Typed

-----------------------------------------------------------------------------
LEMMA InitIInv == Init => IInv
<1> SUFFICES ASSUME Init PROVE IInv
  OBVIOUS
<1>1. Typed
  BY RecurringConstants DEF Init, Typed, Absent, Date, RowRecord
<1>2. Requests
  BY IdleHeld DEF Init, Requests, MonthDone
<1>3. Days /\ NothingSkipped
  BY DEF Init, Days, NothingSkipped, Absent
<1> QED BY <1>1, <1>2, <1>3 DEF IInv

LEMMA CreateKeeps == ASSUME IInv, NEW r \in Rows, Create(r) PROVE IInv'
<1>1. PICK kind \in {"schedule", "commitment"}, d \in FirstDays :
        /\ Put(r, [Absent EXCEPT !.kind = kind, !.st = "ACTIVE"], [m |-> today, d |-> d])
        /\ Began(r, [m |-> today, d |-> d])
  BY DEF Create
<1> DEFINE x == [m |-> today, d |-> d]
<1>2. x \in Date
  BY RecurringConstants DEF IInv, Typed, Date
<1>3. [Absent EXCEPT !.kind = kind, !.st = "ACTIVE"] \in RowRecord
  <2>1. Absent.next \in Date
    BY RecurringConstants DEF Absent, Date
  <2>2. Absent \in RowRecord
    BY <2>1 DEF Absent, RowRecord
  <2> QED BY <2>2 DEF RowRecord
<1>4. /\ Typed' /\ row'[r].next = x /\ start'[r] = x
      /\ \A s \in Rows : s # r => row'[s] = row[s] /\ start'[s] = start[s]
  <2>1. /\ row' \in [Rows -> RowRecord] /\ row'[r].next = x
        /\ \A s \in Rows : s # r => row'[s] = row[s]
    BY <1>1, <1>2, <1>3, PutAt DEF IInv
  <2>2. /\ start' \in [Rows -> Date] /\ start'[r] = x
        /\ \A s \in Rows : s # r => start'[s] = start[s]
    BY <1>1, <1>2, BeganAt DEF IInv
  <2> QED BY <2>1, <2>2 DEF IInv, Typed, Create, quiet
<1>5. Requests'
  BY DEF IInv, Requests, MonthDone, Create
<1>6. Days'
  <2> SUFFICES ASSUME NEW s \in Rows PROVE row'[s].next.d <= 28 \/ row'[s].next.d <= start'[s].d
    BY DEF Days
  <2>1. x.d \in 1..31
    BY <1>2 DEF Date
  <2> QED BY <1>4, <2>1 DEF IInv, Days
<1>7. NothingSkipped'
  <2> SUFFICES ASSUME NEW s \in Rows, NEW m \in start'[s].m .. row'[s].next.m - 1, m <= LastMonth
               PROVE  done'[s][m] > 0 \/ Length(m) < start'[s].d
    BY DEF NothingSkipped
  <2>1. s # r
    BY <1>2, <1>4 DEF Date
  <2> QED BY <1>4, <2>1 DEF IInv, NothingSkipped, Create
<1> QED BY <1>4, <1>5, <1>6, <1>7 DEF IInv

\* A request takes a row, its own date or one chosen, and what it has left.
LEMMA ChosenIsDate == ASSUME IInv, NEW r \in Rows PROVE Chosen(r) \subseteq Date
<1>1. row[r].next \in Date
  BY DEF IInv, Typed, RowRecord
<1>2. [m : {today}, d : FirstDays] \subseteq Date
  <2>1. today \in 1..LastMonth + 2 /\ FirstDays \subseteq 1..31
    BY RecurringConstants DEF IInv, Typed
  <2> QED BY <2>1 DEF Date
<1> QED BY <1>1, <1>2 DEF Chosen

LEMMA GenerateKeeps ==
  ASSUME IInv, NEW h \in Handlers, NEW r \in Rows, NEW rest \in SUBSET Rows,
         Generate(h, r, rest), UNCHANGED <<row, start, done, today>>
  PROVE  IInv'
<1> DEFINE q == [Idle EXCEPT !.pc = "send", !.row = r, !.next = row[r].next, !.rest = rest]
<1>1. Held(q) /\ q.pc # "move"
  BY DEF IInv, Typed, RowRecord, Generate, Held, Idle, OnRow
<1> QED BY <1>1, RequestStep DEF Generate, IInv, Typed

LEMMA SelectKeeps ==
  ASSUME IInv, NEW h \in Handlers, ProcessDueSchedules(h) \/ RunDue(h) \/ NextSchedule(h)
  PROVE  IInv'
<1>1. CASE ProcessDueSchedules(h)
  <2> DEFINE q == [Idle EXCEPT !.pc = "next", !.rest = Due("schedule")]
  <2>1. Held(q) /\ q.pc # "move"
    BY IdleHeld DEF Held, Idle, OnRow, Due
  <2> QED BY <1>1, <2>1, RequestStep DEF ProcessDueSchedules, quiet, IInv, Typed
<1>2. CASE RunDue(h)
  <2> DEFINE due == Due("commitment")
             q == [Idle EXCEPT !.pc = "next", !.rest = due, !.seen = [r \in due |-> row[r].next]]
  <2>1. due \subseteq Rows /\ \A r \in due : row[r].next \in Date /\ row[r].next.m <= LastMonth
    BY RecurringConstants DEF Due, IInv, Typed, RowRecord, Date
  <2>2. Held(q) /\ q.pc # "move"
    BY <2>1, IdleHeld DEF Held, Idle, OnRow
  <2> QED BY <1>2, <2>2, RequestStep DEF RunDue, quiet, IInv, Typed
<1>3. CASE NextSchedule(h)
  <2>1. PICK r \in req[h].rest :
          IF row[r].st = "ACTIVE" /\ row[r].next.m <= LastMonth
          THEN Generate(h, r, req[h].rest \ {r})
          ELSE Go(h, IF req[h].rest \ {r} = {} THEN Idle
                     ELSE [req[h] EXCEPT !.rest = req[h].rest \ {r}])
    BY <1>3 DEF NextSchedule
  <2>2. req[h].rest \subseteq Rows /\ Held(req[h]) /\ req[h].pc = "next"
    BY <1>3 DEF NextSchedule, IInv, Requests, Held
  <2>3. CASE Generate(h, r, req[h].rest \ {r})
    BY <1>3, <2>2, <2>3, GenerateKeeps DEF NextSchedule, quiet
  <2>4. CASE Go(h, Idle)
    BY <1>3, <2>4, IdleHeld, RequestStep DEF NextSchedule, quiet, IInv, Typed
  <2>5. CASE Go(h, [req[h] EXCEPT !.rest = req[h].rest \ {r}])
    <3> DEFINE q == [req[h] EXCEPT !.rest = req[h].rest \ {r}]
    <3>1. Held(q) /\ q.pc # "move"
      BY <2>2 DEF Held, OnRow
    <3> QED BY <1>3, <2>5, <3>1, RequestStep DEF NextSchedule, quiet, IInv, Typed
  <2> QED BY <2>1, <2>3, <2>4, <2>5
<1> QED BY <1>1, <1>2, <1>3

LEMMA AskKeeps == ASSUME IInv, NEW h \in Handlers, NEW r \in Rows, Ask(h, r) PROVE IInv'
<1>1. CASE GenerateNow(h, r)
  BY <1>1, GenerateKeeps DEF GenerateNow
<1>2. CASE LoadToggle(h, r)
  <2>1. PICK pc \in {"switchOff", "switchOn"} : Go(h, [Idle EXCEPT !.pc = pc, !.row = r])
    BY <1>2 DEF LoadToggle
  <2>2. Held([Idle EXCEPT !.pc = pc, !.row = r])
    BY IdleHeld DEF Held, Idle, OnRow
  <2> QED BY <1>2, <2>1, <2>2, RequestStep DEF LoadToggle, Idle, IInv, Typed
<1>3. CASE LoadUpdate(h, r) \/ LoadPause(h, r)
  <2>1. PICK x \in Date : Go(h, [Idle EXCEPT !.pc = "save", !.row = r, !.next = x])
    BY <1>3, ChosenIsDate DEF LoadUpdate, LoadPause
  <2>2. Held([Idle EXCEPT !.pc = "save", !.row = r, !.next = x])
    BY IdleHeld DEF Held, Idle, OnRow
  <2> QED BY <1>3, <2>1, <2>2, RequestStep DEF LoadUpdate, LoadPause, Idle, IInv, Typed
<1>4. CASE LoadRemove(h, r) \/ LoadCancel(h, r)
  <2>1. PICK pc \in {"remove", "cancel"} : Go(h, [Idle EXCEPT !.pc = pc, !.row = r])
    BY <1>4 DEF LoadRemove, LoadCancel
  <2>2. Held([Idle EXCEPT !.pc = pc, !.row = r])
    BY IdleHeld DEF Held, Idle, OnRow
  <2> QED BY <1>4, <2>1, <2>2, RequestStep DEF LoadRemove, LoadCancel, Idle, IInv, Typed
<1>5. CASE Resume(h, r)
  <2>1. row' \in [Rows -> RowRecord] /\ \A s \in Rows : row'[s].next = row[s].next
    BY <1>5 DEF Resume, IInv, Typed, RowRecord
  <2> QED BY <1>5, <2>1 DEF Resume, IInv, Typed, Requests, MonthDone, Days, NothingSkipped
<1>6. CASE LoadReverse(h, r)
  <2>1. PICK i : Go(h, [Idle EXCEPT !.pc = "reverse", !.row = r, !.target = i])
    BY <1>6 DEF LoadReverse
  <2>2. Held([Idle EXCEPT !.pc = "reverse", !.row = r, !.target = i])
    BY IdleHeld DEF Held, Idle, OnRow
  <2> QED BY <1>6, <2>1, <2>2, RequestStep DEF LoadReverse, Idle, IInv, Typed
<1> QED BY <1>1, <1>2, <1>3, <1>4, <1>5, <1>6 DEF Ask
-----------------------------------------------------------------------------
\* The work of a month is done: what was done before stays done.
LEMMA DoneKeeps ==
  ASSUME IInv, NEW h \in Handlers, NEW r \in Rows, NEW m \in 1..LastMonth, NEW q,
         Did(r, m), Go(h, q), Held(q), q.row = r, q.next.m = m, UNCHANGED <<today, row, start>>
  PROVE  IInv'
<1>1. /\ done' \in [Rows -> [1..LastMonth -> Nat]] /\ done'[r][m] > 0
      /\ \A s \in Rows, n \in 1..LastMonth : done'[s][n] >= done[s][n]
  <2> DEFINE v == IF done[r][m] < 2 THEN done[r][m] + 1 ELSE done[r][m]
  <2>1. done' = [done EXCEPT ![r] = [done[r] EXCEPT ![m] = v]]
    BY DEF Did
  <2>2. done[r] \in [1..LastMonth -> Nat] /\ done[r][m] \in Nat
    BY DEF IInv, Typed
  <2>3. v \in Nat /\ v > 0 /\ v >= done[r][m]
    BY <2>2
  <2> HIDE DEF v
  <2>4. [done[r] EXCEPT ![m] = v] \in [1..LastMonth -> Nat]
    BY <2>2, <2>3
  <2>5. done' \in [Rows -> [1..LastMonth -> Nat]] /\ done'[r][m] = v
    BY <2>1, <2>2, <2>4 DEF IInv, Typed
  <2>6. ASSUME NEW s \in Rows, NEW n \in 1..LastMonth PROVE done'[s][n] >= done[s][n]
    <3>1. done[s][n] \in Nat
      BY DEF IInv, Typed
    <3>2. CASE s = r /\ n = m
      BY <2>3, <2>5, <3>2
    <3>3. CASE ~(s = r /\ n = m)
      <4>1. done'[s][n] = done[s][n]
        BY <2>1, <2>2, <3>3 DEF IInv, Typed
      <4> QED BY <3>1, <4>1
    <3> QED BY <3>2, <3>3
  <2> QED BY <2>3, <2>5, <2>6
<1>2. ASSUME NEW g \in Handlers PROVE Held(req[g])' /\ MonthDone(req[g])'
  <2>1. CASE g = h
    <3>1. req'[g] = q
      BY <2>1 DEF IInv, Requests, Go
    <3> QED BY <1>1, <3>1 DEF MonthDone, Held
  <2>2. CASE g # h
    <3>1. req'[g] = req[g] /\ Held(req[g]) /\ MonthDone(req[g])
      BY <2>2 DEF IInv, Requests, Go
    <3>2. req[g].pc = "move" => req[g].row \in Rows /\ req[g].next.m \in 1..LastMonth
      BY <3>1, RecurringConstants DEF Held, OnRow, Date
    <3>3. req[g].pc = "move" => done'[req[g].row][req[g].next.m] > 0
      <4> SUFFICES ASSUME req[g].pc = "move" PROVE done'[req[g].row][req[g].next.m] > 0
        OBVIOUS
      <4> DEFINE s == req[g].row
                 n == req[g].next.m
      <4>1. s \in Rows /\ n \in 1..LastMonth /\ done[s][n] > 0
        BY <3>1, <3>2 DEF MonthDone
      <4>2. done[s][n] \in Nat /\ done'[s][n] \in Nat /\ done'[s][n] >= done[s][n]
        BY <1>1, <4>1 DEF IInv, Typed
      <4> QED BY <4>1, <4>2
    <3> QED BY <3>1, <3>3 DEF MonthDone, Held
  <2> QED BY <2>1, <2>2
<1>3. Requests'
  <2>1. DOMAIN req' = Handlers
    BY DEF IInv, Requests, Go
  <2>2. \A g \in Handlers : Held(req[g])' /\ MonthDone(req[g])'
    BY <1>2
  <2> QED BY <2>1, <2>2 DEF Requests
<1>4. NothingSkipped'
  <2> SUFFICES ASSUME NEW s \in Rows, NEW n \in start'[s].m .. row'[s].next.m - 1, n <= LastMonth
               PROVE  done'[s][n] > 0 \/ Length(n) < start'[s].d
    BY DEF NothingSkipped
  <2>1. n \in 1..LastMonth
    BY RecurringConstants DEF IInv, Typed, Date, RowRecord
  <2>2. done[s][n] > 0 \/ Length(n) < start[s].d
    BY DEF IInv, NothingSkipped
  <2>3. done[s][n] \in Nat /\ done'[s][n] \in Nat /\ done'[s][n] >= done[s][n]
    BY <1>1, <2>1 DEF IInv, Typed
  <2> QED BY <2>2, <2>3
<1> QED BY <1>1, <1>3, <1>4 DEF IInv, Typed, Days

LEMMA WorkKeeps ==
  ASSUME IInv, NEW h \in Handlers, Send(h) \/ PostCommitmentAccrual(h)
  PROVE  IInv'
<1>1. CASE Send(h)
  <2> DEFINE q == [req[h] EXCEPT !.pc = "move"]
  <2>1. Held(req[h]) /\ req[h].row \in Rows /\ req[h].next.m \in 1..LastMonth
    BY <1>1, RecurringConstants DEF Send, IInv, Requests, Held, OnRow, Date
  <2>2. Held(q) /\ q.row = req[h].row /\ q.next = req[h].next
    BY <1>1, <2>1 DEF Send, Held, OnRow
  <2> QED BY <1>1, <2>1, <2>2, DoneKeeps DEF Send, quiet
<1>2. CASE PostCommitmentAccrual(h)
  <2>1. PICK r \in req[h].rest \cap DOMAIN req[h].seen :
          /\ Did(r, req[h].seen[r].m)
          /\ Go(h, [req[h] EXCEPT !.pc = "move", !.row = r, !.next = req[h].seen[r],
                                  !.rest = @ \ {r}])
    BY <1>2 DEF PostCommitmentAccrual
  <2> DEFINE q == [req[h] EXCEPT !.pc = "move", !.row = r, !.next = req[h].seen[r], !.rest = @ \ {r}]
  <2>2. /\ Held(req[h]) /\ r \in Rows
        /\ req[h].seen[r] \in Date /\ req[h].seen[r].m \in 1..LastMonth
    BY <2>1, RecurringConstants DEF IInv, Requests, Held, Date
  <2>3. Held(q) /\ q.row = r /\ q.next = req[h].seen[r]
    BY <2>2 DEF Held, OnRow
  <2> QED BY <1>2, <2>1, <2>2, <2>3, DoneKeeps DEF PostCommitmentAccrual, quiet
<1> QED BY <1>1, <1>2

\* The request's end.
LEMMA OnwardHeld ==
  ASSUME IInv, NEW h \in Handlers, Onward(h)
  PROVE  \E q : Go(h, q) /\ Held(q) /\ q.pc # "move"
<1>1. Held(req[h])
  BY DEF IInv, Requests
<1>2. CASE req[h].rest = {}
  BY <1>2, IdleHeld DEF Onward
<1>3. CASE req[h].rest # {}
  <2> DEFINE q == [Idle EXCEPT !.pc = "next", !.rest = req[h].rest, !.seen = req[h].seen]
  <2>1. Held(q) /\ q.pc # "move"
    BY <1>1, IdleHeld DEF Held, Idle, OnRow
  <2> QED BY <1>3, <2>1 DEF Onward
<1> QED BY <1>2, <1>3

LEMMA MoveKeeps == ASSUME IInv, NEW h \in Handlers, Move(h) PROVE IInv'
<1> DEFINE r == req[h].row
           x == req[h].next
           y == IF Is(r, "schedule") THEN AddMonth(x) ELSE AdvanceNextRun(x)
<1>1. r \in Rows /\ x \in Date /\ x.m \in 1..LastMonth /\ done[r][x.m] > 0
  BY RecurringConstants DEF Move, IInv, Requests, Held, MonthDone, OnRow, Date
<1>2. PICK q : Go(h, q) /\ Held(q) /\ q.pc # "move"
  BY OnwardHeld DEF Move
<1>3. CASE row[r].st = "gone"
  BY <1>2, <1>3, RequestStep DEF Move, quiet, IInv, Typed
<1>4. CASE row[r].st # "gone"
  <2>1. /\ y \in Date /\ y.m > x.m /\ (y.d <= 28 \/ y.d <= x.d)
        /\ \A m \in x.m + 1 .. y.m - 1 : Length(m) < x.d
    BY <1>1, AddMonthMoves, AdvanceMoves
  <2>2. [row[r] EXCEPT !.generated = TRUE] \in RowRecord /\ Put(r, [row[r] EXCEPT !.generated = TRUE], y)
    BY <1>1, <1>4 DEF Move, IInv, Typed, RowRecord
  <2>3. /\ row' \in [Rows -> RowRecord] /\ row'[r].next = y
        /\ \A s \in Rows : s # r => row'[s] = row[s]
    BY <1>1, <2>1, <2>2, PutAt DEF IInv
  <2>4. /\ start' \in [Rows -> Date]
        /\ \A s \in Rows : s # r => start'[s] = start[s]
        /\ start'[r] = x \/ (row[r].next = x /\ start' = start)
    <3>1. CASE row[r].next = x
      BY <1>4, <3>1 DEF Move, IInv, Typed
    <3>2. CASE row[r].next # x
      <4>1. Began(r, x)
        BY <1>4, <3>2 DEF Move, Began
      <4> QED BY <1>1, <4>1, BeganAt DEF IInv
    <3> QED BY <3>1, <3>2
  <2>5. Typed'
    BY <1>1, <2>3, <2>4 DEF IInv, Typed, Move, quiet
  <2>6. Requests'
    BY <1>2 DEF IInv, Requests, MonthDone, Go, Move
  <2>7. x.d \in 1..31 /\ y.d \in 1..31 /\ start[r].d \in 1..31 /\ start'[r].d \in 1..31
    BY <1>1, <2>1, <2>5 DEF IInv, Typed, Date
  <2>8. start'[r].d >= x.d \/ x.d <= 28
    <3>1. row[r].next = x => x.d <= 28 \/ x.d <= start[r].d
      BY <1>1 DEF IInv, Days
    <3> QED BY <2>4, <2>7, <3>1
  <2>9. Days'
    <3> SUFFICES ASSUME NEW s \in Rows PROVE row'[s].next.d <= 28 \/ row'[s].next.d <= start'[s].d
      BY DEF Days
    <3>1. CASE s = r
      BY <2>1, <2>3, <2>7, <2>8, <3>1
    <3>2. CASE s # r
      BY <2>3, <2>4, <3>2 DEF IInv, Days
    <3> QED BY <3>1, <3>2
  <2>10. NothingSkipped'
    <3> SUFFICES ASSUME NEW s \in Rows, NEW m \in start'[s].m .. row'[s].next.m - 1, m <= LastMonth
                 PROVE  done'[s][m] > 0 \/ Length(m) < start'[s].d
      BY DEF NothingSkipped
    <3>1. CASE s # r
      BY <2>3, <2>4, <3>1 DEF IInv, NothingSkipped, Move
    <3>2. CASE s = r
      <4>1. m \in Nat /\ y.m \in Nat /\ m <= y.m - 1 /\ Length(m) \in 28..31
        BY <2>1, <2>3, <2>5, <3>2, LengthRange DEF Typed, Date
      <4>2. CASE m > x.m
        BY <1>1, <2>1, <2>7, <2>8, <3>2, <4>1, <4>2
      <4>3. CASE m = x.m
        BY <1>1, <3>2, <4>3 DEF Move
      <4>4. CASE m < x.m
        <5>1. row[r].next = x /\ start' = start
          <6>1. start'[r].m <= m
            BY <2>5, <3>2, <4>1 DEF Typed, Date
          <6> QED BY <1>1, <2>4, <4>1, <4>4, <6>1
        <5>2. m \in start[r].m .. row[r].next.m - 1
          BY <1>1, <3>2, <4>4, <5>1 DEF IInv, Typed, Date
        <5> QED BY <1>1, <3>2, <5>1, <5>2 DEF IInv, NothingSkipped, Move
      <4> QED BY <1>1, <4>1, <4>2, <4>3, <4>4
    <3> QED BY <3>1, <3>2
  <2> QED BY <2>5, <2>6, <2>9, <2>10 DEF IInv
<1> QED BY <1>3, <1>4

LEMMA SaveKeeps == ASSUME IInv, NEW h \in Handlers, Save(h) PROVE IInv'
<1> DEFINE r == req[h].row
           x == req[h].next
<1>1. r \in Rows /\ x \in Date
  BY DEF Save, IInv, Requests, Held, OnRow
<1>2. CASE row[r].st = "gone"
  BY <1>2, IdleHeld, RequestStep DEF Save, quiet, IInv, Typed
<1>3. CASE row[r].st # "gone"
  <2>1. PICK f \in RowRecord : Put(r, f, x)
    <3>1. row[r] \in RowRecord /\ [row[r] EXCEPT !.st = "PAUSED"] \in RowRecord
      BY <1>1 DEF IInv, Typed, RowRecord
    <3> QED BY <1>3, <3>1 DEF Save
  <2>2. /\ row' \in [Rows -> RowRecord] /\ row'[r].next = x
        /\ \A s \in Rows : s # r => row'[s] = row[s]
    BY <1>1, <2>1, PutAt DEF IInv
  <2>3. /\ start' \in [Rows -> Date]
        /\ \A s \in Rows : s # r => start'[s] = start[s]
        /\ start'[r] = x \/ (row[r].next = x /\ start' = start)
    <3>1. CASE row[r].next = x
      BY <1>3, <3>1 DEF Save, IInv, Typed
    <3>2. CASE row[r].next # x
      <4>1. Began(r, x)
        BY <1>3, <3>2 DEF Save, Began
      <4> QED BY <1>1, <4>1, BeganAt DEF IInv
    <3> QED BY <3>1, <3>2
  <2>4. Typed'
    BY <1>1, <2>2, <2>3 DEF IInv, Typed, Save, quiet
  <2>5. Requests'
    BY IdleHeld DEF IInv, Requests, MonthDone, Go, Save
  <2>6. Days'
    <3> SUFFICES ASSUME NEW s \in Rows PROVE row'[s].next.d <= 28 \/ row'[s].next.d <= start'[s].d
      BY DEF Days
    <3>1. x.d \in 1..31
      BY <1>1 DEF Date
    <3>2. CASE s = r
      BY <2>2, <2>3, <3>1, <3>2 DEF IInv, Days
    <3>3. CASE s # r
      BY <2>2, <2>3, <3>3 DEF IInv, Days
    <3> QED BY <3>2, <3>3
  <2>7. NothingSkipped'
    <3> SUFFICES ASSUME NEW s \in Rows, NEW m \in start'[s].m .. row'[s].next.m - 1, m <= LastMonth
                 PROVE  done'[s][m] > 0 \/ Length(m) < start'[s].d
      BY DEF NothingSkipped
    <3>1. CASE s = r /\ start'[r] = x
      BY <1>1, <2>2, <3>1 DEF Date
    <3>2. CASE s # r \/ (row[r].next = x /\ start' = start)
      <4>1. start'[s] = start[s] /\ row'[s].next = row[s].next
        BY <2>2, <2>3, <3>2
      <4> QED BY <4>1 DEF IInv, NothingSkipped, Save
    <3> QED BY <2>3, <3>1, <3>2
  <2> QED BY <2>4, <2>5, <2>6, <2>7 DEF IInv
<1> QED BY <1>2, <1>3

\* Writes that leave the date alone.
LEMMA StatusKeeps ==
  ASSUME IInv, NEW h \in Handlers,
         Toggle(h) \/ Remove(h) \/ Cancel(h) \/ ReverseCommitmentAccrual(h)
  PROVE  IInv'
<1>1. req[h].pc \in OnRow => req[h].row \in Rows
  BY DEF IInv, Requests, Held
<1>2. CASE ReverseCommitmentAccrual(h)
  BY <1>2, IdleHeld, RequestStep DEF ReverseCommitmentAccrual, quiet, IInv, Typed
<1>3. CASE Toggle(h) \/ Remove(h) \/ Cancel(h)
  <2>1. row' \in [Rows -> RowRecord] /\ \A s \in Rows : row'[s].next = row[s].next
    <3>1. ASSUME NEW st \in {"ACTIVE", "INACTIVE", "gone", "CANCELLED"}, req[h].row \in Rows,
                 row' = [row EXCEPT ![req[h].row].st = st]
          PROVE  row' \in [Rows -> RowRecord] /\ \A s \in Rows : row'[s].next = row[s].next
      BY <3>1 DEF IInv, Typed, RowRecord
    <3>2. CASE Toggle(h)
      <4>1. CASE row' = row
        BY <4>1 DEF IInv, Typed
      <4> QED BY <1>1, <3>1, <3>2, <4>1 DEF Toggle, OnRow
    <3> QED BY <1>1, <1>3, <3>1, <3>2 DEF Remove, Cancel, OnRow
  <2>2. UNCHANGED <<today, start, done>> /\ Go(h, Idle)
    BY <1>3 DEF Toggle, Remove, Cancel, quiet
  <2>3. Requests'
    BY <2>2, IdleHeld DEF IInv, Requests, MonthDone, Go
  <2> QED BY <2>1, <2>2, <2>3 DEF IInv, Typed, Days, NothingSkipped
<1> QED BY <1>2, <1>3

LEMMA StopKeeps ==
  ASSUME IInv, Restart \/ \E h \in Handlers : Fail(h)
  PROVE  IInv'
<1>1. CASE Restart
  <2>1. Requests'
    BY <1>1, IdleHeld DEF Restart, Requests, MonthDone
  <2> QED BY <1>1, <2>1 DEF Restart, IInv, Typed, Days, NothingSkipped
<1>2. ASSUME NEW h \in Handlers, Fail(h) PROVE IInv'
  <2>1. UNCHANGED <<today, row, start, done>>
    BY <1>2 DEF Fail
  <2>2. CASE Onward(h)
    BY <2>1, <2>2, OnwardHeld, RequestStep DEF IInv, Typed
  <2>3. CASE Go(h, Idle)
    BY <2>1, <2>3, IdleHeld, RequestStep DEF IInv, Typed
  <2>4. ASSUME NEW r, Go(h, [req[h] EXCEPT !.rest = req[h].rest \ {r}]), req[h].pc = "next" PROVE IInv'
    <3> DEFINE q == [req[h] EXCEPT !.rest = req[h].rest \ {r}]
    <3>1. Held(q) /\ q.pc # "move"
      BY <2>4 DEF IInv, Requests, Held, OnRow
    <3> QED BY <2>1, <2>4, <3>1, RequestStep DEF IInv, Typed
  <2> QED BY <1>2, <2>2, <2>3, <2>4 DEF Fail
<1> QED BY <1>1, <1>2

LEMMA NextKeeps == IInv /\ [Next]_vars => IInv'
<1> SUFFICES ASSUME IInv, [Next]_vars PROVE IInv'
  OBVIOUS
<1>1. CASE UNCHANGED vars
  BY <1>1 DEF vars, IInv, Typed, Requests, MonthDone, Days, NothingSkipped
<1>2. CASE TimePasses
  <2>1. today' \in 1..LastMonth
    BY <1>2, RecurringConstants DEF TimePasses, IInv, Typed
  <2>2. Requests'
    BY <1>2 DEF TimePasses, IInv, Requests, MonthDone, Held
  <2> QED BY <1>2, <2>1, <2>2 DEF TimePasses, IInv, Typed, Days, NothingSkipped
<1>3. ASSUME NEW h \in Handlers, Serve(h) PROVE IInv'
  BY <1>3, SelectKeeps, WorkKeeps, MoveKeeps, SaveKeeps, StatusKeeps DEF Serve
<1> QED BY <1>1, <1>2, <1>3, StopKeeps, CreateKeeps, SelectKeeps, AskKeeps DEF Next

\* For any rows, requests, first days and bounds: no month of a recurring row is
\* passed over, save one shorter than the day chosen.
THEOREM SpecNothingSkipped == Spec => []NothingSkipped
<1>1. IInv => NothingSkipped
  BY DEF IInv
<1> QED BY <1>1, InitIInv, NextKeeps, PTL DEF Spec
-----------------------------------------------------------------------------
(***************************************************************************)
(* No month is worked twice. Of a row that is not excused at most one      *)
(* request has read the date to write it, that date is the row's own, and  *)
(* no month from it on has been worked, save the one the request has just  *)
(* done and is about to move over (Once).                                  *)
(***************************************************************************)
Moving(q, r) == q.pc = "move" /\ q.row = r
Doing(q, r) == q.row = r /\ q.pc \in {"send", "move", "save"}
Listed(q, r) == r \in DOMAIN q.seen /\ r \in q.rest

Kinds == \A r \in Rows :
  /\ row[r].st = "none" <=> row[r].kind = "none"
  /\ row[r].st = "gone" => row[r].kind = "schedule"
  /\ row[r].st = "none" => Working(r) = {} /\ \A m \in 1..LastMonth : done[r][m] = 0

HandOK(q) ==
  /\ q.pc = "cancel" => row[q.row].kind = "commitment"
  /\ q.pc \in {"remove", "switchOff", "switchOn"} => row[q.row].kind = "schedule"
  /\ q.pc \notin {"next", "move"} => \A r \in Rows : ~Listed(q, r)
  /\ q.pc = "move" => ~Listed(q, q.row)
Hands == \A h \in Handlers : HandOK(req[h])

Once(r) ==
  /\ \A g, h \in Working(r) : g = h
  /\ \A m \in 1..LastMonth : done[r][m] <= 1
  /\ row[r].st # "gone" \/ Working(r) # {} =>
       \A m \in 1..LastMonth :
         \/ m < row[r].next.m \/ done[r][m] = 0
         \/ m = row[r].next.m /\ \E h \in Handlers : Moving(req[h], r)
  /\ \A h \in Handlers : Doing(req[h], r) /\ req[h].pc # "save" => req[h].next = row[r].next
  /\ \A h \in Handlers : Listed(req[h], r) => req[h].seen[r] = row[r].next

OnceInv == Kinds /\ Hands /\ \A r \in Rows \ excused : Once(r)

\* A request that takes nothing up of row r.
NoMore(q, p, r) ==
  /\ Doing(p, r) => Doing(q, r) /\ p.pc = q.pc /\ p.next = q.next
  /\ Listed(p, r) => Listed(q, r) /\ p.seen[r] = q.seen[r]

LEMMA WorkingIs ==
  \A r : Working(r) = {h \in Handlers : Doing(req[h], r) \/ Listed(req[h], r)}
  BY DEF Working, Doing, Listed

LEMMA IdleFree ==
  /\ Idle.pc = "idle" /\ Idle.rest = {} /\ DOMAIN Idle.seen = {}
  /\ HandOK(Idle) /\ \A q, r : NoMore(q, Idle, r)
<1>1. Idle.pc = "idle" /\ Idle.rest = {} /\ DOMAIN Idle.seen = {}
  BY DEF Idle
<1>2. \A r : ~Doing(Idle, r) /\ ~Listed(Idle, r)
  BY <1>1 DEF Doing, Listed
<1> QED BY <1>1, <1>2 DEF HandOK, NoMore

\* A row that no step is about.
LEMMA Unaffected ==
  ASSUME NEW r \in Rows, Once(r),
         \A g \in Handlers : NoMore(req[g], req'[g], r),
         \A g \in Handlers : Moving(req[g], r) => Moving(req'[g], r),
         row'[r].next = row[r].next, row[r].st = "gone" => row'[r].st = "gone",
         done'[r] = done[r]
  PROVE  Once(r)'
<1>1. Working(r)' \subseteq Working(r)
  BY WorkingIs DEF NoMore, Working, Doing, Listed
<1>2. \A g, h \in Working(r)' : g = h
  BY <1>1 DEF Once
<1>3. \A m \in 1..LastMonth : done'[r][m] <= 1
  BY DEF Once
<1>4. row'[r].st # "gone" \/ Working(r)' # {} =>
        \A m \in 1..LastMonth :
          \/ m < row'[r].next.m \/ done'[r][m] = 0
          \/ m = row'[r].next.m /\ \E h \in Handlers : Moving(req'[h], r)
  <2> SUFFICES ASSUME row'[r].st # "gone" \/ Working(r)' # {}, NEW m \in 1..LastMonth
      PROVE  \/ m < row'[r].next.m \/ done'[r][m] = 0
             \/ m = row'[r].next.m /\ \E h \in Handlers : Moving(req'[h], r)
    OBVIOUS
  <2>1. row[r].st # "gone" \/ Working(r) # {}
    BY <1>1
  <2>2. \/ m < row[r].next.m \/ done[r][m] = 0
        \/ m = row[r].next.m /\ \E h \in Handlers : Moving(req[h], r)
    BY <2>1 DEF Once
  <2> QED BY <2>2
<1>5. \A h \in Handlers : Doing(req'[h], r) /\ req'[h].pc # "save" => req'[h].next = row'[r].next
  BY DEF Once, NoMore
<1>6. \A h \in Handlers : Listed(req'[h], r) => req'[h].seen[r] = row'[r].next
  BY DEF Once, NoMore
<1> QED BY <1>2, <1>3, <1>4, <1>5, <1>6 DEF Once

\* One request's step, about the rows in S.
Becomes(h, p) == req'[h] = p /\ \A g \in Handlers \ {h} : req'[g] = req[g]

LEMMA GoBecomes == \A p : \A h \in Handlers : IInv /\ Go(h, p) => Becomes(h, p)
  BY DEF IInv, Requests, Go, Becomes

LEMMA StepOnce ==
  ASSUME IInv, OnceInv, NEW S \in SUBSET Rows, NEW h \in Handlers, NEW p,
         Becomes(h, p), HandOK(p)', excused \subseteq excused',
         \A r \in Rows :
           /\ row'[r].kind = row[r].kind \/ row[r].kind = "none"
           /\ row'[r].st = "none" <=> row'[r].kind = "none"
           /\ row'[r].st = "gone" => row'[r].kind = "schedule",
         \A r \in Rows \ S :
           /\ row'[r].next = row[r].next /\ row'[r].kind = row[r].kind
           /\ row[r].st = "gone" => row'[r].st = "gone"
           /\ done'[r] = done[r] /\ NoMore(req[h], p, r)
           /\ Moving(req[h], r) => Moving(p, r) \/ r \in excused',
         \A r \in S : row'[r].st # "none" /\ (r \notin excused' => Once(r)')
  PROVE  OnceInv'
<1>1. req'[h] = p /\ \A g \in Handlers \ {h} : req'[g] = req[g]
  BY DEF Becomes
<1>2. \A r \in Rows \ S, g \in Handlers : NoMore(req[g], req'[g], r)
  BY <1>1 DEF NoMore
<1>3. \A r \in Rows \ S : Working(r)' \subseteq Working(r)
  BY <1>2, WorkingIs DEF NoMore, Working, Doing, Listed
<1>4. Kinds'
  BY <1>3 DEF OnceInv, Kinds
<1>5. Hands'
  <2> SUFFICES ASSUME NEW g \in Handlers PROVE HandOK(req[g])'
    BY DEF Hands
  <2>1. CASE g = h
    BY <1>1, <2>1 DEF HandOK
  <2>2. CASE g # h
    <3>1. req'[g] = req[g] /\ HandOK(req[g])
      BY <1>1, <2>2 DEF OnceInv, Hands
    <3>2. req[g].pc \in OnRow => req[g].row \in Rows
      BY DEF IInv, Requests, Held
    <3>3. \A r \in Rows : row[r].kind # "none" => row'[r].kind = row[r].kind
      OBVIOUS
    <3> QED BY <3>1, <3>2, <3>3 DEF HandOK, OnRow
  <2> QED BY <2>1, <2>2
<1>6. ASSUME NEW r \in Rows \ excused' PROVE Once(r)'
  <2>1. CASE r \in S
    BY <2>1
  <2>2. CASE r \notin S
    <3>1. Once(r)
      BY DEF OnceInv
    <3>2. \A g \in Handlers : Moving(req[g], r) => Moving(req'[g], r)
      BY <1>1, <2>2
    <3> QED BY <1>2, <2>2, <3>1, <3>2, Unaffected
  <2> QED BY <2>1, <2>2
<1> QED BY <1>4, <1>5, <1>6 DEF OnceInv

\* A step that neither works nor moves a row.
LEMMA QuietOnce ==
  ASSUME IInv, OnceInv, NEW h \in Handlers, NEW p, Becomes(h, p), HandOK(p)',
         excused \subseteq excused', UNCHANGED done,
         \A r \in Rows :
           /\ row'[r].next = row[r].next /\ row'[r].kind = row[r].kind
           /\ row'[r].st = "none" <=> row'[r].kind = "none"
           /\ row'[r].st = "gone" => row'[r].kind = "schedule"
           /\ row[r].st = "gone" => row'[r].st = "gone",
         \A r \in Rows :
           /\ NoMore(req[h], p, r)
           /\ Moving(req[h], r) => Moving(p, r) \/ r \in excused'
  PROVE  OnceInv'
<1>1. \A r \in Rows \ {} :
        /\ row'[r].next = row[r].next /\ row'[r].kind = row[r].kind
        /\ row[r].st = "gone" => row'[r].st = "gone"
        /\ done'[r] = done[r] /\ NoMore(req[h], p, r)
        /\ Moving(req[h], r) => Moving(p, r) \/ r \in excused'
  OBVIOUS
<1>2. \A r \in Rows :
        /\ row'[r].kind = row[r].kind \/ row[r].kind = "none"
        /\ row'[r].st = "none" <=> row'[r].kind = "none"
        /\ row'[r].st = "gone" => row'[r].kind = "schedule"
  OBVIOUS
<1>3. {} \in SUBSET Rows /\ \A r \in {} : row'[r].st # "none" /\ (r \notin excused' => Once(r)')
  OBVIOUS
<1> QED BY ONLY IInv, OnceInv, h \in Handlers, Becomes(h, p), HandOK(p)', excused \subseteq excused',
            <1>1, <1>2, <1>3, StepOnce

\* The same, with the rows as they are.
LEMMA HeldOnce ==
  ASSUME IInv, OnceInv, NEW h \in Handlers, NEW p, Go(h, p), HandOK(p),
         excused \subseteq excused', UNCHANGED <<row, done>>,
         \A r \in Rows :
           /\ NoMore(req[h], p, r)
           /\ Moving(req[h], r) => Moving(p, r) \/ r \in excused'
  PROVE  OnceInv'
<1>1. HandOK(p)'
  BY DEF HandOK
<1> QED BY <1>1, QuietOnce, GoBecomes DEF OnceInv, Kinds

\* A request takes up one row: from here on it is the only one, or excused.
LEMMA TakeOnce ==
  ASSUME IInv, OnceInv, NEW h \in Handlers, NEW r \in Rows, NEW p, Go(h, p),
         req[h].pc \in {"idle", "next"}, DOMAIN p.seen = {}, p.row = r,
         p.pc \in {"send", "save"}, p.pc = "send" => p.next = row[r].next,
         row[r].st \notin {"none", "gone"}, NowOn({r}), UNCHANGED <<row, done>>
  PROVE  OnceInv'
<1>1. req'[h] = p /\ \A g \in Handlers \ {h} : req'[g] = req[g]
  BY DEF IInv, Requests, Go
<1>2. \A s : ~Listed(p, s) /\ ~Moving(req[h], s)
  BY DEF Listed, Moving
<1>3. HandOK(p)'
  BY <1>2 DEF HandOK
<1>4. \A s \in Rows \ {r} : NoMore(req[h], p, s)
  BY <1>2 DEF NoMore, Doing
<1>5. ASSUME r \notin excused' PROVE Once(r)'
  <2>1. Working(r) = {} /\ Once(r)
    BY <1>5 DEF NowOn, OnceInv
  <2>2. Working(r)' = {h}
    <3>1. \A g \in Handlers \ {h} : ~Doing(req[g], r) /\ ~Listed(req[g], r)
      BY <2>1, WorkingIs
    <3>2. Doing(p, r)
      BY DEF Doing
    <3> QED BY <1>1, <3>1, <3>2 DEF Working, Doing, Listed
  <2>3. \A g \in Handlers : Moving(req[g], r) => Moving(req'[g], r)
    BY <1>1, <1>2
  <2>4. \A m \in 1..LastMonth : m < row[r].next.m \/ done[r][m] = 0
    <3>1. row[r].st # "gone"
      OBVIOUS
    <3>2. \A g \in Handlers : ~Moving(req[g], r)
      BY <2>1, WorkingIs DEF Moving, Doing
    <3> QED BY <2>1, <3>1, <3>2 DEF Once
  <2>5. \A g \in Handlers : Doing(req'[g], r) /\ req'[g].pc # "save" => req'[g].next = row'[r].next
    <3>1. \A g \in Handlers \ {h} : ~Doing(req[g], r)
      BY <2>1, WorkingIs
    <3> QED BY <1>1, <3>1 DEF Doing
  <2>6. \A g \in Handlers : Listed(req'[g], r) => req'[g].seen[r] = row'[r].next
    BY <1>1, <1>2, <2>1 DEF Once
  <2> QED BY <2>1, <2>2, <2>4, <2>5, <2>6 DEF Once
<1>6. \A s \in Rows :
        /\ row'[s].kind = row[s].kind \/ row[s].kind = "none"
        /\ row'[s].st = "none" <=> row'[s].kind = "none"
        /\ row'[s].st = "gone" => row'[s].kind = "schedule"
  BY DEF OnceInv, Kinds
<1>7. excused \subseteq excused'
  BY DEF NowOn
<1> QED BY <1>1, <1>2, <1>3, <1>4, <1>5, <1>6, <1>7, StepOnce DEF Becomes

LEMMA AskOnce == ASSUME IInv, OnceInv, NEW h \in Handlers, NEW r \in Rows, Ask(h, r) PROVE OnceInv'
<1>1. \A p, s : DOMAIN p.seen = {} => ~Listed(p, s)
  BY DEF Listed
<1>2. CASE GenerateNow(h, r) \/ LoadUpdate(h, r) \/ LoadPause(h, r)
  <2>1. PICK p :
          /\ Go(h, p) /\ p.row = r /\ p.pc \in {"send", "save"} /\ DOMAIN p.seen = {}
          /\ p.pc = "send" => p.next = row[r].next
    <3>1. CASE GenerateNow(h, r)
      <4>1. PICK p : p = [Idle EXCEPT !.pc = "send", !.row = r, !.next = row[r].next, !.rest = {}]
        OBVIOUS
      <4>2. Go(h, p)
        BY <3>1, <4>1 DEF GenerateNow, Generate
      <4>3. p.row = r /\ p.pc = "send" /\ DOMAIN p.seen = {} /\ p.next = row[r].next
        BY <4>1 DEF Idle
      <4> QED BY <4>2, <4>3
    <3>2. CASE LoadUpdate(h, r) \/ LoadPause(h, r)
      <4>1. PICK x : Go(h, [Idle EXCEPT !.pc = "save", !.row = r, !.next = x])
        BY <3>2 DEF LoadUpdate, LoadPause
      <4>2. PICK p : p = [Idle EXCEPT !.pc = "save", !.row = r, !.next = x]
        OBVIOUS
      <4>3. p.row = r /\ p.pc = "save" /\ DOMAIN p.seen = {}
        BY <4>2 DEF Idle
      <4> QED BY <4>1, <4>2, <4>3
    <3> QED BY <1>2, <3>1, <3>2
  <2>4. /\ req[h].pc = "idle" /\ row[r].st \notin {"none", "gone"} /\ NowOn({r})
        /\ UNCHANGED <<row, done>>
    BY <1>2 DEF GenerateNow, Generate, LoadUpdate, LoadPause, ByHand, Is, OnceInv, Kinds
  <2> QED BY ONLY IInv, OnceInv, h \in Handlers, r \in Rows, <2>1, <2>4, TakeOnce
<1>3. CASE LoadToggle(h, r) \/ LoadRemove(h, r) \/ LoadCancel(h, r) \/ LoadReverse(h, r)
  <2>1. PICK p :
          /\ Go(h, p) /\ p.row = r /\ DOMAIN p.seen = {}
          /\ p.pc \in {"switchOff", "switchOn", "remove", "cancel", "reverse"}
          /\ p.pc \in {"switchOff", "switchOn", "remove"} => row[r].kind = "schedule"
          /\ p.pc = "cancel" => row[r].kind = "commitment"
    <3>1. CASE LoadToggle(h, r) \/ LoadRemove(h, r) \/ LoadCancel(h, r)
      <4>1. PICK pc \in {"switchOff", "switchOn", "remove", "cancel"} :
              /\ Go(h, [Idle EXCEPT !.pc = pc, !.row = r])
              /\ pc \in {"switchOff", "switchOn", "remove"} => row[r].kind = "schedule"
              /\ pc = "cancel" => row[r].kind = "commitment"
        BY <3>1 DEF LoadToggle, LoadRemove, LoadCancel, Is
      <4>2. PICK p : p = [Idle EXCEPT !.pc = pc, !.row = r]
        OBVIOUS
      <4>3. p.row = r /\ p.pc = pc /\ DOMAIN p.seen = {}
        BY <4>2 DEF Idle
      <4> QED BY <4>1, <4>2, <4>3
    <3>2. CASE LoadReverse(h, r)
      <4>1. PICK i : Go(h, [Idle EXCEPT !.pc = "reverse", !.row = r, !.target = i])
        BY <3>2 DEF LoadReverse
      <4>2. PICK p : p = [Idle EXCEPT !.pc = "reverse", !.row = r, !.target = i]
        OBVIOUS
      <4>3. p.row = r /\ p.pc = "reverse" /\ DOMAIN p.seen = {}
        BY <4>2 DEF Idle
      <4> QED BY <4>1, <4>2, <4>3
    <3> QED BY <1>3, <3>1, <3>2
  <2>4. req[h].pc = "idle" /\ UNCHANGED <<row, done, excused>>
    BY <1>3 DEF LoadToggle, LoadRemove, LoadCancel, LoadReverse, ByHand
  <2>5. HandOK(p)
    BY <1>1, <2>1 DEF HandOK
  <2>6. \A s \in Rows : NoMore(req[h], p, s) /\ ~Moving(req[h], s)
    BY <1>1, <2>1, <2>4 DEF NoMore, Doing, Moving
  <2> QED BY ONLY IInv, OnceInv, h \in Handlers, <2>1, <2>4, <2>5, <2>6, HeldOnce
<1>4. CASE Resume(h, r)
  <2>1. PICK p : p = req[h]
    OBVIOUS
  <2>2. Becomes(h, p) /\ UNCHANGED <<done, excused>>
    BY <1>4, <2>1 DEF Resume, Becomes
  <2>3. \A s \in Rows : row'[s] = IF s = r THEN [row[r] EXCEPT !.st = "ACTIVE"] ELSE row[s]
    BY <1>4 DEF Resume, IInv, Typed
  <2>4. row[r].kind = "commitment" /\ row[r].st # "gone" /\ row[r] \in RowRecord
    BY <1>4 DEF Resume, Is, IInv, Typed
  <2>5. \A s \in Rows :
          /\ row'[s].next = row[s].next /\ row'[s].kind = row[s].kind
          /\ row'[s].st = "none" <=> row'[s].kind = "none"
          /\ row'[s].st = "gone" => row'[s].kind = "schedule"
          /\ row[s].st = "gone" => row'[s].st = "gone"
    BY <2>3, <2>4 DEF OnceInv, Kinds, RowRecord
  <2>6. \A s \in Rows : NoMore(req[h], p, s) /\ (Moving(req[h], s) => Moving(p, s))
    BY <2>1 DEF NoMore
  <2>7. HandOK(p)'
    <3>1. HandOK(p) /\ (p.pc \in OnRow => p.row \in Rows)
      BY <2>1 DEF OnceInv, Hands, IInv, Requests, Held
    <3> QED BY <2>5, <3>1 DEF HandOK, OnRow
  <2> QED BY ONLY IInv, OnceInv, h \in Handlers, <2>2, <2>5, <2>6, <2>7, QuietOnce
<1> QED BY <1>2, <1>3, <1>4 DEF Ask

LEMMA CreateOnce == ASSUME IInv, OnceInv, NEW r \in Rows, Create(r) PROVE OnceInv'
<1>1. PICK kind \in {"schedule", "commitment"}, d \in FirstDays :
        Put(r, [Absent EXCEPT !.kind = kind, !.st = "ACTIVE"], [m |-> today, d |-> d])
  BY DEF Create
<1>2. PICK x : x = [m |-> today, d |-> d]
  OBVIOUS
<1>3. row'[r] = [kind |-> kind, st |-> "ACTIVE", next |-> x, generated |-> FALSE]
  BY <1>1, <1>2 DEF Put, Absent, IInv, Typed
<1>4. \A s \in Rows \ {r} : row'[s] = row[s]
  BY <1>1 DEF Put, IInv, Typed
<1>5. UNCHANGED <<done, excused, req>>
  BY DEF Create
<1>6. /\ row[r].kind = "none" /\ Working(r) = {}
      /\ \A m \in 1..LastMonth : done[r][m] = 0
  BY DEF Create, OnceInv, Kinds
<1>7. Once(r)'
  <2>1. \A g \in Handlers : ~Doing(req[g], r) /\ ~Listed(req[g], r)
    BY <1>6, WorkingIs
  <2>2. Working(r)' = {}
    BY <1>5, <1>6 DEF Working
  <2> QED BY <1>5, <1>6, <2>1, <2>2 DEF Once
<1>8. PICK h, p : h \in Handlers /\ p = req[h]
  BY DEF Handlers
<1>9. Becomes(h, p)
  BY <1>5, <1>8 DEF Becomes
<1>10. HandOK(p)'
  <2>1. HandOK(p) /\ (p.pc \in OnRow => p.row \in Rows)
    BY <1>8 DEF OnceInv, Hands, IInv, Requests, Held
  <2> QED BY <1>4, <1>6, <2>1 DEF HandOK, OnRow
<1>11. \A s \in Rows :
         /\ row'[s].kind = row[s].kind \/ row[s].kind = "none"
         /\ row'[s].st = "none" <=> row'[s].kind = "none"
         /\ row'[s].st = "gone" => row'[s].kind = "schedule"
  BY <1>3, <1>4, <1>6 DEF OnceInv, Kinds
<1>12. \A s \in Rows \ {r} :
         /\ row'[s].next = row[s].next /\ row'[s].kind = row[s].kind
         /\ row[s].st = "gone" => row'[s].st = "gone"
         /\ done'[s] = done[s] /\ NoMore(req[h], p, s)
         /\ Moving(req[h], s) => Moving(p, s) \/ s \in excused'
  BY <1>4, <1>5, <1>8 DEF NoMore
<1>13. \A s \in {r} : row'[s].st # "none" /\ (s \notin excused' => Once(s)')
  BY <1>3, <1>7
<1>14. {r} \in SUBSET Rows /\ excused \subseteq excused'
  BY <1>5
<1> QED BY ONLY IInv, OnceInv, <1>8, <1>9, <1>10, <1>11, <1>12, <1>13, <1>14, StepOnce

LEMMA SelectOnce ==
  ASSUME IInv, OnceInv, NEW h \in Handlers, ProcessDueSchedules(h) \/ NextSchedule(h)
  PROVE  OnceInv'
<1>1. \A p, s : DOMAIN p.seen = {} => ~Listed(p, s)
  BY DEF Listed
<1>2. DOMAIN Idle.seen = {}
  BY DEF Idle
<1>3. ASSUME NEW p, Go(h, p), p.pc \in {"idle", "next"}, DOMAIN p.seen = {},
             req[h].pc \in {"idle", "next"}, UNCHANGED <<row, done, excused>>
      PROVE  OnceInv'
  <2>1. HandOK(p)
    BY <1>1, <1>3 DEF HandOK
  <2>2. \A s \in Rows : NoMore(req[h], p, s) /\ ~Moving(req[h], s)
    BY <1>1, <1>3 DEF NoMore, Doing, Moving
  <2> QED BY ONLY IInv, OnceInv, h \in Handlers, <1>3, <2>1, <2>2, HeldOnce
<1>4. CASE ProcessDueSchedules(h)
  <2>1. PICK p : p = [Idle EXCEPT !.pc = "next", !.rest = Due("schedule")]
    OBVIOUS
  <2>2. p.pc = "next" /\ DOMAIN p.seen = {}
    BY <2>1 DEF Idle
  <2> QED BY <1>3, <1>4, <2>1, <2>2 DEF ProcessDueSchedules
<1>5. CASE NextSchedule(h)
  <2>1. PICK r \in req[h].rest :
          IF row[r].st = "ACTIVE" /\ row[r].next.m <= LastMonth
          THEN Generate(h, r, req[h].rest \ {r})
          ELSE /\ Go(h, IF req[h].rest \ {r} = {} THEN Idle
                        ELSE [req[h] EXCEPT !.rest = req[h].rest \ {r}])
               /\ UNCHANGED excused
    BY <1>5 DEF NextSchedule
  <2>2. req[h].pc = "next" /\ DOMAIN req[h].seen = {} /\ UNCHANGED <<row, done>> /\ r \in Rows
    BY <1>5 DEF NextSchedule, IInv, Requests, Held
  <2>3. CASE row[r].st = "ACTIVE" /\ Generate(h, r, req[h].rest \ {r})
    <3>1. PICK p : p = [Idle EXCEPT !.pc = "send", !.row = r, !.next = row[r].next,
                                    !.rest = req[h].rest \ {r}]
      OBVIOUS
    <3>2. p.row = r /\ p.pc = "send" /\ p.next = row[r].next /\ DOMAIN p.seen = {}
      BY <3>1 DEF Idle
    <3>3. Go(h, p) /\ NowOn({r})
      BY <2>3, <3>1 DEF Generate
    <3> QED BY ONLY IInv, OnceInv, h \in Handlers, <2>2, <2>3, <3>2, <3>3, TakeOnce
  <2>4. CASE Go(h, Idle) /\ UNCHANGED excused
    BY <1>2, <1>3, <2>2, <2>4, IdleFree
  <2>5. CASE Go(h, [req[h] EXCEPT !.rest = req[h].rest \ {r}]) /\ UNCHANGED excused
    <3>1. PICK p : p = [req[h] EXCEPT !.rest = req[h].rest \ {r}]
      OBVIOUS
    <3>2. p.pc = "next" /\ DOMAIN p.seen = {}
      BY <2>2, <3>1 DEF IInv, Requests, Held
    <3> QED BY <1>3, <2>2, <2>5, <3>1, <3>2
  <2> QED BY <2>1, <2>3, <2>4, <2>5
<1> QED BY <1>4, <1>5

\* The commitments' job takes up every row that is due.
LEMMA RunDueOnce == ASSUME IInv, OnceInv, NEW h \in Handlers, RunDue(h) PROVE OnceInv'
<1>1. PICK due : due = Due("commitment")
  OBVIOUS
<1>2. PICK p : p = [Idle EXCEPT !.pc = "next", !.rest = due, !.seen = [r \in due |-> row[r].next]]
  OBVIOUS
<1>3. Go(h, p) /\ NowOn(due) /\ req[h].pc = "idle" /\ UNCHANGED <<row, done>>
  BY <1>1, <1>2 DEF RunDue
<1>4. p.pc = "next" /\ p.rest = due /\ p.seen = [r \in due |-> row[r].next]
  BY <1>2 DEF Idle
<1>5. Becomes(h, p)
  BY <1>3, GoBecomes
<1>6. due \subseteq Rows /\ \A r \in due : row[r].st = "ACTIVE"
  BY <1>1 DEF Due
<1>7. HandOK(p)'
  BY <1>4 DEF HandOK
<1>8. ASSUME NEW r \in due, r \notin excused' PROVE Once(r)'
  <2>1. r \in Rows /\ row[r].st = "ACTIVE"
    BY <1>6
  <2>2. Working(r) = {} /\ Once(r)
    BY <1>3, <1>8, <2>1 DEF NowOn, OnceInv
  <2>3. \A g \in Handlers : ~Doing(req[g], r) /\ ~Listed(req[g], r)
    BY <2>2, WorkingIs
  <2>4. ~Doing(p, r) /\ Listed(p, r) /\ p.seen[r] = row[r].next
    BY <1>4 DEF Doing, Listed
  <2>5. Working(r)' = {h}
    BY <1>5, <2>3, <2>4 DEF Working, Doing, Listed, Becomes
  <2>6. \A m \in 1..LastMonth : m < row[r].next.m \/ done[r][m] = 0
    <3>1. \A g \in Handlers : ~Moving(req[g], r)
      BY <2>3 DEF Moving, Doing
    <3> QED BY <2>1, <2>2, <3>1 DEF Once
  <2>7. \A g \in Handlers : ~Doing(req'[g], r) /\ (Listed(req'[g], r) => req'[g].seen[r] = row[r].next)
    BY <1>5, <2>3, <2>4 DEF Becomes
  <2> QED BY <1>3, <2>2, <2>5, <2>6, <2>7 DEF Once
<1>9. \A r \in Rows \ due :
        /\ row'[r].next = row[r].next /\ row'[r].kind = row[r].kind
        /\ row[r].st = "gone" => row'[r].st = "gone"
        /\ done'[r] = done[r] /\ NoMore(req[h], p, r)
        /\ Moving(req[h], r) => Moving(p, r) \/ r \in excused'
  BY <1>3, <1>4 DEF NoMore, Doing, Listed, Moving
<1>10. \A r \in Rows :
        /\ row'[r].kind = row[r].kind \/ row[r].kind = "none"
        /\ row'[r].st = "none" <=> row'[r].kind = "none"
        /\ row'[r].st = "gone" => row'[r].kind = "schedule"
  BY <1>3 DEF OnceInv, Kinds
<1>11. \A r \in due : row'[r].st # "none" /\ (r \notin excused' => Once(r)')
  BY <1>3, <1>6, <1>8
<1>12. due \in SUBSET Rows /\ excused \subseteq excused'
  BY <1>3, <1>6 DEF NowOn
<1> QED BY ONLY IInv, OnceInv, h \in Handlers, <1>5, <1>7, <1>9, <1>10, <1>11, <1>12, StepOnce

\* The only request on a row that is not excused does its month's work.
LEMMA WorkedOnce ==
  ASSUME IInv, OnceInv, NEW h \in Handlers, NEW r \in Rows, NEW p, Go(h, p),
         h \in Working(r), req[h].pc # "move", Moving(p, r), ~Listed(p, r),
         p.next.m \in 1..LastMonth, p.next = (IF Listed(req[h], r) THEN req[h].seen[r] ELSE req[h].next),
         Listed(req[h], r) \/ (Doing(req[h], r) /\ req[h].pc = "send"),
         \A s \in Rows \ {r} : Listed(p, s) => Listed(req[h], s) /\ p.seen[s] = req[h].seen[s],
         Did(r, p.next.m), UNCHANGED <<row, excused>>
  PROVE  OnceInv'
<1>1. Becomes(h, p)
  BY GoBecomes
<1>2. HandOK(p)'
  BY DEF HandOK, Moving
<1>3. \A s \in Rows \ {r} : done'[s] = done[s]
  BY DEF Did, IInv, Typed
<1>4. ASSUME r \notin excused PROVE Once(r)'
  <2>1. Once(r)
    BY <1>4 DEF OnceInv
  <2>2. \A g \in Handlers \ {h} : ~Doing(req[g], r) /\ ~Listed(req[g], r)
    BY <2>1, WorkingIs DEF Once
  <2>3. Doing(p, r)
    BY DEF Moving, Doing
  <2>4. Working(r)' = {h}
    BY <1>1, <2>2, <2>3 DEF Working, Doing, Listed, Becomes
  <2>5. p.next = row[r].next
    BY <2>1 DEF Once
  <2>6. \A g \in Handlers : ~Moving(req[g], r)
    BY <2>2 DEF Moving, Doing
  <2>7. \A m \in 1..LastMonth : m < row[r].next.m \/ done[r][m] = 0
    BY <2>1, <2>6 DEF Once
  <2>8. PICK k : k = p.next.m
    OBVIOUS
  <2>9. /\ k \in 1..LastMonth /\ k = row[r].next.m
        /\ \A m \in 1..LastMonth : done'[r][m] = IF m = k THEN 1 ELSE done[r][m]
    <3>1. k \in 1..LastMonth /\ k = row[r].next.m
      BY <2>5, <2>8
    <3>2. done[r][k] = 0
      <4>1. ~(k < k)
        BY <3>1
      <4> QED BY <2>7, <3>1, <4>1
    <3>3. done' = [done EXCEPT ![r][k] = IF @ < 2 THEN @ + 1 ELSE @]
      BY <2>8 DEF Did
    <3>4. done' = [done EXCEPT ![r][k] = 1]
      BY <3>2, <3>3
    <3> QED BY <3>1, <3>4 DEF IInv, Typed
  <2>10. \A m \in 1..LastMonth : done'[r][m] <= 1
    BY <2>1, <2>9 DEF Once
  <2>11. \A m \in 1..LastMonth :
           \/ m < row'[r].next.m \/ done'[r][m] = 0
           \/ m = row'[r].next.m /\ \E g \in Handlers : Moving(req'[g], r)
    <3>1. req'[h] = p
      BY <1>1 DEF Becomes
    <3> QED BY <2>7, <2>9, <3>1
  <2>12. \A g \in Handlers : Doing(req'[g], r) /\ req'[g].pc # "save" => req'[g].next = row'[r].next
    BY <1>1, <2>2, <2>5 DEF Becomes
  <2>13. \A g \in Handlers : ~Listed(req'[g], r)
    BY <1>1, <2>2 DEF Becomes
  <2> QED BY <2>4, <2>10, <2>11, <2>12, <2>13 DEF Once
<1>5. \A s \in Rows \ {r} :
        /\ row'[s].next = row[s].next /\ row'[s].kind = row[s].kind
        /\ row[s].st = "gone" => row'[s].st = "gone"
        /\ done'[s] = done[s] /\ NoMore(req[h], p, s)
        /\ Moving(req[h], s) => Moving(p, s) \/ s \in excused'
  BY <1>3 DEF NoMore, Doing, Moving
<1>6. \A s \in Rows :
        /\ row'[s].kind = row[s].kind \/ row[s].kind = "none"
        /\ row'[s].st = "none" <=> row'[s].kind = "none"
        /\ row'[s].st = "gone" => row'[s].kind = "schedule"
  BY DEF OnceInv, Kinds
<1>7. \A s \in {r} : row'[s].st # "none" /\ (s \notin excused' => Once(s)')
  BY <1>4 DEF OnceInv, Kinds
<1>8. {r} \in SUBSET Rows /\ excused \subseteq excused'
  OBVIOUS
<1> QED BY ONLY IInv, OnceInv, h \in Handlers, <1>1, <1>2, <1>5, <1>6, <1>7, <1>8, StepOnce

LEMMA WorkOnce ==
  ASSUME IInv, OnceInv, NEW h \in Handlers, Send(h) \/ PostCommitmentAccrual(h)
  PROVE  OnceInv'
<1>1. Held(req[h]) /\ HandOK(req[h])
  BY DEF IInv, Requests, OnceInv, Hands
<1>2. CASE Send(h)
  <2>1. PICK p, r : p = [req[h] EXCEPT !.pc = "move"] /\ r = req[h].row
    OBVIOUS
  <2>2. /\ p.pc = "move" /\ p.row = r /\ p.next = req[h].next
        /\ p.rest = req[h].rest /\ p.seen = req[h].seen
    BY <1>1, <2>1 DEF Held
  <2>3. req[h].pc = "send" /\ r \in Rows /\ req[h].next.m \in 1..LastMonth
    BY <1>1, <1>2, <2>1, RecurringConstants DEF Send, Held, OnRow, Date
  <2>4. Go(h, p) /\ Did(r, p.next.m) /\ UNCHANGED <<row, excused>>
    BY <1>2, <2>1, <2>2 DEF Send
  <2>5. \A s \in Rows : ~Listed(req[h], s) /\ ~Listed(p, s)
    BY <1>1, <2>2, <2>3 DEF HandOK, Listed
  <2>6. Doing(req[h], r) /\ Moving(p, r) /\ h \in Working(r)
    BY <2>1, <2>2, <2>3, WorkingIs DEF Doing, Moving
  <2>7. p.next = (IF Listed(req[h], r) THEN req[h].seen[r] ELSE req[h].next)
    BY <2>2, <2>3, <2>5
  <2>8. p.next.m \in 1..LastMonth /\ req[h].pc # "move"
    BY <2>2, <2>3
  <2>9. \A s \in Rows \ {r} : Listed(p, s) => Listed(req[h], s) /\ p.seen[s] = req[h].seen[s]
    BY <2>5
  <2> QED BY ONLY IInv, OnceInv, h \in Handlers, <2>3, <2>4, <2>5, <2>6, <2>7, <2>8, <2>9, WorkedOnce
<1>3. CASE PostCommitmentAccrual(h)
  <2>1. PICK r \in req[h].rest \cap DOMAIN req[h].seen :
          /\ Did(r, req[h].seen[r].m)
          /\ Go(h, [req[h] EXCEPT !.pc = "move", !.row = r, !.next = req[h].seen[r],
                                  !.rest = @ \ {r}])
    BY <1>3 DEF PostCommitmentAccrual
  <2>2. PICK p : p = [req[h] EXCEPT !.pc = "move", !.row = r, !.next = req[h].seen[r], !.rest = @ \ {r}]
    OBVIOUS
  <2>3. /\ p.pc = "move" /\ p.row = r /\ p.next = req[h].seen[r]
        /\ p.rest = req[h].rest \ {r} /\ p.seen = req[h].seen
    BY <1>1, <2>2 DEF Held
  <2>4. /\ req[h].pc = "next" /\ r \in Rows /\ req[h].seen[r].m \in 1..LastMonth
        /\ UNCHANGED <<row, excused>>
    <3>1. req[h].pc = "next" /\ UNCHANGED <<row, excused>>
      BY <1>3 DEF PostCommitmentAccrual
    <3>2. r \in Rows /\ req[h].seen[r] \in Date /\ req[h].seen[r].m <= LastMonth
      BY <1>1, <2>1 DEF Held
    <3>3. req[h].seen[r].m \in 1..LastMonth
      BY <3>2, RecurringConstants DEF Date
    <3> QED BY <3>1, <3>2, <3>3
  <2>5. Go(h, p) /\ Did(r, p.next.m) /\ p.next.m \in 1..LastMonth /\ req[h].pc # "move"
    BY <2>1, <2>2, <2>3, <2>4
  <2>6. Listed(req[h], r) /\ Moving(p, r) /\ ~Listed(p, r) /\ h \in Working(r)
    BY <2>1, <2>3, WorkingIs DEF Listed, Moving
  <2>7. p.next = (IF Listed(req[h], r) THEN req[h].seen[r] ELSE req[h].next)
    BY <2>3, <2>6
  <2>8. \A s \in Rows \ {r} : Listed(p, s) => Listed(req[h], s) /\ p.seen[s] = req[h].seen[s]
    BY <2>3 DEF Listed
  <2> QED BY ONLY IInv, OnceInv, h \in Handlers, <2>4, <2>5, <2>6, <2>7, <2>8, WorkedOnce
<1> QED BY <1>2, <1>3

\* What a request is after its last write for a row.
LEMMA OnwardIs ==
  ASSUME IInv, OnceInv, NEW h \in Handlers, Onward(h)
  PROVE  \E p :
           /\ Go(h, p) /\ p.pc \in {"idle", "next"}
           /\ p.pc = "idle" => \A s : ~Listed(p, s)
           /\ \A s : Listed(p, s) => Listed(req[h], s) /\ p.seen[s] = req[h].seen[s]
<1>1. CASE req[h].rest = {}
  BY <1>1, IdleFree DEF Onward, Listed
<1>2. CASE req[h].rest # {}
  <2>1. PICK p : p = [Idle EXCEPT !.pc = "next", !.rest = req[h].rest, !.seen = req[h].seen]
    OBVIOUS
  <2>2. p.pc = "next" /\ p.rest = req[h].rest /\ p.seen = req[h].seen
    BY <2>1 DEF Idle
  <2> QED BY <1>2, <2>1, <2>2 DEF Onward, Listed
<1> QED BY <1>1, <1>2

\* The only request on a row that is not excused writes its date and leaves it.
LEMMA WrittenOnce ==
  ASSUME IInv, OnceInv, NEW h \in Handlers, NEW r \in Rows, NEW p, Go(h, p),
         Doing(req[h], r), p.pc \in {"idle", "next"}, p.pc = "idle" => \A s : ~Listed(p, s),
         \A s : Listed(p, s) => Listed(req[h], s) /\ p.seen[s] = req[h].seen[s],
         UNCHANGED done, excused \subseteq excused',
         row' \in [Rows -> RowRecord], \A s \in Rows \ {r} : row'[s] = row[s],
         row'[r].kind = row[r].kind, row'[r].st # "none",
         row'[r].st = "gone" <=> row[r].st = "gone",
         \/ row[r].st = "gone"
         \/ row'[r].next.m > row[r].next.m
         \/ row'[r].next.m = row[r].next.m /\ req[h].pc = "save"
         \/ r \in excused',
         req[h].pc = "save" => \A s \in Rows : ~Listed(req[h], s),
         req[h].pc = "move" => ~Listed(req[h], r), req[h].pc # "send"
  PROVE  OnceInv'
<1>1. Becomes(h, p)
  BY GoBecomes
<1>2. HandOK(p)'
  BY DEF HandOK
<1>3. ~Listed(p, r) /\ ~Doing(p, r)
  BY DEF Doing
<1>4. ASSUME r \notin excused' PROVE Once(r)'
  <2>1. Once(r) /\ h \in Working(r)
    BY <1>4, WorkingIs DEF OnceInv
  <2>2. \A g \in Handlers \ {h} : ~Doing(req[g], r) /\ ~Listed(req[g], r)
    BY <2>1, WorkingIs DEF Once
  <2>3. \A g \in Handlers : ~Doing(req'[g], r) /\ ~Listed(req'[g], r)
    BY <1>1, <1>3, <2>2 DEF Becomes
  <2>4. Working(r)' = {}
    BY <2>3 DEF Working, Doing, Listed
  <2>5. row'[r].st # "gone" => \A m \in 1..LastMonth : m < row'[r].next.m \/ done[r][m] = 0
    <3> SUFFICES ASSUME row'[r].st # "gone", NEW m \in 1..LastMonth
                 PROVE  m < row'[r].next.m \/ done[r][m] = 0
      OBVIOUS
    <3>1. m \in Nat /\ row[r].next.m \in Nat /\ row'[r].next.m \in Nat
      BY RecurringConstants DEF IInv, Typed, RowRecord, Date
    <3>2. \/ m < row[r].next.m \/ done[r][m] = 0
          \/ m = row[r].next.m /\ \E g \in Handlers : Moving(req[g], r)
      BY <2>1 DEF Once
    <3>3. (\E g \in Handlers : Moving(req[g], r)) => req[h].pc = "move"
      BY <2>2 DEF Moving, Doing
    <3>4. row'[r].next.m > row[r].next.m \/ (row'[r].next.m = row[r].next.m /\ req[h].pc = "save")
      BY <1>4
    <3> QED BY <3>1, <3>2, <3>3, <3>4
  <2> QED BY <2>1, <2>3, <2>4, <2>5 DEF Once
<1>5. \A s \in Rows \ {r} :
        /\ row'[s].next = row[s].next /\ row'[s].kind = row[s].kind
        /\ row[s].st = "gone" => row'[s].st = "gone"
        /\ done'[s] = done[s] /\ NoMore(req[h], p, s)
        /\ Moving(req[h], s) => Moving(p, s) \/ s \in excused'
  BY DEF NoMore, Doing, Moving
<1>6. \A s \in Rows :
        /\ row'[s].kind = row[s].kind \/ row[s].kind = "none"
        /\ row'[s].st = "none" <=> row'[s].kind = "none"
        /\ row'[s].st = "gone" => row'[s].kind = "schedule"
  <2>1. row[r].st # "none"
    BY WorkingIs DEF OnceInv, Kinds
  <2> QED BY <2>1 DEF OnceInv, Kinds
<1>7. \A s \in {r} : row'[s].st # "none" /\ (s \notin excused' => Once(s)')
  BY <1>4
<1>8. {r} \in SUBSET Rows /\ excused \subseteq excused'
  OBVIOUS
<1> QED BY ONLY IInv, OnceInv, h \in Handlers, <1>1, <1>2, <1>5, <1>6, <1>7, <1>8, StepOnce

LEMMA MoveOnce == ASSUME IInv, OnceInv, NEW h \in Handlers, Move(h) PROVE OnceInv'
<1>1. PICK r, x : r = req[h].row /\ x = req[h].next
  OBVIOUS
<1>2. /\ req[h].pc = "move" /\ Doing(req[h], r) /\ ~Listed(req[h], r)
      /\ r \in Rows /\ x \in Date /\ x.m <= LastMonth
  BY <1>1 DEF Move, IInv, Requests, Held, OnRow, OnceInv, Hands, HandOK, Doing
<1>3. PICK p :
        /\ Go(h, p) /\ p.pc \in {"idle", "next"}
        /\ p.pc = "idle" => \A s : ~Listed(p, s)
        /\ \A s : Listed(p, s) => Listed(req[h], s) /\ p.seen[s] = req[h].seen[s]
  <2>1. Onward(h)
    BY DEF Move
  <2> QED BY ONLY IInv, OnceInv, h \in Handlers, <2>1, OnwardIs
<1>4. UNCHANGED <<done, excused>> /\ excused \subseteq excused'
  BY DEF Move
<1>5. row[r].st # "none" /\ row[r] \in RowRecord
  BY <1>2, WorkingIs DEF OnceInv, Kinds, IInv, Typed
<1>6. CASE row[r].st = "gone"
  <2>1. row' = row
    BY <1>1, <1>6 DEF Move
  <2>2. row' \in [Rows -> RowRecord]
    BY <2>1 DEF IInv, Typed
  <2> QED BY ONLY IInv, OnceInv, h \in Handlers, <1>2, <1>3, <1>4, <1>5, <1>6, <2>1, <2>2, WrittenOnce
<1>7. CASE row[r].st # "gone"
  <2>1. PICK y : y = IF Is(r, "schedule") THEN AddMonth(x) ELSE AdvanceNextRun(x)
    OBVIOUS
  <2>2. y \in Date /\ y.m > x.m
    BY <1>2, <2>1, AddMonthMoves, AdvanceMoves
  <2>3. Put(r, [row[r] EXCEPT !.generated = TRUE], y)
    BY <1>1, <1>7, <2>1 DEF Move
  <2>4. /\ row' = [row EXCEPT ![r] = [[row[r] EXCEPT !.generated = TRUE] EXCEPT !.next = y]]
        /\ [[row[r] EXCEPT !.generated = TRUE] EXCEPT !.next = y] \in RowRecord
    BY <1>5, <2>2, <2>3 DEF Put, RowRecord
  <2>5. /\ row' \in [Rows -> RowRecord] /\ row'[r].next = y
        /\ row'[r].st = row[r].st /\ row'[r].kind = row[r].kind
        /\ \A s \in Rows \ {r} : row'[s] = row[s]
    BY <1>2, <1>5, <2>4 DEF IInv, Typed, RowRecord
  <2>6. row'[r].next.m > row[r].next.m \/ r \in excused'
    <3>1. r \notin excused => x = row[r].next
      BY <1>1, <1>2 DEF OnceInv, Once
    <3> QED BY <1>4, <2>2, <2>5, <3>1
  <2>7. row'[r].st # "none" /\ (row'[r].st = "gone" <=> row[r].st = "gone")
    BY <1>5, <2>5
  <2> QED BY ONLY IInv, OnceInv, h \in Handlers, <1>2, <1>3, <1>4, <2>5, <2>6, <2>7, WrittenOnce
<1> QED BY <1>6, <1>7

LEMMA SaveOnce == ASSUME IInv, OnceInv, NEW h \in Handlers, Save(h) PROVE OnceInv'
<1>1. PICK r, x : r = req[h].row /\ x = req[h].next
  OBVIOUS
<1>2. /\ req[h].pc = "save" /\ Doing(req[h], r) /\ (\A s \in Rows : ~Listed(req[h], s))
      /\ r \in Rows /\ x \in Date
  BY <1>1 DEF Save, IInv, Requests, Held, OnRow, OnceInv, Hands, HandOK, Doing
<1>3. PICK p : p = Idle
  OBVIOUS
<1>4. Go(h, p) /\ p.pc \in {"idle", "next"} /\ \A s : ~Listed(p, s)
  BY <1>3, IdleFree DEF Save, Listed
<1>5. row[r].st # "none" /\ row[r] \in RowRecord
  BY <1>2, WorkingIs DEF OnceInv, Kinds, IInv, Typed
<1>6. CASE row[r].st = "gone"
  <2>1. row' = row /\ UNCHANGED <<done, excused>>
    BY <1>1, <1>6 DEF Save
  <2>2. row' \in [Rows -> RowRecord] /\ excused \subseteq excused'
    BY <2>1 DEF IInv, Typed
  <2> QED BY ONLY IInv, OnceInv, h \in Handlers, <1>2, <1>4, <1>5, <1>6, <2>1, <2>2, WrittenOnce
<1>7. CASE row[r].st # "gone"
  <2>1. PICK f : f = IF Is(r, "schedule") THEN row[r] ELSE [row[r] EXCEPT !.st = "PAUSED"]
    OBVIOUS
  <2>2. f \in RowRecord /\ f.kind = row[r].kind /\ f.st \notin {"none", "gone"}
    BY <1>5, <1>7, <2>1 DEF RowRecord
  <2>3. Put(r, f, x)
    BY <1>1, <1>7, <2>1 DEF Save
  <2>4. row' = [row EXCEPT ![r] = [f EXCEPT !.next = x]] /\ [f EXCEPT !.next = x] \in RowRecord
    BY <1>2, <2>2, <2>3 DEF Put, RowRecord
  <2>5. /\ row' \in [Rows -> RowRecord] /\ row'[r].next = x
        /\ row'[r].st = f.st /\ row'[r].kind = row[r].kind
        /\ \A s \in Rows \ {r} : row'[s] = row[s]
    BY <1>2, <1>5, <2>2, <2>4 DEF IInv, Typed, RowRecord
  <2>6. UNCHANGED done /\ excused' = IF x.m < row[r].next.m THEN excused \cup {r} ELSE excused
    BY <1>1, <1>7 DEF Save
  <2>7. \/ row'[r].next.m > row[r].next.m
        \/ row'[r].next.m = row[r].next.m /\ req[h].pc = "save"
        \/ r \in excused'
    <3>1. x.m \in Int /\ row[r].next.m \in Int
      BY <1>2, <1>5, RecurringConstants DEF RowRecord, Date
    <3> QED BY <1>2, <2>5, <2>6, <3>1
  <2>8. row'[r].st # "none" /\ (row'[r].st = "gone" <=> row[r].st = "gone") /\ excused \subseteq excused'
    BY <1>7, <2>2, <2>5, <2>6
  <2> QED BY ONLY IInv, OnceInv, h \in Handlers, <1>2, <1>4, <2>5, <2>6, <2>7, <2>8, WrittenOnce
<1> QED BY <1>6, <1>7

\* Writes that leave the date alone.
LEMMA StatusOnce ==
  ASSUME IInv, OnceInv, NEW h \in Handlers,
         Toggle(h) \/ Remove(h) \/ Cancel(h) \/ ReverseCommitmentAccrual(h)
  PROVE  OnceInv'
<1>1. PICK r, p : r = req[h].row /\ p = Idle
  OBVIOUS
<1>2. Go(h, p) /\ UNCHANGED <<done, excused>> /\ excused \subseteq excused'
  BY <1>1 DEF Toggle, Remove, Cancel, ReverseCommitmentAccrual
<1>3. /\ req[h].pc \in {"switchOff", "switchOn", "remove", "cancel", "reverse"}
      /\ HandOK(req[h]) /\ r \in Rows
  BY <1>1 DEF Toggle, Remove, Cancel, ReverseCommitmentAccrual, IInv, Requests, Held, OnRow, OnceInv, Hands
<1>4. HandOK(p) /\ HandOK(p)'
  BY <1>1, IdleFree DEF HandOK
<1>5. \A s \in Rows :
        /\ NoMore(req[h], p, s)
        /\ Moving(req[h], s) => Moving(p, s) \/ s \in excused'
  BY <1>1, <1>3, IdleFree DEF Moving
<1>6. CASE UNCHANGED row
  BY ONLY IInv, OnceInv, h \in Handlers, <1>2, <1>4, <1>5, <1>6, HeldOnce
<1>7. ASSUME NEW st \in {"ACTIVE", "INACTIVE", "gone", "CANCELLED"},
             row' = [row EXCEPT ![r].st = st], row[r].st = "gone" => st = "gone",
             st = "gone" => row[r].kind = "schedule", row[r].kind # "none"
      PROVE  OnceInv'
  <2>1. \A s \in Rows : row'[s] = IF s = r THEN [row[r] EXCEPT !.st = st] ELSE row[s]
    BY <1>3, <1>7 DEF IInv, Typed
  <2>2. row[r] \in RowRecord
    BY <1>3 DEF IInv, Typed
  <2>3. \A s \in Rows :
          /\ row'[s].next = row[s].next /\ row'[s].kind = row[s].kind
          /\ row'[s].st = IF s = r THEN st ELSE row[s].st
    BY <2>1, <2>2 DEF RowRecord
  <2>4. \A s \in Rows :
          /\ row'[s].next = row[s].next /\ row'[s].kind = row[s].kind
          /\ row'[s].st = "none" <=> row'[s].kind = "none"
          /\ row'[s].st = "gone" => row'[s].kind = "schedule"
          /\ row[s].st = "gone" => row'[s].st = "gone"
    BY <1>7, <2>3 DEF OnceInv, Kinds
  <2>5. Becomes(h, p) /\ HandOK(p)'
    BY <1>2, <1>4, GoBecomes
  <2> QED BY ONLY IInv, OnceInv, h \in Handlers, <1>2, <1>5, <2>4, <2>5, QuietOnce
<1>8. row[r].st = "gone" => row[r].kind = "schedule"
  BY <1>3 DEF OnceInv, Kinds
<1>9. CASE Toggle(h)
  BY <1>1, <1>3, <1>6, <1>7, <1>9 DEF Toggle, HandOK
<1>10. CASE Remove(h)
  BY <1>1, <1>3, <1>7, <1>10 DEF Remove, HandOK
<1>11. CASE Cancel(h)
  BY <1>1, <1>3, <1>7, <1>8, <1>11 DEF Cancel, HandOK
<1>12. CASE ReverseCommitmentAccrual(h)
  BY <1>6, <1>12 DEF ReverseCommitmentAccrual
<1> QED BY <1>9, <1>10, <1>11, <1>12

LEMMA StopOnce == ASSUME IInv, OnceInv, Restart \/ \E h \in Handlers : Fail(h) PROVE OnceInv'
<1>1. ASSUME NEW h \in Handlers, Fail(h) PROVE OnceInv'
  <2>1. UNCHANGED <<row, done>>
    BY <1>1 DEF Fail
  <2>2. CASE /\ req[h].pc \notin {"idle", "next"}
             /\ excused' = IF req[h].pc = "move" THEN excused \cup {req[h].row} ELSE excused
             /\ Onward(h)
    <3>1. PICK p :
            /\ Go(h, p) /\ p.pc \in {"idle", "next"}
            /\ p.pc = "idle" => \A s : ~Listed(p, s)
            /\ \A s : Listed(p, s) => Listed(req[h], s) /\ p.seen[s] = req[h].seen[s]
      BY ONLY IInv, OnceInv, h \in Handlers, <2>2, OnwardIs
    <3>2. HandOK(p) /\ excused \subseteq excused'
      BY <2>2, <3>1 DEF HandOK
    <3>3. \A r \in Rows :
            /\ NoMore(req[h], p, r)
            /\ Moving(req[h], r) => Moving(p, r) \/ r \in excused'
      BY <2>2, <3>1 DEF NoMore, Doing, Moving
    <3> QED BY ONLY IInv, OnceInv, h \in Handlers, <2>1, <3>1, <3>2, <3>3, HeldOnce
  <2>3. CASE /\ req[h].pc = "next"
             /\ \E r \in req[h].rest \cap DOMAIN req[h].seen :
                  Go(h, IF req[h].rest \ {r} = {} THEN Idle
                        ELSE [req[h] EXCEPT !.rest = req[h].rest \ {r}])
             /\ UNCHANGED excused
    <3>1. PICK r : Go(h, IF req[h].rest \ {r} = {} THEN Idle
                         ELSE [req[h] EXCEPT !.rest = req[h].rest \ {r}])
      BY <2>3
    <3>2. PICK p : p = IF req[h].rest \ {r} = {} THEN Idle
                       ELSE [req[h] EXCEPT !.rest = req[h].rest \ {r}]
      OBVIOUS
    <3>3. \A s : Listed(p, s) => p.pc = "next" /\ Listed(req[h], s) /\ p.seen[s] = req[h].seen[s]
      BY <2>3, <3>2, IdleFree DEF Listed, IInv, Requests, Held
    <3>4. p.pc \in {"idle", "next"}
      BY <2>3, <3>2, IdleFree DEF IInv, Requests, Held
    <3>5. HandOK(p)
      BY <3>3, <3>4 DEF HandOK
    <3>6. \A s \in Rows : NoMore(req[h], p, s) /\ ~Moving(req[h], s)
      BY <2>3, <3>3, <3>4 DEF NoMore, Doing, Moving
    <3> QED BY ONLY IInv, OnceInv, h \in Handlers, <2>1, <2>3, <3>1, <3>2, <3>5, <3>6, HeldOnce
  <2> QED BY <1>1, <2>2, <2>3 DEF Fail
<1>2. CASE Restart
  <2>1. /\ UNCHANGED <<row, done>> /\ \A h \in Handlers : req'[h] = Idle
        /\ excused' = excused \cup {r \in Rows : \E h \in Handlers : Moving(req[h], r)}
    BY <1>2 DEF Restart, Moving
  <2>2. \A r : Working(r)' = {}
    BY <2>1, IdleFree DEF Working, Doing, Listed
  <2>3. Kinds'
    BY <2>1, <2>2 DEF OnceInv, Kinds
  <2>4. Hands'
    BY <2>1, IdleFree DEF Hands, HandOK
  <2>5. ASSUME NEW r \in Rows \ excused' PROVE Once(r)'
    <3>1. Once(r) /\ \A g \in Handlers : ~Moving(req[g], r)
      BY <2>1 DEF OnceInv
    <3>2. \A g \in Handlers : NoMore(req[g], req'[g], r)
      BY <2>1, IdleFree
    <3> QED BY <2>1, <3>1, <3>2, Unaffected
  <2> QED BY <2>3, <2>4, <2>5 DEF OnceInv
<1> QED BY <1>1, <1>2

LEMMA InitOnce == Init => OnceInv
<1> SUFFICES ASSUME Init PROVE OnceInv
  OBVIOUS
<1>1. \A h \in Handlers : req[h] = Idle
  BY DEF Init
<1>2. \A r : Working(r) = {}
  BY <1>1, IdleFree DEF Working
<1>3. \A r \in Rows :
        /\ row[r].st = "none" /\ row[r].kind = "none"
        /\ \A m \in 1..LastMonth : done[r][m] = 0
  BY DEF Init, Absent
<1>4. Hands
  BY <1>1, IdleFree DEF Hands
<1>5. \A h \in Handlers : \A r : ~Doing(req[h], r) /\ ~Listed(req[h], r)
  BY <1>1, IdleFree DEF Doing, Listed
<1>6. Kinds
  BY <1>2, <1>3 DEF Kinds
<1>7. ASSUME NEW r \in Rows PROVE Once(r)
  <2>1. \A m \in 1..LastMonth : done[r][m] = 0
    BY <1>3
  <2>2. Working(r) = {}
    BY <1>2
  <2>3. \A h \in Handlers : ~Doing(req[h], r) /\ ~Listed(req[h], r)
    BY <1>5
  <2> QED BY <2>1, <2>2, <2>3 DEF Once
<1> QED BY <1>4, <1>6, <1>7 DEF OnceInv

LEMMA NextOnce == IInv /\ OnceInv /\ [Next]_vars => OnceInv'
<1> SUFFICES ASSUME IInv, OnceInv, [Next]_vars PROVE OnceInv'
  OBVIOUS
<1>1. CASE UNCHANGED vars \/ TimePasses
  <2>1. UNCHANGED <<row, done, excused, req>>
    BY <1>1 DEF vars, TimePasses
  <2> QED BY <2>1 DEF OnceInv, Kinds, Hands, HandOK, Once, Working
<1>2. ASSUME NEW h \in Handlers, Serve(h) PROVE OnceInv'
  BY <1>2, SelectOnce, WorkOnce, MoveOnce, SaveOnce, StatusOnce DEF Serve
<1> QED BY <1>1, <1>2, StopOnce, CreateOnce, SelectOnce, RunDueOnce, AskOnce DEF Next

\* For any rows, requests, first days and bounds: a month's work is done twice
\* only on a row that two requests worked on at once, whose request stopped
\* between the work and the move of the date, or whose date was put back.
THEOREM MonthsWorkedOnce == Spec => []NothingTwice
<1>1. IInv /\ OnceInv => NothingTwice
  <2> SUFFICES ASSUME IInv, OnceInv, NEW r \in Rows \ excused, NEW m \in 1..LastMonth
               PROVE  ~(done[r][m] > 1)
    BY DEF NothingTwice
  <2>1. done[r][m] <= 1
    BY DEF OnceInv, Once
  <2>2. done[r][m] \in Nat
    BY DEF IInv, Typed
  <2> QED BY <2>1, <2>2
<1> QED BY <1>1, InitIInv, NextKeeps, InitOnce, NextOnce, PTL DEF Spec
-----------------------------------------------------------------------------
(***************************************************************************)
(* A cancelled commitment owes nothing, and neither does one whose         *)
(* cancellation has passed its check and is about to be written (Leaving). *)
(***************************************************************************)
Journal == [late : BOOLEAN, reversed : Nat]
Repaid(r) == \A i \in Unreversed(r) : accrual[r][i].late
Leaving(r) == row[r].st = "CANCELLED" \/ \E h \in Handlers : req[h].pc = "cancel" /\ req[h].row = r
OweInv == accrual \in [Rows -> Seq(Journal)] /\ \A r \in Rows : Leaving(r) => Repaid(r)

\* A step of one request that posts and reverses nothing.
LEMMA StillOwes ==
  ASSUME IInv, OweInv, NEW h \in Handlers, NEW p, Becomes(h, p), UNCHANGED accrual,
         p.pc = "cancel" => Unreversed(p.row) = {},
         \A r \in Rows : row'[r].st = "CANCELLED" => Leaving(r)
  PROVE  OweInv'
<1>1. ASSUME NEW r \in Rows, Leaving(r)' PROVE Repaid(r)'
  <2>1. Leaving(r) \/ Unreversed(r) = {}
    BY <1>1 DEF Leaving, Becomes
  <2> QED BY <2>1 DEF OweInv, Repaid, Unreversed
<1> QED BY <1>1 DEF OweInv

\* An accrual is posted to a commitment that is being left: it is late.
LEMMA PostOwes == ASSUME IInv, OweInv, NEW h \in Handlers, PostCommitmentAccrual(h) PROVE OweInv'
<1>1. PICK r \in req[h].rest \cap DOMAIN req[h].seen :
        /\ accrual' = [accrual EXCEPT ![r] = Append(@, [late |-> Leaving(r), reversed |-> 0])]
        /\ Go(h, [req[h] EXCEPT !.pc = "move", !.row = r, !.next = req[h].seen[r], !.rest = @ \ {r}])
  BY DEF PostCommitmentAccrual, Leaving
<1>2. PICK p : p = [req[h] EXCEPT !.pc = "move", !.row = r, !.next = req[h].seen[r], !.rest = @ \ {r}]
  OBVIOUS
<1>3. p.pc = "move" /\ Becomes(h, p) /\ r \in Rows /\ UNCHANGED row
  BY <1>1, <1>2, GoBecomes DEF IInv, Requests, Held, PostCommitmentAccrual, quiet
<1>4. \A s \in Rows : Leaving(s)' => Leaving(s)
  BY <1>3 DEF Leaving, Becomes
<1>5. PICK a : a = [late |-> Leaving(r), reversed |-> 0]
  OBVIOUS
<1>6. a \in Journal /\ a.late = Leaving(r)
  BY <1>5 DEF Journal, Leaving
<1>7. accrual' = [accrual EXCEPT ![r] = Append(accrual[r], a)]
  BY <1>1, <1>5
<1>8. accrual[r] \in Seq(Journal) /\ Append(accrual[r], a) \in Seq(Journal)
  BY <1>3, <1>6 DEF OweInv
<1>9. /\ accrual' \in [Rows -> Seq(Journal)] /\ accrual'[r] = Append(accrual[r], a)
      /\ \A s \in Rows \ {r} : accrual'[s] = accrual[s]
  BY <1>3, <1>7, <1>8 DEF OweInv
<1>10. ASSUME NEW s \in Rows, Leaving(s)' PROVE Repaid(s)'
  <2>1. Leaving(s) /\ Repaid(s)
    BY <1>4, <1>10 DEF OweInv
  <2>2. CASE s # r
    BY <1>9, <2>1, <2>2 DEF Repaid, Unreversed
  <2>3. CASE s = r
    <3> SUFFICES ASSUME NEW i \in DOMAIN accrual'[r], accrual'[r][i].reversed = 0
                 PROVE  accrual'[r][i].late
      BY <2>3 DEF Repaid, Unreversed
    <3>1. \/ i \in DOMAIN accrual[r] /\ accrual'[r][i] = accrual[r][i]
          \/ accrual'[r][i] = a
      BY <1>8, <1>9
    <3> QED BY <1>6, <2>1, <2>3, <3>1 DEF Repaid, Unreversed
  <2> QED BY <2>2, <2>3
<1> QED BY <1>9, <1>10 DEF OweInv

LEMMA ReverseOwes == ASSUME IInv, OweInv, NEW h \in Handlers, ReverseCommitmentAccrual(h) PROVE OweInv'
<1>1. PICK r, i : r = req[h].row /\ i = req[h].target
  OBVIOUS
<1>2. /\ accrual' = [accrual EXCEPT ![r][i].reversed = @ + 1] /\ UNCHANGED row
      /\ Becomes(h, Idle) /\ r \in Rows
  BY <1>1, GoBecomes DEF ReverseCommitmentAccrual, IInv, Requests, Held, OnRow, quiet
<1>3. \A s \in Rows : Leaving(s)' => Leaving(s)
  BY <1>2, IdleFree DEF Leaving, Becomes
<1>4. PICK f : f = accrual[r]
  OBVIOUS
<1>5. f \in Seq(Journal)
  BY <1>2, <1>4 DEF OweInv
<1>6. PICK g : g = [f EXCEPT ![i].reversed = @ + 1]
  OBVIOUS
<1>7. /\ g \in Seq(Journal) /\ DOMAIN g = DOMAIN f
      /\ \A j \in DOMAIN f : g[j].late = f[j].late /\ (g[j].reversed = 0 => f[j].reversed = 0)
  <2>1. f \in [1..Len(f) -> Journal] /\ Len(f) \in Nat
    BY <1>5
  <2>2. \A j \in 1..Len(f) : g[j] = IF j = i THEN [f[j] EXCEPT !.reversed = @ + 1] ELSE f[j]
    BY <1>6, <2>1
  <2>3. \A j \in 1..Len(f) :
          /\ g[j] \in Journal /\ g[j].late = f[j].late
          /\ g[j].reversed = 0 => f[j].reversed = 0
    <3> SUFFICES ASSUME NEW j \in 1..Len(f)
                 PROVE  /\ g[j] \in Journal /\ g[j].late = f[j].late
                        /\ g[j].reversed = 0 => f[j].reversed = 0
      OBVIOUS
    <3>1. PICK e : e = f[j]
      OBVIOUS
    <3>2. e \in Journal /\ e.reversed \in Nat /\ e.reversed + 1 \in Nat /\ e.reversed + 1 # 0
      BY <2>1, <3>1 DEF Journal
    <3>3. PICK d : d = [e EXCEPT !.reversed = e.reversed + 1]
      OBVIOUS
    <3>4. d \in Journal /\ d.late = e.late /\ d.reversed # 0
      BY <3>2, <3>3 DEF Journal
    <3>5. g[j] = e \/ g[j] = d
      BY <2>2, <3>1, <3>3
    <3> QED BY <3>1, <3>2, <3>4, <3>5
  <2>4. g = [j \in 1..Len(f) |-> g[j]]
    BY <1>6, <2>1
  <2>5. g \in [1..Len(f) -> Journal]
    BY <2>3, <2>4
  <2>6. g \in Seq(Journal)
    BY <2>1, <2>5, SeqDef
  <2> QED BY <2>1, <2>3, <2>5, <2>6
<1>8. /\ accrual' \in [Rows -> Seq(Journal)] /\ accrual'[r] = g
      /\ \A s \in Rows \ {r} : accrual'[s] = accrual[s]
  <2>1. accrual' = [accrual EXCEPT ![r] = g]
    BY <1>2, <1>4, <1>6
  <2> QED BY <1>2, <1>7, <2>1 DEF OweInv
<1>9. ASSUME NEW s \in Rows, Leaving(s)' PROVE Repaid(s)'
  <2>1. Repaid(s)
    BY <1>3, <1>9 DEF OweInv
  <2>2. CASE s # r
    BY <1>8, <2>1, <2>2 DEF Repaid, Unreversed
  <2>3. CASE s = r
    BY <1>4, <1>7, <1>8, <2>1, <2>3 DEF Repaid, Unreversed
  <2> QED BY <2>2, <2>3
<1> QED BY <1>8, <1>9 DEF OweInv

\* A step that writes no row but may change what a request does.
LEMMA AskedOwes ==
  ASSUME IInv, OweInv, NEW h \in Handlers, NEW p, Go(h, p), UNCHANGED <<row, accrual>>,
         p.pc = "cancel" => Unreversed(p.row) = {}
  PROVE  OweInv'
<1>1. \A r \in Rows : row'[r].st = "CANCELLED" => Leaving(r)
  BY DEF Leaving
<1> QED BY <1>1, StillOwes, GoBecomes

LEMMA AskOwes == ASSUME IInv, OweInv, NEW h \in Handlers, NEW r \in Rows, Ask(h, r) PROVE OweInv'
<1>1. CASE Resume(h, r)
  <2>1. \A s \in Rows : row'[s].st = "CANCELLED" => row[s].st = "CANCELLED"
    BY <1>1 DEF Resume, IInv, Typed, RowRecord
  <2>2. UNCHANGED <<accrual, req>>
    BY <1>1 DEF Resume
  <2> QED BY <2>1, <2>2 DEF OweInv, Leaving, Repaid, Unreversed
<1>2. CASE GenerateNow(h, r)
  <2>1. PICK p : p = [Idle EXCEPT !.pc = "send", !.row = r, !.next = row[r].next, !.rest = {}]
    OBVIOUS
  <2>2. p.pc = "send"
    BY <2>1 DEF Idle
  <2> QED BY <1>2, <2>1, <2>2, AskedOwes DEF GenerateNow, Generate
<1>3. CASE LoadUpdate(h, r) \/ LoadPause(h, r)
  <2>1. PICK x : Go(h, [Idle EXCEPT !.pc = "save", !.row = r, !.next = x])
    BY <1>3 DEF LoadUpdate, LoadPause
  <2>2. PICK p : p = [Idle EXCEPT !.pc = "save", !.row = r, !.next = x]
    OBVIOUS
  <2>3. p.pc = "save"
    BY <2>2 DEF Idle
  <2> QED BY <1>3, <2>1, <2>2, <2>3, AskedOwes DEF LoadUpdate, LoadPause
<1>4. CASE LoadToggle(h, r) \/ LoadRemove(h, r) \/ LoadCancel(h, r)
  <2>1. PICK pc \in {"switchOff", "switchOn", "remove", "cancel"} :
          /\ Go(h, [Idle EXCEPT !.pc = pc, !.row = r])
          /\ pc = "cancel" => Unreversed(r) = {}
    BY <1>4 DEF LoadToggle, LoadRemove, LoadCancel
  <2>2. PICK p : p = [Idle EXCEPT !.pc = pc, !.row = r]
    OBVIOUS
  <2>3. p.pc = pc /\ p.row = r
    BY <2>2 DEF Idle
  <2>4. UNCHANGED <<row, accrual>>
    BY <1>4 DEF LoadToggle, LoadRemove, LoadCancel
  <2> QED BY <2>1, <2>2, <2>3, <2>4, AskedOwes
<1>5. CASE LoadReverse(h, r)
  <2>1. PICK i : Go(h, [Idle EXCEPT !.pc = "reverse", !.row = r, !.target = i])
    BY <1>5 DEF LoadReverse
  <2>2. PICK p : p = [Idle EXCEPT !.pc = "reverse", !.row = r, !.target = i]
    OBVIOUS
  <2>3. p.pc = "reverse"
    BY <2>2 DEF Idle
  <2> QED BY <1>5, <2>1, <2>2, <2>3, AskedOwes DEF LoadReverse
<1> QED BY <1>1, <1>2, <1>3, <1>4, <1>5 DEF Ask

LEMMA OnwardOwes == ASSUME IInv, NEW h \in Handlers, Onward(h)
                    PROVE  \E p : Go(h, p) /\ p.pc # "cancel"
<1>1. PICK p : p = [Idle EXCEPT !.pc = "next", !.rest = req[h].rest, !.seen = req[h].seen]
  OBVIOUS
<1>2. p.pc # "cancel"
  BY <1>1 DEF Idle
<1> QED BY <1>1, <1>2, IdleFree DEF Onward

LEMMA RunOwes ==
  ASSUME IInv, OweInv, NEW h \in Handlers,
         ProcessDueSchedules(h) \/ RunDue(h) \/ NextSchedule(h) \/ Send(h) \/ Fail(h)
  PROVE  OweInv'
<1>1. Held(req[h])
  BY DEF IInv, Requests
<1>2. UNCHANGED <<row, accrual>>
  BY DEF ProcessDueSchedules, RunDue, NextSchedule, Send, Fail
<1>3. \E p : Go(h, p) /\ p.pc # "cancel"
  <2>1. CASE ProcessDueSchedules(h)
    <3>1. PICK p : p = [Idle EXCEPT !.pc = "next", !.rest = Due("schedule")]
      OBVIOUS
    <3>2. p.pc = "next"
      BY <3>1 DEF Idle
    <3> QED BY <2>1, <3>1, <3>2 DEF ProcessDueSchedules
  <2>2. CASE RunDue(h)
    <3>1. PICK due : due = Due("commitment")
      OBVIOUS
    <3>2. PICK p : p = [Idle EXCEPT !.pc = "next", !.rest = due, !.seen = [r \in due |-> row[r].next]]
      OBVIOUS
    <3>3. p.pc = "next"
      BY <3>2 DEF Idle
    <3>4. Go(h, p)
      BY <2>2, <3>1, <3>2 DEF RunDue
    <3> QED BY <3>3, <3>4
  <2>3. CASE NextSchedule(h)
    <3>1. PICK r \in req[h].rest :
            \/ Generate(h, r, req[h].rest \ {r})
            \/ Go(h, Idle)
            \/ Go(h, [req[h] EXCEPT !.rest = req[h].rest \ {r}])
      BY <2>3 DEF NextSchedule
    <3>2. CASE Generate(h, r, req[h].rest \ {r})
      <4>1. PICK p : p = [Idle EXCEPT !.pc = "send", !.row = r, !.next = row[r].next,
                                      !.rest = req[h].rest \ {r}]
        OBVIOUS
      <4>2. p.pc = "send"
        BY <4>1 DEF Idle
      <4> QED BY <3>2, <4>1, <4>2 DEF Generate
    <3>3. PICK p : p = [req[h] EXCEPT !.rest = req[h].rest \ {r}]
      OBVIOUS
    <3>4. p.pc # "cancel"
      BY <1>1, <2>3, <3>3 DEF NextSchedule, Held
    <3> QED BY <3>1, <3>2, <3>3, <3>4, IdleFree
  <2>4. CASE Send(h)
    <3>1. PICK p : p = [req[h] EXCEPT !.pc = "move"]
      OBVIOUS
    <3>2. p.pc = "move"
      BY <1>1, <3>1 DEF Held
    <3> QED BY <2>4, <3>1, <3>2 DEF Send
  <2>5. CASE Fail(h)
    <3>1. CASE Onward(h)
      BY <3>1, OnwardOwes
    <3>2. ASSUME NEW r, req[h].pc = "next",
                 Go(h, Idle) \/ Go(h, [req[h] EXCEPT !.rest = req[h].rest \ {r}])
          PROVE  \E p : Go(h, p) /\ p.pc # "cancel"
      <4>1. PICK p : p = [req[h] EXCEPT !.rest = req[h].rest \ {r}]
        OBVIOUS
      <4>2. p.pc # "cancel"
        BY <1>1, <3>2, <4>1 DEF Held
      <4> QED BY <3>2, <4>1, <4>2, IdleFree
    <3> QED BY <2>5, <3>1, <3>2 DEF Fail
  <2> QED BY <2>1, <2>2, <2>3, <2>4, <2>5
<1> QED BY <1>2, <1>3, AskedOwes

\* The writes of a row: only Cancel makes it cancelled.
LEMMA WriteOwes ==
  ASSUME IInv, OweInv, NEW h \in Handlers,
         Move(h) \/ Save(h) \/ Toggle(h) \/ Remove(h) \/ Cancel(h)
  PROVE  OweInv'
<1>1. PICK r : r = req[h].row
  OBVIOUS
<1>2. r \in Rows /\ req[h].next \in Date
  BY <1>1 DEF Move, Save, Toggle, Remove, Cancel, IInv, Requests, Held, OnRow
<1>3. PICK p : Go(h, p) /\ p.pc # "cancel"
  <2>1. CASE Onward(h)
    BY <2>1, OnwardOwes
  <2>2. CASE Go(h, Idle)
    BY <2>2, IdleFree
  <2> QED BY <2>1, <2>2 DEF Move, Save, Toggle, Remove, Cancel
<1>4. UNCHANGED accrual
  BY DEF Move, Save, Toggle, Remove, Cancel
<1>5. ASSUME NEW f, NEW x, Put(r, f, x), f.st # "CANCELLED" \/ Leaving(r), f \in RowRecord
      PROVE  \A s \in Rows : row'[s].st = "CANCELLED" => Leaving(s)
  <2>1. \A s \in Rows : row'[s] = IF s = r THEN [f EXCEPT !.next = x] ELSE row[s]
    BY <1>5 DEF Put, IInv, Typed
  <2>2. [f EXCEPT !.next = x].st = f.st
    BY <1>5 DEF RowRecord
  <2> QED BY <1>5, <2>1, <2>2 DEF Leaving
<1>6. ASSUME NEW st, row' = [row EXCEPT ![r].st = st], st # "CANCELLED" \/ Leaving(r)
      PROVE  \A s \in Rows : row'[s].st = "CANCELLED" => Leaving(s)
  <2>1. \A s \in Rows : row'[s] = IF s = r THEN [row[r] EXCEPT !.st = st] ELSE row[s]
    BY <1>6 DEF IInv, Typed
  <2>2. [row[r] EXCEPT !.st = st].st = st
    BY <1>2 DEF IInv, Typed, RowRecord
  <2> QED BY <1>6, <2>1, <2>2 DEF Leaving
<1>7. CASE UNCHANGED row
  BY <1>3, <1>4, <1>7, AskedOwes
<1>8. CASE \A s \in Rows : row'[s].st = "CANCELLED" => Leaving(s)
  BY <1>3, <1>4, <1>8, StillOwes, GoBecomes
<1>9. CASE Move(h)
  <2>1. PICK f : f = [row[r] EXCEPT !.generated = TRUE]
    OBVIOUS
  <2>2. f \in RowRecord /\ f.st = row[r].st
    BY <1>2, <2>1 DEF IInv, Typed, RowRecord
  <2>3. UNCHANGED row \/ \E x : Put(r, f, x)
    BY <1>1, <1>9, <2>1 DEF Move
  <2> QED BY <1>5, <1>7, <1>8, <2>2, <2>3 DEF Leaving
<1>10. CASE Save(h)
  <2>1. PICK f : f = IF Is(r, "schedule") THEN row[r] ELSE [row[r] EXCEPT !.st = "PAUSED"]
    OBVIOUS
  <2>2. f \in RowRecord /\ (f.st = row[r].st \/ f.st = "PAUSED")
    BY <1>2, <2>1 DEF IInv, Typed, RowRecord
  <2>3. UNCHANGED row \/ \E x : Put(r, f, x)
    BY <1>1, <1>10, <2>1 DEF Save
  <2> QED BY <1>5, <1>7, <1>8, <2>2, <2>3 DEF Leaving
<1>11. CASE Toggle(h)
  BY <1>1, <1>6, <1>7, <1>8, <1>11 DEF Toggle
<1>12. CASE Remove(h)
  <2>1. PICK st : st = "gone"
    OBVIOUS
  <2>2. row' = [row EXCEPT ![r].st = st] /\ st # "CANCELLED"
    BY <1>1, <1>12, <2>1 DEF Remove
  <2>3. \A s \in Rows : row'[s].st = "CANCELLED" => Leaving(s)
    BY <1>6, <2>2
  <2> QED BY <1>8, <2>3
<1>13. CASE Cancel(h)
  BY <1>1, <1>6, <1>8, <1>13 DEF Cancel, Leaving
<1> QED BY <1>9, <1>10, <1>11, <1>12, <1>13

LEMMA InitOwes == Init => OweInv
  BY IdleFree DEF Init, OweInv, Leaving, Absent

LEMMA NextOwes == IInv /\ OweInv /\ [Next]_vars => OweInv'
<1> SUFFICES ASSUME IInv, OweInv, [Next]_vars PROVE OweInv'
  OBVIOUS
<1>1. CASE UNCHANGED vars \/ TimePasses
  BY <1>1 DEF vars, TimePasses, OweInv, Leaving, Repaid, Unreversed
<1>2. CASE Restart
  BY <1>2, IdleFree DEF Restart, OweInv, Leaving, Repaid, Unreversed
<1>3. ASSUME NEW r \in Rows, Create(r) PROVE OweInv'
  <2>1. PICK kind, x : Put(r, [Absent EXCEPT !.kind = kind, !.st = "ACTIVE"], x)
    BY <1>3 DEF Create
  <2>2. \A s \in Rows : row'[s].st = "CANCELLED" => row[s].st = "CANCELLED"
    BY <2>1 DEF Put, Absent, IInv, Typed
  <2>3. UNCHANGED <<accrual, req>>
    BY <1>3 DEF Create
  <2> QED BY <2>2, <2>3 DEF OweInv, Leaving, Repaid, Unreversed
<1>4. ASSUME NEW h \in Handlers, Serve(h) PROVE OweInv'
  BY <1>4, RunOwes, PostOwes, ReverseOwes, WriteOwes DEF Serve
<1> QED BY <1>1, <1>2, <1>3, <1>4, RunOwes, AskOwes DEF Next

\* For any rows, requests and bounds: each accrual of a cancelled commitment has
\* its reversal, except one a run posted after the cancellation's check.
THEOREM CancelledIsRepaid == Spec => []CancelledOwesNothing
<1>1. OweInv => CancelledOwesNothing
  BY DEF OweInv, CancelledOwesNothing, Leaving, Repaid
<1> QED BY <1>1, InitIInv, NextKeeps, InitOwes, NextOwes, PTL DEF Spec
=============================================================================
