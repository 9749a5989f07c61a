--------------------------- MODULE RecurringWork ----------------------------
(***************************************************************************)
(* Work that comes back every month: scheduled invoices                    *)
(* (scheduled-invoices.service.ts, invoices-scheduler.service.ts) and      *)
(* recurring commitments (commitments.service.ts, gl-posting.service.ts).  *)
(*                                                                         *)
(* Two daily jobs and the users' requests take the rows that are due, do   *)
(* each row's work (an invoice sent, an accrual posted) and then move the  *)
(* row's date by a month, in separate statements. The schedules' job reads *)
(* a row again when its turn comes; the commitments' job works from the    *)
(* rows as it selected them. A date is a month and a day of a year that    *)
(* starts in January, so that moving the 31st by a month does what         *)
(* Date.setMonth does; the clock only shows the month.                     *)
(*                                                                         *)
(* Variables only the properties read: start is the date a row's run of    *)
(* months began with (chosen by hand, or put back by a request that had    *)
(* read an older row), done how often a month's work was done (2 stands    *)
(* for more), excused the rows that two requests worked on at once, whose  *)
(* request stopped between the work and the move, or whose date was put    *)
(* back.                                                                   *)
(***************************************************************************)
EXTENDS Integers, Sequences, FiniteSets

CONSTANTS
  Rows,                          \* scheduled invoices or commitments that may come to exist
  InvoicesJob, CommitmentsJob,   \* the requests of the two daily jobs
  Users,                         \* requests by hand served at a time
  FirstDays,                     \* days of the month a date chosen by hand can have
  DayOfMonth,                    \* the day a commitment is moved to, 0 for none
  None,                          \* no row
  LastMonth, MaxEdits, MaxStops  \* bounds: the clock, changes by hand, requests that stop

ASSUME RecurringConstants ==
  /\ None \notin Rows
  /\ InvoicesJob # CommitmentsJob /\ {InvoicesJob, CommitmentsJob} \cap Users = {}
  /\ FirstDays \subseteq 1..31 /\ DayOfMonth \in 0..28
  /\ LastMonth \in 1..9 /\ {MaxEdits, MaxStops} \subseteq Nat

Handlers == Users \cup {InvoicesJob, CommitmentsJob}

VARIABLES
  today,    \* the current month
  row,      \* scheduled_invoices and recurring_commitments, by id
  accrual,  \* the journals COMMIT:<id>:..., oldest first, with their reversals
  start, done, excused,
  edits, stops,
  req       \* request -> the work it is in

vars == <<today, row, accrual, start, done, excused, edits, stops, req>>
quiet == <<today, edits, stops>>

\* The year 2026, or any year that is not a leap year.
Length(m) == CASE m = 2 -> 28 [] m \in {4, 6, 9, 11} -> 30 [] OTHER -> 31

\* generated stands for lastGeneratedAt # null.
Absent == [kind |-> "none", st |-> "none", next |-> [m |-> 1, d |-> 1], generated |-> FALSE]
Idle == [pc |-> "idle", rest |-> {}, seen |-> <<>>, row |-> None, next |-> Absent.next, target |-> 0]

Init ==
  /\ today = 1
  /\ row = [r \in Rows |-> Absent]
  /\ accrual = [r \in Rows |-> <<>>]
  /\ start = [r \in Rows |-> Absent.next]
  /\ done = [r \in Rows |-> [m \in 1..LastMonth |-> 0]]
  /\ excused = {} /\ edits = 0 /\ stops = 0
  /\ req = [h \in Handlers |-> Idle]

TimePasses ==
  /\ today < LastMonth
  /\ today' = today + 1
  /\ UNCHANGED <<row, accrual, start, done, excused, edits, stops, req>>

Is(r, kind) == row[r].kind = kind /\ row[r].st # "gone"
\* Faulty: only what was due before this month.
DueBefore(kind) ==
  {r \in Rows : Is(r, kind) /\ row[r].st = "ACTIVE" /\ row[r].next.m < today}
Due(kind) == {r \in Rows : Is(r, kind) /\ row[r].st = "ACTIVE" /\ row[r].next.m <= today}

\* Faulty: the date moves from today, not from the row's own date.
AddMonthToToday(x) == [m |-> today + 1, d |-> x.d]

\* setMonth(getMonth() + 1): a day the next month does not have runs over into
\* the month after it.
AddMonth(x) ==
  IF x.d <= Length(x.m + 1) THEN [m |-> x.m + 1, d |-> x.d]
  ELSE [m |-> x.m + 2, d |-> x.d - Length(x.m + 1)]

AdvanceNextRun(x) == [AddMonth(x) EXCEPT !.d = IF DayOfMonth = 0 THEN @ ELSE DayOfMonth]

\* The requests that read a row's date and will write it.
Working(r) ==
  {h \in Handlers : \/ req[h].row = r /\ req[h].pc \in {"send", "move", "save"}
                    \/ r \in DOMAIN req[h].seen /\ r \in req[h].rest}
NowOn(rs) == excused' = excused \cup {r \in rs : Working(r) # {}}

Go(h, state) == req' = [req EXCEPT ![h] = state]
\* On to the next selected row, or the answer.
Onward(h) ==
  Go(h, IF req[h].rest = {} THEN Idle ELSE [Idle EXCEPT !.pc = "next", !.rest = req[h].rest, !.seen = req[h].seen])

Put(r, f, x) == row' = [row EXCEPT ![r] = [f EXCEPT !.next = x]]
Began(r, x) == start' = [start EXCEPT ![r] = x]
Did(r, m) == done' = [done EXCEPT ![r][m] = IF @ < 2 THEN @ + 1 ELSE @]

\* An act by hand: bounded in number, and none on a row already excused.
ByHand(h, r) ==
  /\ h \in Users /\ req[h].pc = "idle"
  /\ edits < MaxEdits /\ edits' = edits + 1
  /\ r \notin excused
-----------------------------------------------------------------------------
(* Creation. *)
Create(r) ==
  /\ row[r].st = "none"
  /\ \E kind \in {"schedule", "commitment"}, d \in FirstDays :
       LET x == [m |-> today, d |-> d] IN
       /\ Put(r, [Absent EXCEPT !.kind = kind, !.st = "ACTIVE"], x)
       /\ Began(r, x)
  /\ UNCHANGED <<quiet, accrual, done, excused, req>>
-----------------------------------------------------------------------------
(* Scheduled invoices. *)

\* The daily job, or process-due.
ProcessDueSchedules(h) ==
  /\ h \in Users \cup {InvoicesJob} /\ req[h].pc = "idle"
  /\ Due("schedule") # {}
  /\ Go(h, [Idle EXCEPT !.pc = "next", !.rest = Due("schedule")])
  /\ UNCHANGED <<quiet, row, accrual, start, done, excused>>

\* generateNow as far as its check: the loop catches what it throws.
Generate(h, r, rest) ==
  /\ row[r].next.m <= LastMonth
  /\ Go(h, [Idle EXCEPT !.pc = "send", !.row = r, !.next = row[r].next, !.rest = rest])
  /\ NowOn({r})

NextSchedule(h) ==
  /\ req[h].pc = "next" /\ DOMAIN req[h].seen = {}
  /\ \E r \in req[h].rest :
       LET rest == req[h].rest \ {r} IN
       IF row[r].st = "ACTIVE" /\ row[r].next.m <= LastMonth THEN Generate(h, r, rest)
       ELSE /\ Go(h, IF rest = {} THEN Idle ELSE [req[h] EXCEPT !.rest = rest])
            /\ UNCHANGED excused
  /\ UNCHANGED <<quiet, row, accrual, start, done>>

GenerateNow(h, r) ==
  /\ ByHand(h, r)
  /\ Is(r, "schedule") /\ row[r].st = "ACTIVE"
  /\ Generate(h, r, {})
  /\ UNCHANGED <<today, stops, row, accrual, start, done>>

\* The invoice is created, sent and posted.
Send(h) ==
  /\ req[h].pc = "send"
  /\ Did(req[h].row, req[h].next.m)
  /\ Go(h, [req[h] EXCEPT !.pc = "move"])
  /\ UNCHANGED <<quiet, row, accrual, start, excused>>

LoadToggle(h, r) ==
  /\ ByHand(h, r)
  /\ Is(r, "schedule") /\ row[r].st # "none"
  /\ Go(h, [Idle EXCEPT !.pc = IF row[r].st = "ACTIVE" THEN "switchOff" ELSE "switchOn", !.row = r])
  /\ UNCHANGED <<today, stops, row, accrual, start, done, excused>>

Toggle(h) ==
  /\ req[h].pc \in {"switchOff", "switchOn"}
  /\ IF row[req[h].row].st = "gone" THEN UNCHANGED row
     ELSE row' = [row EXCEPT ![req[h].row].st = IF req[h].pc = "switchOn" THEN "ACTIVE" ELSE "INACTIVE"]
  /\ Go(h, Idle)
  /\ UNCHANGED <<quiet, accrual, start, done, excused>>

\* An edit that names no date writes back the one it read.
Chosen(r) == {row[r].next} \cup [m : {today}, d : FirstDays]

LoadUpdate(h, r) ==
  /\ ByHand(h, r)
  /\ Is(r, "schedule")
  /\ \E x \in Chosen(r) : Go(h, [Idle EXCEPT !.pc = "save", !.row = r, !.next = x])
  /\ NowOn({r})
  /\ UNCHANGED <<today, stops, row, accrual, start, done>>

LoadRemove(h, r) ==
  /\ ByHand(h, r)
  /\ Is(r, "schedule") /\ ~row[r].generated
  /\ Go(h, [Idle EXCEPT !.pc = "remove", !.row = r])
  /\ UNCHANGED <<today, stops, row, accrual, start, done, excused>>

Remove(h) ==
  /\ req[h].pc = "remove"
  /\ row' = [row EXCEPT ![req[h].row].st = "gone"]
  /\ Go(h, Idle)
  /\ UNCHANGED <<quiet, accrual, start, done, excused>>
-----------------------------------------------------------------------------
(* Commitments. *)

\* The daily job, or run-due.
RunDue(h) ==
  LET due == Due("commitment") IN
  /\ h \in Users \cup {CommitmentsJob} /\ req[h].pc = "idle"
  /\ due # {}
  /\ Go(h, [Idle EXCEPT !.pc = "next", !.rest = due, !.seen = [r \in due |-> row[r].next]])
  /\ NowOn(due)
  /\ UNCHANGED <<quiet, row, accrual, start, done>>

\* late: the commitment was cancelled, or found free of accruals, before.
PostCommitmentAccrual(h) ==
  /\ req[h].pc = "next"
  /\ \E r \in req[h].rest \cap DOMAIN req[h].seen :
       LET x == req[h].seen[r]
           late == row[r].st = "CANCELLED" \/ \E g \in Handlers : req[g].pc = "cancel" /\ req[g].row = r
       IN /\ accrual' = [accrual EXCEPT ![r] = Append(@, [late |-> late, reversed |-> 0])]
          /\ Did(r, x.m)
          /\ Go(h, [req[h] EXCEPT !.pc = "move", !.row = r, !.next = x, !.rest = @ \ {r}])
  /\ UNCHANGED <<quiet, row, start, excused>>

\* Faulty: only the time of the run is kept.
MoveNothing(h) ==
  /\ req[h].pc = "move"
  /\ Onward(h)
  /\ UNCHANGED <<quiet, row, start, accrual, done, excused>>

\* The end of both: a date that is not the one read is overwritten.
Move(h) ==
  LET r == req[h].row  x == req[h].next IN
  /\ req[h].pc = "move"
  /\ IF row[r].st = "gone" THEN UNCHANGED <<row, start>>
     ELSE /\ Put(r, [row[r] EXCEPT !.generated = TRUE],
                 IF Is(r, "schedule") THEN AddMonth(x) ELSE AdvanceNextRun(x))
          /\ IF row[r].next = x THEN UNCHANGED start ELSE Began(r, x)
  /\ Onward(h)
  /\ UNCHANGED <<quiet, accrual, done, excused>>

\* Put off to a date, or only paused: that writes back the date it read.
LoadPause(h, r) ==
  /\ ByHand(h, r)
  /\ Is(r, "commitment")
  /\ \E x \in Chosen(r) : Go(h, [Idle EXCEPT !.pc = "save", !.row = r, !.next = x])
  /\ NowOn({r})
  /\ UNCHANGED <<today, stops, row, accrual, start, done>>

\* The write of an edited schedule or a paused commitment.
Save(h) ==
  LET r == req[h].row  x == req[h].next IN
  /\ req[h].pc = "save"
  /\ IF row[r].st = "gone" THEN UNCHANGED <<row, start, excused>>
     ELSE /\ Put(r, IF Is(r, "schedule") THEN row[r] ELSE [row[r] EXCEPT !.st = "PAUSED"], x)
          /\ IF row[r].next = x THEN UNCHANGED start ELSE Began(r, x)
          /\ excused' = IF x.m < row[r].next.m THEN excused \cup {r} ELSE excused
  /\ Go(h, Idle)
  /\ UNCHANGED <<quiet, accrual, done>>

Resume(h, r) ==
  /\ ByHand(h, r)
  /\ Is(r, "commitment")
  /\ row' = [row EXCEPT ![r].st = "ACTIVE"]
  /\ UNCHANGED <<today, stops, accrual, start, done, excused, req>>

Unreversed(r) == {i \in DOMAIN accrual[r] : accrual[r][i].reversed = 0}

\* Faulty: only the last accrual is looked at.
LoadCancelLast(h, r) ==
  /\ ByHand(h, r)
  /\ Is(r, "commitment") /\ row[r].st # "CANCELLED"
  /\ Len(accrual[r]) \notin Unreversed(r)
  /\ Go(h, [Idle EXCEPT !.pc = "cancel", !.row = r])
  /\ UNCHANGED <<today, stops, row, accrual, start, done, excused>>

LoadCancel(h, r) ==
  /\ ByHand(h, r)
  /\ Is(r, "commitment") /\ row[r].st # "CANCELLED"
  /\ Unreversed(r) = {}
  /\ Go(h, [Idle EXCEPT !.pc = "cancel", !.row = r])
  /\ UNCHANGED <<today, stops, row, accrual, start, done, excused>>

Cancel(h) ==
  /\ req[h].pc = "cancel"
  /\ row' = [row EXCEPT ![req[h].row].st = "CANCELLED"]
  /\ Go(h, Idle)
  /\ UNCHANGED <<quiet, accrual, start, done, excused>>

\* The newest accrual without an entry REV-COMMIT:<journal>.
LoadReverse(h, r) ==
  /\ ByHand(h, r)
  /\ Is(r, "commitment") /\ Unreversed(r) # {}
  /\ \E i \in Unreversed(r) :
       /\ \A j \in Unreversed(r) : j <= i
       /\ Go(h, [Idle EXCEPT !.pc = "reverse", !.row = r, !.target = i])
  /\ UNCHANGED <<today, stops, row, accrual, start, done, excused>>

ReverseCommitmentAccrual(h) ==
  /\ req[h].pc = "reverse"
  /\ accrual' = [accrual EXCEPT ![req[h].row][req[h].target].reversed = @ + 1]
  /\ Go(h, Idle)
  /\ UNCHANGED <<quiet, row, start, done, excused>>
-----------------------------------------------------------------------------
\* A statement fails: a loop catches it and goes on with the next row.
Fail(h) ==
  /\ stops < MaxStops /\ stops' = stops + 1
  /\ \/ /\ req[h].pc \notin {"idle", "next"}
        /\ excused' = IF req[h].pc = "move" THEN excused \cup {req[h].row} ELSE excused
        /\ Onward(h)
     \/ /\ req[h].pc = "next"
        /\ \E r \in req[h].rest \cap DOMAIN req[h].seen :
             LET rest == req[h].rest \ {r} IN
             Go(h, IF rest = {} THEN Idle ELSE [req[h] EXCEPT !.rest = rest])
        /\ UNCHANGED excused
  /\ UNCHANGED <<today, edits, row, accrual, start, done>>

\* The server restarts: every request is gone.
Restart ==
  /\ stops < MaxStops /\ stops' = stops + 1
  /\ \E h \in Handlers : req[h].pc # "idle"
  /\ excused' = excused \cup {r \in Rows : \E h \in Handlers : req[h].pc = "move" /\ req[h].row = r}
  /\ req' = [h \in Handlers |-> Idle]
  /\ UNCHANGED <<today, edits, row, accrual, start, done>>

Job == ProcessDueSchedules(InvoicesJob) \/ RunDue(CommitmentsJob)
Ask(h, r) ==
  \/ GenerateNow(h, r) \/ LoadToggle(h, r) \/ LoadUpdate(h, r) \/ LoadRemove(h, r)
  \/ LoadPause(h, r) \/ Resume(h, r) \/ LoadCancel(h, r) \/ LoadReverse(h, r)
Serve(h) ==
  \/ NextSchedule(h) \/ Send(h) \/ PostCommitmentAccrual(h) \/ Move(h)
  \/ Toggle(h) \/ Save(h) \/ Remove(h) \/ Cancel(h) \/ ReverseCommitmentAccrual(h)

Next ==
  \/ TimePasses \/ Restart
  \/ \E r \in Rows : Create(r)
  \/ \E h \in Handlers : ProcessDueSchedules(h) \/ RunDue(h)
  \/ \E h \in Handlers, r \in Rows : Ask(h, r)
  \/ \E h \in Handlers : Serve(h) \/ Fail(h)

\* The jobs run every day, and a request that runs goes on running.
Spec ==
  /\ Init /\ [][Next]_vars
  /\ WF_vars(ProcessDueSchedules(InvoicesJob)) /\ WF_vars(RunDue(CommitmentsJob))
  /\ \A h \in Handlers : WF_vars(Serve(h))
-----------------------------------------------------------------------------
(***************************************************************************)
(* Properties.                                                             *)
(***************************************************************************)
\* No month is passed over: every month a row's date has moved past since it
\* was last set had its invoice or its accrual, whatever failed, restarted or
\* overlapped. Only a month shorter than the day chosen can be left out.
NothingSkipped ==
  \A r \in Rows : \A m \in start[r].m .. row[r].next.m - 1 :
    m <= LastMonth => done[r][m] > 0 \/ Length(m) < start[r].d

\* A month's work is done twice only if two requests worked on the row at once,
\* one stopped between the work and the move of the date, or the date was put
\* back: runs that follow each other never repeat a month.
NothingTwice ==
  \A r \in Rows : (\E m \in 1..LastMonth : done[r][m] > 1) => r \in excused

\* A cancelled commitment leaves no expense behind: each of its accruals has
\* its reversal, except one that a run under way posted after the check.
CancelledOwesNothing ==
  \A r \in Rows : row[r].st = "CANCELLED" =>
    \A i \in Unreversed(r) : accrual[r][i].late

\* What is due is done in the end, one month a day, although runs fail and the
\* server restarts, as long as the row stays active with that date.
DueIsDone ==
  \A r \in Rows, m \in 1..LastMonth :
    LET due == row[r].st = "ACTIVE" /\ row[r].next.m = m
    IN due /\ m <= today ~> done[r][m] > 0 \/ ~due
=============================================================================
