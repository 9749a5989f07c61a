----------------------------- MODULE Approvals ------------------------------
(***************************************************************************)
(* Approval requests of the dual control (dual-control.service.ts): a user *)
(* asks, a manager decides, and a request that needs the approval uses it  *)
(* up before it does its work.                                             *)
(*                                                                         *)
(* decide and consumeApprovalToken read the row, check it, and write its   *)
(* status by its id alone, so another request may write in between. Two    *)
(* variables only the properties read: spent counts the requests that went *)
(* on with an approval, shared holds the approvals that two requests had   *)
(* read at the same time. Who asks and who decides, the other means of     *)
(* approval (PIN, password, code, badge) and the audit log are left out.   *)
(***************************************************************************)
EXTENDS Integers, FiniteSets

CONSTANTS
  ApprovalRequests,  \* rows that may come to exist
  Handlers,          \* requests the API can be serving at once
  None,
  MaxOpen            \* bound: requests waiting to be decided or used

VARIABLES
  approval,  \* approval_requests: status, and whether expiresAt has passed
  spent, shared,
  req        \* what each handler is doing, with what it has read

approvalVars == <<approval, spent, shared>>

Statuses == {"none", "PENDING", "APPROVED", "REJECTED", "CONSUMED", "EXPIRED"}
Idle == [pc |-> "idle", approval |-> None, claim |-> None, op |-> "none", amount |-> 0]

ApprovalsInit ==
  /\ approval = [a \in ApprovalRequests |-> [st |-> "none", due |-> FALSE]]
  /\ spent = [a \in ApprovalRequests |-> 0]
  /\ shared = {}

Open == {a \in ApprovalRequests : approval[a].st \in {"PENDING", "APPROVED"}}
Serve(h, r) == req[h].pc = "idle" /\ req' = [req EXCEPT ![h] = r]
SetStatus(a, st) == approval' = [approval EXCEPT ![a].st = st]
\* Bound: a third request does not read it, the properties leave it out by then.
NowHas(a) ==
  /\ a \notin shared
  /\ shared' = IF \E h \in Handlers : req[h].approval = a THEN shared \cup {a} ELSE shared

Ask(a) ==
  /\ approval[a].st = "none" /\ Cardinality(Open) < MaxOpen
  /\ SetStatus(a, "PENDING")
  /\ UNCHANGED <<spent, shared, req>>

TimePasses(a) ==
  /\ a \in Open /\ ~approval[a].due
  /\ approval' = [approval EXCEPT ![a].due = TRUE]
  /\ UNCHANGED <<spent, shared, req>>

\* Every read of a request first writes that its time is over.
ExpireStale(a) ==
  /\ a \in Open /\ approval[a].due
  /\ SetStatus(a, "EXPIRED")
  /\ UNCHANGED <<spent, shared, req>>

LoadDecision(h, a) ==
  /\ approval[a].st = "PENDING" /\ ~approval[a].due
  /\ \E st \in {"APPROVED", "REJECTED"} :
       Serve(h, [Idle EXCEPT !.pc = "decide", !.approval = a, !.op = st])
  /\ NowHas(a)
  /\ UNCHANGED <<approval, spent>>

Decide(h) ==
  /\ req[h].pc = "decide"
  /\ SetStatus(req[h].approval, req[h].op)
  /\ req' = [req EXCEPT ![h] = Idle]
  /\ UNCHANGED <<spent, shared>>

\* A request for op on c brings the approval a.
LoadApproval(h, a, op, c) ==
  /\ approval[a].st = "APPROVED" /\ ~approval[a].due
  /\ Serve(h, [Idle EXCEPT !.pc = "consume", !.approval = a, !.op = op, !.claim = c])
  /\ NowHas(a)
  /\ UNCHANGED <<approval, spent>>

\* Faulty: leaves the row as it is.
ConsumeUnwritten(h) ==
  LET a == req[h].approval IN
  /\ req[h].pc = "consume"
  /\ spent' = [spent EXCEPT ![a] = @ + 1]
  /\ req' = [req EXCEPT ![h].pc = req[h].op, ![h].approval = None]
  /\ UNCHANGED <<approval, shared>>

Consume(h) ==
  LET a == req[h].approval IN
  /\ req[h].pc = "consume"
  /\ SetStatus(a, "CONSUMED")
  /\ spent' = [spent EXCEPT ![a] = @ + 1]
  /\ req' = [req EXCEPT ![h].pc = req[h].op, ![h].approval = None]
  /\ UNCHANGED shared

ApprovalStep ==
  \/ \E a \in ApprovalRequests : Ask(a) \/ TimePasses(a) \/ ExpireStale(a)
  \/ \E h \in Handlers :
       \/ \E a \in ApprovalRequests : LoadDecision(h, a)
       \/ Decide(h) \/ Consume(h)
-----------------------------------------------------------------------------
\* "One-shot consume of an APPROVED request": one approval lets one request go
\* on, and stays CONSUMED, whatever was decided or expired; only requests that
\* read it at the same time can make it otherwise.
UsedOnce ==
  \A a \in ApprovalRequests \ shared :
    spent[a] <= 1 /\ (spent[a] = 1 => approval[a].st = "CONSUMED")
=============================================================================
