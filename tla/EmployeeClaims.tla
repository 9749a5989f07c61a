--------------------------- MODULE EmployeeClaims ---------------------------
(***************************************************************************)
(* Expense claims of employees (employee-claims.service.ts), their         *)
(* journals (gl-posting.service.ts), and the approvals that paying,        *)
(* unpaying and rejecting use up first (employee-claims.controller.ts).    *)
(*                                                                         *)
(* An operation reads the claim, checks it, and writes in steps of its     *)
(* own; each of its journals is created and stored in two. accrued and     *)
(* paid are what the journals of a claim left on the payable and on the    *)
(* cash account. Two variables only the properties read: both holds the    *)
(* claims that two requests worked on at once, broken those a request      *)
(* stopped on (an error, a locked month, a restart).                       *)
(***************************************************************************)
EXTENDS Approvals

CONSTANTS
  Claims,   \* rows that may come to exist
  Amounts,  \* totals a claim can have
  MaxUnpaid, MaxStops  \* bounds: unpayments of a claim, requests that stop

ASSUME ClaimConstants ==
  /\ None \notin Claims \cup ApprovalRequests
  /\ Amounts \subseteq Nat \ {0}
  /\ {MaxUnpaid, MaxStops} \subseteq Nat

VARIABLES
  claim,  \* employee_claims, and what their journals left
  both, broken,
  stops

vars == <<approvalVars, claim, both, broken, stops, req>>

\* acc, pay: the amount of the journal that gl..JournalId names, 0 for none;
\* accReversed, payReversed: an entry REV-CLAIM-ACC, REV-CLAIM-PAY exists.
NoClaim == [st |-> "none", lines |-> FALSE, total |-> 0, acc |-> 0, pay |-> 0,
            accReversed |-> FALSE, payReversed |-> FALSE, accrued |-> 0, paid |-> 0,
            unpaid |-> 0]

Init ==
  /\ ApprovalsInit
  /\ claim = [c \in Claims |-> NoClaim]
  /\ both = {} /\ broken = {} /\ stops = 0
  /\ req = [h \in Handlers |-> Idle]

There(c) == claim[c].st \notin {"none", "gone"}
Handled(c) == \E h \in Handlers : req[h].claim = c
\* Bound: once two requests worked on a claim at once no other one starts on it,
\* because the properties leave it out from then on.
NowOn(c) ==
  /\ c \notin both
  /\ both' = IF Handled(c) THEN both \cup {c} ELSE both
Go(h, pc) == req' = [req EXCEPT ![h].pc = pc]
Finish(h) == req' = [req EXCEPT ![h] = Idle]
At(h, pc) == req[h].pc = pc /\ There(req[h].claim)

\* Reads a claim in one of these statuses, for a step that writes.
Load(h, c, statuses, pc, amount) ==
  /\ claim[c].st \in statuses
  /\ Serve(h, [Idle EXCEPT !.pc = pc, !.claim = c, !.amount = amount])
  /\ NowOn(c)
  /\ UNCHANGED <<approvalVars, claim, broken, stops>>

Write(c, row) == claim' = [claim EXCEPT ![c] = row]

Create(c) ==
  /\ claim[c].st = "none"
  /\ \E t \in Amounts : Write(c, [NoClaim EXCEPT !.st = "DRAFT", !.lines = TRUE, !.total = t])
  /\ UNCHANGED <<approvalVars, both, broken, stops, req>>

LoadUpdate(h, c) == \E t \in Amounts : Load(h, c, {"DRAFT"}, "lines", t)

DropLines(h) ==
  /\ At(h, "lines")
  /\ Write(req[h].claim, [claim[req[h].claim] EXCEPT !.lines = FALSE])
  /\ Go(h, "update")
  /\ UNCHANGED <<approvalVars, both, broken, stops>>

Update(h) ==
  /\ At(h, "update")
  /\ Write(req[h].claim, [claim[req[h].claim] EXCEPT !.lines = TRUE, !.total = req[h].amount])
  /\ Finish(h)
  /\ UNCHANGED <<approvalVars, both, broken, stops>>

LoadSubmit(h, c) == claim[c].lines /\ Load(h, c, {"DRAFT"}, "submit", 0)

Submit(h) ==
  /\ At(h, "submit")
  /\ Write(req[h].claim, [claim[req[h].claim] EXCEPT !.st = "SUBMITTED"])
  /\ Finish(h)
  /\ UNCHANGED <<approvalVars, both, broken, stops>>

LoadApprove(h, c) == Load(h, c, {"SUBMITTED"}, "approve", 0)

\* The accrual is posted from the row as it was written.
Approve(h) ==
  LET c == req[h].claim IN
  /\ At(h, "approve")
  /\ Write(c, [claim[c] EXCEPT !.st = "APPROVED"])
  /\ IF claim[c].acc # 0 THEN Finish(h)
     ELSE req' = [req EXCEPT ![h].pc = "accrue", ![h].op = "none", ![h].amount = claim[c].total]
  /\ UNCHANGED <<approvalVars, both, broken, stops>>

Accrue(h) ==
  /\ At(h, "accrue")
  /\ Write(req[h].claim, [claim[req[h].claim] EXCEPT !.accrued = @ + req[h].amount])
  /\ Go(h, "storeAccrual")
  /\ UNCHANGED <<approvalVars, both, broken, stops>>

\* A payment that found no accrual goes on; its approval is then done with.
StoreAccrual(h) ==
  /\ At(h, "storeAccrual")
  /\ Write(req[h].claim, [claim[req[h].claim] EXCEPT !.acc = req[h].amount])
  /\ IF req[h].op = "pay" THEN Go(h, "markPaid") ELSE Finish(h)
  /\ UNCHANGED <<approvalVars, both, broken, stops>>

(***************************************************************************)
(* Operations that need an approval: the controller uses it up, then the   *)
(* service reads the claim. The approval names the kind of action only.    *)
(***************************************************************************)
Begin(h, c) ==
  \E a \in ApprovalRequests, op \in {"reject", "pay", "unpay"} :
    /\ There(c) /\ LoadApproval(h, a, op, c)
    /\ NowOn(c)
    /\ UNCHANGED <<claim, broken, stops>>

\* Faulty: the accrual stays.
RejectUnreversed(h) ==
  /\ At(h, "reject") /\ claim[req[h].claim].st \in {"SUBMITTED", "APPROVED"}
  /\ Go(h, "markRejected")
  /\ UNCHANGED <<approvalVars, claim, both, broken, stops>>

Reject(h) ==
  LET c == req[h].claim IN
  /\ At(h, "reject") /\ claim[c].st \in {"SUBMITTED", "APPROVED"}
  /\ req' = [req EXCEPT ![h].amount = claim[c].acc,
       ![h].pc = IF claim[c].st = "APPROVED" /\ claim[c].acc # 0 THEN "unaccrue" ELSE "markRejected"]
  /\ UNCHANGED <<approvalVars, claim, both, broken, stops>>

\* reverseClaimAccrual: an entry REV-CLAIM-ACC that exists is reused.
ReverseAccrual(h) ==
  LET c == req[h].claim IN
  /\ At(h, "unaccrue")
  /\ IF claim[c].accReversed
     THEN Write(c, [claim[c] EXCEPT !.acc = 0]) /\ Go(h, "markRejected")
     ELSE /\ Write(c, [claim[c] EXCEPT !.accrued = @ - req[h].amount, !.accReversed = TRUE])
          /\ Go(h, "forgetAccrual")
  /\ UNCHANGED <<approvalVars, both, broken, stops>>

ForgetAccrual(h) ==
  /\ At(h, "forgetAccrual")
  /\ Write(req[h].claim, [claim[req[h].claim] EXCEPT !.acc = 0])
  /\ Go(h, "markRejected")
  /\ UNCHANGED <<approvalVars, both, broken, stops>>

MarkRejected(h) ==
  /\ At(h, "markRejected")
  /\ Write(req[h].claim, [claim[req[h].claim] EXCEPT !.st = "REJECTED"])
  /\ Finish(h)
  /\ UNCHANGED <<approvalVars, both, broken, stops>>

\* Faulty: relies on approve for the accrual.
PayUnaccrued(h) ==
  /\ At(h, "pay") /\ claim[req[h].claim].st = "APPROVED"
  /\ Go(h, "markPaid")
  /\ UNCHANGED <<approvalVars, claim, both, broken, stops>>

Pay(h) ==
  LET c == req[h].claim IN
  /\ At(h, "pay") /\ claim[c].st = "APPROVED"
  /\ req' = [req EXCEPT ![h].amount = claim[c].total,
                        ![h].pc = IF claim[c].acc = 0 THEN "accrue" ELSE "markPaid"]
  /\ UNCHANGED <<approvalVars, claim, both, broken, stops>>

\* The payment is posted from the row as it was written.
MarkPaid(h) ==
  LET c == req[h].claim IN
  /\ At(h, "markPaid")
  /\ Write(c, [claim[c] EXCEPT !.st = "PAID"])
  /\ IF claim[c].pay # 0 THEN Finish(h)
     ELSE req' = [req EXCEPT ![h].pc = "post", ![h].amount = claim[c].total]
  /\ UNCHANGED <<approvalVars, both, broken, stops>>

PostPayment(h) ==
  /\ At(h, "post")
  /\ Write(req[h].claim, [claim[req[h].claim] EXCEPT !.paid = @ + req[h].amount])
  /\ Go(h, "storePayment")
  /\ UNCHANGED <<approvalVars, both, broken, stops>>

StorePayment(h) ==
  /\ At(h, "storePayment")
  /\ Write(req[h].claim, [claim[req[h].claim] EXCEPT !.pay = req[h].amount])
  /\ Finish(h)
  /\ UNCHANGED <<approvalVars, both, broken, stops>>

Unpay(h) ==
  LET c == req[h].claim IN
  /\ At(h, "unpay") /\ claim[c].st = "PAID" /\ claim[c].unpaid < MaxUnpaid
  /\ req' = [req EXCEPT ![h].amount = claim[c].pay,
                        ![h].pc = IF claim[c].pay = 0 THEN "markUnpaid" ELSE "unpost"]
  /\ UNCHANGED <<approvalVars, claim, both, broken, stops>>

\* reverseClaimPayment: an entry REV-CLAIM-PAY that exists is reused.
ReversePayment(h) ==
  LET c == req[h].claim IN
  /\ At(h, "unpost")
  /\ IF claim[c].payReversed
     THEN Write(c, [claim[c] EXCEPT !.pay = 0]) /\ Go(h, "markUnpaid")
     ELSE /\ Write(c, [claim[c] EXCEPT !.paid = @ - req[h].amount, !.payReversed = TRUE])
          /\ Go(h, "forgetPayment")
  /\ UNCHANGED <<approvalVars, both, broken, stops>>

ForgetPayment(h) ==
  /\ At(h, "forgetPayment")
  /\ Write(req[h].claim, [claim[req[h].claim] EXCEPT !.pay = 0])
  /\ Go(h, "markUnpaid")
  /\ UNCHANGED <<approvalVars, both, broken, stops>>

MarkUnpaid(h) ==
  /\ At(h, "markUnpaid")
  /\ Write(req[h].claim, [claim[req[h].claim] EXCEPT !.st = "APPROVED", !.unpaid = @ + 1])
  /\ Finish(h)
  /\ UNCHANGED <<approvalVars, both, broken, stops>>

LoadRemove(h, c) == claim[c].acc = 0 /\ Load(h, c, {"DRAFT", "REJECTED"}, "remove", 0)

Remove(h) ==
  /\ At(h, "remove")
  /\ Write(req[h].claim, [claim[req[h].claim] EXCEPT !.st = "gone"])
  /\ Finish(h)
  /\ UNCHANGED <<approvalVars, both, broken, stops>>

\* A claim that is not in the status an operation needs: the request ends with
\* an error and its approval stays used up.
Refuse(h) ==
  LET c == req[h].claim IN
  /\ \/ req[h].pc = "reject" /\ claim[c].st \notin {"SUBMITTED", "APPROVED"}
     \/ req[h].pc = "pay" /\ claim[c].st # "APPROVED"
     \/ req[h].pc = "unpay" /\ claim[c].st # "PAID"
  /\ Finish(h)
  /\ UNCHANGED <<approvalVars, claim, both, broken, stops>>

Stop(h) ==
  /\ req[h].claim # None /\ stops < MaxStops
  /\ stops' = stops + 1
  /\ broken' = broken \cup {req[h].claim}
  /\ Finish(h)
  /\ UNCHANGED <<approvalVars, claim, both>>

Employee(h) ==
  \/ \E c \in Claims : LoadUpdate(h, c) \/ LoadSubmit(h, c) \/ LoadApprove(h, c) \/ LoadRemove(h, c)
  \/ DropLines(h) \/ Update(h) \/ Submit(h) \/ Remove(h)
  \/ Approve(h) \/ Accrue(h) \/ StoreAccrual(h)

Cashier(h) ==
  \/ \E c \in Claims : Begin(h, c)
  \/ Reject(h) \/ ReverseAccrual(h) \/ ForgetAccrual(h) \/ MarkRejected(h)
  \/ Pay(h) \/ MarkPaid(h) \/ PostPayment(h) \/ StorePayment(h)
  \/ Unpay(h) \/ ReversePayment(h) \/ ForgetPayment(h) \/ MarkUnpaid(h)
  \/ Refuse(h)

Next ==
  \/ ApprovalStep /\ UNCHANGED <<claim, both, broken, stops>>
  \/ \E c \in Claims : Create(c)
  \/ \E h \in Handlers : Employee(h) \/ Cashier(h) \/ Stop(h)

Spec == Init /\ [][Next]_vars
-----------------------------------------------------------------------------
(***************************************************************************)
(* Properties.                                                             *)
(***************************************************************************)
\* The books follow the status: an approved or paid claim has accrued its
\* total, a paid one has paid it, and neither stays of one that was rejected or
\* unpaid. Only a request that stopped, two on the same claim, or a second
\* unpayment make it otherwise.
BooksFollowClaims ==
  \A c \in Claims \ (both \cup broken) : ~Handled(c) =>
    /\ claim[c].accrued = IF claim[c].st \in {"APPROVED", "PAID"} THEN claim[c].total ELSE 0
    /\ claim[c].unpaid <= 1 => claim[c].paid = IF claim[c].st = "PAID" THEN claim[c].total ELSE 0

\* A paid claim has its accrual, also when the approval or a rejection stopped
\* half way: whoever pays posts what is missing.
PaidIsAccrued == \A c \in Claims \ both : claim[c].st = "PAID" => claim[c].acc # 0
=============================================================================
