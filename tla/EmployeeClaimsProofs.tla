------------------------ MODULE EmployeeClaimsProofs ------------------------
(***************************************************************************)
(* For any claims, approvals, users and bounds.                            *)
(*                                                                         *)
(* An approval lets one request go on (IInv). What a request does after it *)
(* has used its approval up only matters in that it leaves the approvals   *)
(* alone: such a step is Quiet.                                            *)
(*                                                                         *)
(* The journals follow the claim (CInv): a claim that no request works on  *)
(* is at rest in one of the states its status names, and one that a        *)
(* request is alone on is where that request has brought it (Worked).      *)
(***************************************************************************)
EXTENDS EmployeeClaims, TLAPS

\* Rows have their fields; what the claims and their amounts are does not matter.
Shape ==
  /\ DOMAIN req = Handlers
  /\ \A h \in Handlers : DOMAIN req[h] = {"pc", "approval", "claim", "op", "amount"}
  /\ \A h \in Handlers : req[h].approval \in ApprovalRequests \cup {None}
  /\ spent \in [ApprovalRequests -> Nat]
  /\ approval \in [ApprovalRequests -> [st : Statuses, due : BOOLEAN]]

Using == {"decide", "consume"}

\* Only a request about to decide on an approval or to use it has one in hand,
\* and two that have the same one have met.
InHand ==
  /\ \A h \in Handlers : req[h].pc \notin Using => req[h].approval = None
  /\ \A h \in Handlers : req[h].pc \in Using => req[h].approval # None
  /\ \A h \in Handlers : req[h].pc = "consume" => req[h].op \notin Using
  /\ \A h \in Handlers : req[h].pc = "decide" => req[h].op \in Statuses
  /\ \A g, h \in Handlers :
       g # h /\ req[g].approval = req[h].approval /\ req[h].approval # None =>
         req[h].approval \in shared

\* What a request read of an approval that nobody else has is still so, but
\* for the time that may have run out.
StillAsRead ==
  \A h \in Handlers : req[h].approval \in ApprovalRequests \ shared =>
    /\ spent[req[h].approval] = 0
    /\ approval[req[h].approval].st # "none"

IInv == Shape /\ InHand /\ StillAsRead /\ UsedOnce

\* A step that leaves the approvals alone.
Quiet ==
  /\ UNCHANGED approvalVars
  /\ DOMAIN req' = Handlers
  /\ \A h \in Handlers : DOMAIN req'[h] = {"pc", "approval", "claim", "op", "amount"}
  /\ \A h \in Handlers :
       \/ req'[h] = req[h]
       \/ req'[h].approval = None /\ req'[h].pc \notin Using

-----------------------------------------------------------------------------
LEMMA InitIInv == Init => IInv
<1> SUFFICES ASSUME Init PROVE IInv
  OBVIOUS
<1> USE DEF Init, ApprovalsInit, Idle
<1>1. Shape
  BY DEF Shape, Statuses
<1>2. InHand
  BY DEF InHand, Using
<1>3. StillAsRead
  BY ClaimConstants DEF StillAsRead
<1>4. UsedOnce
  BY DEF UsedOnce
<1> QED BY <1>1, <1>2, <1>3, <1>4 DEF IInv

\* Quiet steps keep what is said of the approvals.
LEMMA QuietKeeps == ASSUME IInv, Quiet PROVE IInv'
<1> USE DEF IInv, Quiet, approvalVars
<1>1. Shape'
  BY DEF Shape
<1>2. InHand'
  BY DEF InHand, Using
<1>3. StillAsRead'
  BY ClaimConstants DEF StillAsRead
<1>4. UsedOnce'
  BY DEF UsedOnce
<1> QED BY <1>1, <1>2, <1>3, <1>4

\* The steps of an employee's request.
LEMMA EmployeeQuiet == ASSUME IInv, NEW h \in Handlers, Employee(h) PROVE Quiet
<1> USE DEF IInv, Shape, Quiet, Using, At, Go, Finish, Idle, approvalVars
<1>1. ASSUME NEW c \in Claims, NEW statuses, NEW pc, pc \notin Using, NEW amount,
             Load(h, c, statuses, pc, amount)
      PROVE  Quiet
  BY <1>1 DEF Load, Serve
<1>2. CASE \E c \in Claims : LoadUpdate(h, c) \/ LoadSubmit(h, c) \/ LoadApprove(h, c) \/ LoadRemove(h, c)
  <2> HIDE DEF Quiet
  <2> QED BY <1>1, <1>2 DEF LoadUpdate, LoadSubmit, LoadApprove, LoadRemove
<1>3. CASE DropLines(h) \/ Update(h) \/ Submit(h) \/ Remove(h)
  BY <1>3 DEF InHand, DropLines, Update, Submit, Remove
<1>4. CASE Approve(h)
  BY <1>4 DEF InHand, Approve
<1>5. CASE Accrue(h) \/ StoreAccrual(h)
  BY <1>5 DEF InHand, Accrue, StoreAccrual
<1> QED BY <1>2, <1>3, <1>4, <1>5 DEF Employee

\* The steps of a cashier's request once its approval is used up.
LEMMA CashierQuiet ==
  ASSUME IInv, NEW h \in Handlers, Cashier(h), ~\E c \in Claims : Begin(h, c)
  PROVE  Quiet
<1> USE DEF IInv, Shape, InHand, Quiet, Using, At, Go, Finish, Idle, approvalVars
<1>1. CASE Reject(h) \/ MarkRejected(h)
  BY <1>1 DEF Reject, MarkRejected
<1>2. CASE ReverseAccrual(h) \/ ForgetAccrual(h)
  BY <1>2 DEF ReverseAccrual, ForgetAccrual
<1>3. CASE Pay(h) \/ MarkPaid(h)
  BY <1>3 DEF Pay, MarkPaid
<1>4. CASE PostPayment(h) \/ StorePayment(h)
  BY <1>4 DEF PostPayment, StorePayment
<1>5. CASE Unpay(h) \/ MarkUnpaid(h)
  BY <1>5 DEF Unpay, MarkUnpaid
<1>6. CASE ReversePayment(h) \/ ForgetPayment(h)
  BY <1>6 DEF ReversePayment, ForgetPayment
<1>7. CASE Refuse(h)
  BY <1>7 DEF Refuse
<1> QED BY <1>1, <1>2, <1>3, <1>4, <1>5, <1>6, <1>7 DEF Cashier

\* Steps on the approvals by no request, or by one that has none in hand.
LEMMA LooseSteps ==
  ASSUME IInv, NEW a \in ApprovalRequests, Ask(a) \/ TimePasses(a) \/ ExpireStale(a)
  PROVE  IInv'
<1> USE DEF IInv, Ask, TimePasses, ExpireStale, SetStatus, Open
<1>1. Shape'
  <2>1. approval[a] \in [st : Statuses, due : BOOLEAN]
    BY DEF Shape
  <2>2. PICK row \in [st : Statuses, due : BOOLEAN] : approval' = [approval EXCEPT ![a] = row]
    BY <2>1 DEF Statuses
  <2>3. UNCHANGED <<spent, req>>
    OBVIOUS
  <2> QED BY <2>2, <2>3 DEF Shape
<1>2. InHand'
  BY DEF InHand, Using
<1>3. StillAsRead'
  BY ClaimConstants DEF Shape, StillAsRead
<1>4. UsedOnce'
  <2> SUFFICES ASSUME NEW b \in ApprovalRequests, b \notin shared'
               PROVE  spent'[b] <= 1 /\ (spent'[b] = 1 => approval'[b].st = "CONSUMED")
    BY DEF UsedOnce
  <2>1. shared' = shared /\ spent' = spent
    OBVIOUS
  <2>2. approval'[b].st = approval[b].st \/ (b = a /\ approval[b].st # "CONSUMED")
    BY DEF Shape
  <2> QED BY <2>1, <2>2 DEF UsedOnce
<1> QED BY <1>1, <1>2, <1>3, <1>4

\* Reading an approval: whoever has it already makes it shared.
LEMMA ReadKeeps ==
  ASSUME IInv, NEW h \in Handlers, NEW a \in ApprovalRequests, NEW r,
         DOMAIN r = {"pc", "approval", "claim", "op", "amount"},
         r.approval = a, r.pc \in Using,
         r.pc = "consume" => r.op \notin Using, r.pc = "decide" => r.op \in Statuses,
         approval[a].st \in {"PENDING", "APPROVED"},
         Serve(h, r), NowHas(a), UNCHANGED <<approval, spent>>
  PROVE  IInv'
<1> USE DEF IInv, Serve, NowHas, Shape
<1>1. Shape'
  OBVIOUS
<1>2. InHand'
  BY ClaimConstants DEF InHand, Using
<1>3. StillAsRead'
  <2> SUFFICES ASSUME NEW g \in Handlers, req'[g].approval \in ApprovalRequests \ shared'
               PROVE  /\ spent'[req'[g].approval] = 0
                      /\ approval'[req'[g].approval].st # "none"
    BY DEF StillAsRead
  <2>1. CASE g = h
    <3>1. req'[g].approval = a /\ a \notin shared
      BY <2>1
    <3>2. spent[a] \in Nat /\ spent[a] <= 1 /\ spent[a] # 1
      BY <3>1 DEF UsedOnce
    <3>3. spent' = spent /\ approval' = approval /\ approval[a].st # "none"
      OBVIOUS
    <3> HIDE DEF IInv, Serve, NowHas, Shape
    <3> QED BY ONLY <3>1, <3>2, <3>3
  <2>2. CASE g # h
    BY <2>2 DEF StillAsRead
  <2> QED BY <2>1, <2>2
<1>4. UsedOnce'
  BY DEF UsedOnce
<1> QED BY <1>1, <1>2, <1>3, <1>4

LEMMA LoadDecisionKeeps ==
  ASSUME IInv, NEW h \in Handlers, NEW a \in ApprovalRequests, LoadDecision(h, a)
  PROVE  IInv'
<1>1. PICK st \in {"APPROVED", "REJECTED"} :
        Serve(h, [Idle EXCEPT !.pc = "decide", !.approval = a, !.op = st])
  BY DEF LoadDecision
<1> QED BY <1>1, ReadKeeps DEF LoadDecision, Idle, Using, Statuses

LEMMA BeginKeeps ==
  ASSUME IInv, NEW h \in Handlers, NEW c \in Claims, Begin(h, c)
  PROVE  IInv'
<1>1. PICK a \in ApprovalRequests, op \in {"reject", "pay", "unpay"} : LoadApproval(h, a, op, c)
  BY DEF Begin
<1> QED BY <1>1, ReadKeeps DEF LoadApproval, Idle, Using

\* Deciding: the row was read PENDING, so unless it is shared nobody went on with it.
LEMMA DecideKeeps ==
  ASSUME IInv, NEW h \in Handlers, Decide(h)
  PROVE  IInv'
<1> USE DEF IInv, Decide, SetStatus, Idle, Shape
<1>0. req[h].approval \in ApprovalRequests /\ req[h].op \in Statuses
  BY DEF InHand, Using
<1>1. Shape'
  BY <1>0
<1>2. InHand'
  BY <1>0, ClaimConstants DEF InHand, Using
<1>3. \A g \in Handlers : g # h /\ req[g].approval # None /\ req[g].approval \notin shared =>
        req[g].approval # req[h].approval
  BY DEF InHand
<1>4. StillAsRead'
  <2> SUFFICES ASSUME NEW g \in Handlers, req'[g].approval \in ApprovalRequests \ shared'
               PROVE  /\ spent'[req'[g].approval] = 0
                      /\ approval'[req'[g].approval].st # "none"
    BY DEF StillAsRead
  <2>1. g # h /\ req'[g] = req[g]
    BY ClaimConstants
  <2> QED BY <2>1, <1>0, <1>3, ClaimConstants DEF StillAsRead
<1>5. UsedOnce'
  <2> SUFFICES ASSUME NEW b \in ApprovalRequests, b \notin shared'
               PROVE  spent'[b] <= 1 /\ (spent'[b] = 1 => approval'[b].st = "CONSUMED")
    BY DEF UsedOnce
  <2>1. CASE b = req[h].approval
    BY <2>1, <1>0 DEF StillAsRead
  <2>2. CASE b # req[h].approval
    BY <2>2, <1>0 DEF UsedOnce
  <2> QED BY <2>1, <2>2
<1> QED BY <1>1, <1>2, <1>4, <1>5

\* Using up: likewise, and the row is CONSUMED from then on.
LEMMA ConsumeKeeps ==
  ASSUME IInv, NEW h \in Handlers, Consume(h)
  PROVE  IInv'
<1> USE DEF IInv, Consume, SetStatus, Shape
<1>0. req[h].approval \in ApprovalRequests /\ req[h].op \notin Using
  BY DEF InHand, Using
<1>1. Shape'
  BY <1>0 DEF Statuses
<1>2. InHand'
  BY <1>0, ClaimConstants DEF InHand, Using
<1>3. \A g \in Handlers : g # h /\ req[g].approval # None /\ req[g].approval \notin shared =>
        req[g].approval # req[h].approval
  BY DEF InHand
<1>4. StillAsRead'
  <2> SUFFICES ASSUME NEW g \in Handlers, req'[g].approval \in ApprovalRequests \ shared'
               PROVE  /\ spent'[req'[g].approval] = 0
                      /\ approval'[req'[g].approval].st # "none"
    BY DEF StillAsRead
  <2>1. g # h /\ req'[g] = req[g]
    BY ClaimConstants
  <2> QED BY <2>1, <1>0, <1>3, ClaimConstants DEF StillAsRead
<1>5. UsedOnce'
  <2> SUFFICES ASSUME NEW b \in ApprovalRequests, b \notin shared'
               PROVE  spent'[b] <= 1 /\ (spent'[b] = 1 => approval'[b].st = "CONSUMED")
    BY DEF UsedOnce
  <2>1. CASE b = req[h].approval
    BY <2>1, <1>0 DEF StillAsRead
  <2>2. CASE b # req[h].approval
    BY <2>2, <1>0 DEF UsedOnce
  <2> QED BY <2>1, <2>2
<1> QED BY <1>1, <1>2, <1>4, <1>5

LEMMA NextKeepsIInv == IInv /\ [Next]_vars => IInv'
<1> SUFFICES ASSUME IInv, [Next]_vars PROVE IInv'
  OBVIOUS
<1>1. CASE ApprovalStep
  BY <1>1, LooseSteps, LoadDecisionKeeps, DecideKeeps, ConsumeKeeps DEF ApprovalStep
<1>2. ASSUME NEW c \in Claims, Create(c) PROVE IInv'
  <2>1. Quiet
    BY <1>2 DEF Create, Quiet, IInv, Shape, approvalVars
  <2> QED BY <2>1, QuietKeeps
<1>3. ASSUME NEW h \in Handlers, Employee(h) PROVE IInv'
  BY <1>3, EmployeeQuiet, QuietKeeps
<1>4. ASSUME NEW h \in Handlers, Cashier(h) PROVE IInv'
  BY <1>4, CashierQuiet, BeginKeeps, QuietKeeps
<1>5. ASSUME NEW h \in Handlers, Stop(h) PROVE IInv'
  <2>1. Quiet
    BY <1>5 DEF Stop, Finish, Idle, Quiet, IInv, Shape, approvalVars, Using
  <2> QED BY <2>1, QuietKeeps
<1>6. CASE UNCHANGED vars
  <2>1. Quiet
    BY <1>6 DEF vars, Quiet, IInv, Shape, approvalVars
  <2> QED BY <2>1, QuietKeeps
<1> QED BY <1>1, <1>2, <1>3, <1>4, <1>5, <1>6 DEF Next

\* One approval lets one request go on (assertApprovedForActions,
\* consumeApprovalToken), unless two requests read it at the same time.
THEOREM SpecUsedOnce == Spec => []UsedOnce
<1>1. IInv => UsedOnce
  BY DEF IInv
<1> QED BY InitIInv, NextKeepsIInv, <1>1, PTL DEF Spec
-----------------------------------------------------------------------------
(***************************************************************************)
(* The books of a claim. CInv says of every step of every request what the *)
(* claim it works on looks like: Worked, as long as no request stopped on  *)
(* the claim, and Tracked, which is all that is left after one did.        *)
(***************************************************************************)
Row == [st : {"none", "DRAFT", "SUBMITTED", "APPROVED", "PAID", "REJECTED", "gone"},
        lines : BOOLEAN, total : Nat, acc : Nat, pay : Nat, accReversed : BOOLEAN,
        payReversed : BOOLEAN, accrued : Int, paid : Int, unpaid : Nat]

\* Requests without a claim, and with one.
Free == {"idle", "decide"}
Working == {"lines", "update", "submit", "approve", "accrue", "storeAccrual", "consume",
            "reject", "unaccrue", "forgetAccrual", "markRejected", "pay", "markPaid", "post",
            "storePayment", "unpay", "unpost", "forgetPayment", "markUnpaid", "remove"}
Request == [pc : Free \cup Working, approval : ApprovalRequests \cup {None},
            claim : Claims \cup {None},
            op : {"none", "reject", "pay", "unpay", "APPROVED", "REJECTED"}, amount : Nat]

TypeOK == claim \in [Claims -> Row] /\ req \in [Handlers -> Request]

\* What is left on the cash account; a second unpayment leaves it unknown.
Cash(a, n) == (a.payReversed <=> a.unpaid >= 1) /\ (a.unpaid <= 1 => a.paid = n)
Unbooked(a) == a.acc = 0 /\ a.accrued = 0 /\ a.pay = 0
Booked(a) == a.acc = a.total /\ a.accrued = a.total /\ ~a.accReversed

Young(a) == Unbooked(a) /\ ~a.accReversed /\ a.unpaid = 0 /\ Cash(a, 0)
Due(a) == a.st = "APPROVED" /\ Booked(a) /\ a.pay = 0 /\ Cash(a, 0)

\* A claim nobody works on, and one a request has got half-way with.
Resting(a) ==
  \/ a.st \in {"DRAFT", "SUBMITTED"} /\ Young(a)
  \/ Due(a)
  \/ a.st = "PAID" /\ Booked(a) /\ a.pay = a.total /\ Cash(a, a.total)
  \/ a.st \in {"REJECTED", "gone"} /\ Unbooked(a) /\ Cash(a, 0)

Worked(a, r) ==
  \/ r.pc \in {"lines", "update", "submit"} /\ a.st = "DRAFT" /\ Young(a)
  \/ r.pc = "approve" /\ a.st = "SUBMITTED" /\ Young(a)
  \/ r.pc = "accrue" /\ r.op # "pay" /\ a.st = "APPROVED" /\ Young(a) /\ r.amount = a.total
  \/ /\ r.pc = "storeAccrual" /\ r.op # "pay" /\ a.st = "APPROVED" /\ r.amount = a.total
     /\ a.acc = 0 /\ a.accrued = a.total /\ ~a.accReversed /\ a.pay = 0 /\ Cash(a, 0)
  \/ r.pc \in {"consume", "reject", "pay", "unpay"} /\ Resting(a)
  \/ r.pc = "unaccrue" /\ Due(a) /\ r.amount = a.total
  \/ /\ r.pc = "forgetAccrual" /\ a.st = "APPROVED" /\ a.accrued = 0 /\ a.pay = 0 /\ Cash(a, 0)
  \/ r.pc = "markRejected" /\ a.st \in {"SUBMITTED", "APPROVED"} /\ Unbooked(a) /\ Cash(a, 0)
  \/ r.pc = "markPaid" /\ Due(a)
  \/ r.pc = "post" /\ a.st = "PAID" /\ Booked(a) /\ a.pay = 0 /\ Cash(a, 0) /\ r.amount = a.total
  \/ /\ r.pc = "storePayment" /\ a.st = "PAID" /\ Booked(a) /\ a.pay = 0 /\ Cash(a, a.total)
     /\ r.amount = a.total
  \/ /\ r.pc = "unpost" /\ a.st = "PAID" /\ Booked(a) /\ Cash(a, a.total)
     /\ r.amount = a.total
  \/ /\ r.pc \in {"forgetPayment", "markUnpaid"} /\ a.st = "PAID" /\ Booked(a) /\ a.payReversed
     /\ a.unpaid = 0 => a.paid = 0
     /\ r.pc = "markUnpaid" => a.pay = 0
  \/ r.pc = "remove" /\ a.st \in {"DRAFT", "REJECTED"} /\ Resting(a)

\* The status under a request that is alone on its claim, wherever earlier ones stopped.
Tracked(a, r) ==
  /\ r.pc \in {"lines", "update", "submit"} => a.st = "DRAFT"
  /\ r.pc = "approve" => a.st = "SUBMITTED"
  /\ r.pc \in {"accrue", "storeAccrual"} => a.st = "APPROVED" /\ r.amount # 0
  /\ r.pc \in {"unaccrue", "forgetAccrual", "markRejected"} => a.st \in {"SUBMITTED", "APPROVED"}
  /\ r.pc = "markPaid" => a.st = "APPROVED" /\ a.acc # 0
  /\ r.pc = "remove" => a.st \in {"DRAFT", "REJECTED"}

Sound(a) ==
  /\ a.st = "none" => a = NoClaim
  /\ a.st \notin {"none", "gone"} => a.total # 0

AloneOn(c) == \A g, h \in Handlers : req[g].claim = c /\ req[h].claim = c => g = h

Carried(r) ==
  /\ r.pc \in Working <=> r.claim # None
  /\ r.pc \in {"lines", "update"} => r.amount # 0
  /\ r.pc = "consume" => r.op \in {"reject", "pay", "unpay"}
Requests == \A h \in Handlers : Carried(req[h])
Rows == \A c \in Claims : Sound(claim[c]) /\ (claim[c].st = "none" => ~Handled(c))
PaidHasAccrual == \A c \in Claims \ both :
  /\ AloneOn(c)
  /\ claim[c].st = "PAID" => claim[c].acc # 0
  /\ \A h \in Handlers : req[h].claim = c => Tracked(claim[c], req[h])
Tended == \A c \in Claims \ (both \cup broken) :
  /\ ~Handled(c) => claim[c].st = "none" \/ Resting(claim[c])
  /\ \A h \in Handlers : req[h].claim = c => Worked(claim[c], req[h])
CInv == TypeOK /\ Requests /\ Rows /\ PaidHasAccrual /\ Tended

LEMMA IdleOK == Idle \in Request /\ Carried(Idle) /\ Idle.claim = None /\ Idle.pc = "idle"
  BY DEF Idle, Request, Carried, Free, Working

LEMMA Claimed == \A c \in Claims : c # None
  BY ClaimConstants

\* A step of a request that has no claim, before and after it.
LEMMA Aside ==
  ASSUME CInv, NEW h \in Handlers, NEW r \in Request, Carried(r), r.claim = None,
         req[h].claim = None, req' = [req EXCEPT ![h] = r], UNCHANGED <<claim, both, broken>>
  PROVE  CInv'
<1> USE DEF CInv
<1>0. req'[h] = r /\ \A g \in Handlers \ {h} : req'[g] = req[g]
  BY DEF TypeOK
<1>1. TypeOK'
  BY DEF TypeOK
<1>2. Requests'
  BY <1>0 DEF Requests
<1>3. \A c \in Claims, g \in Handlers : req'[g].claim = c <=> req[g].claim = c
  BY <1>0, Claimed
<1>4. \A c \in Claims : (Handled(c)' <=> Handled(c)) /\ (AloneOn(c)' <=> AloneOn(c))
  BY <1>3 DEF Handled, AloneOn
<1>5. Rows'
  BY <1>4 DEF Rows
<1>6. \A c \in Claims, g \in Handlers : req'[g].claim = c => req'[g] = req[g]
  BY <1>0, Claimed
<1>7. PaidHasAccrual'
  BY <1>3, <1>4, <1>6 DEF PaidHasAccrual
<1>8. Tended'
  BY <1>3, <1>4, <1>6 DEF Tended
<1> QED BY <1>1, <1>2, <1>5, <1>7, <1>8

\* A step that writes claim c, by the request that works on it or takes it up.
LEMMA OnClaim ==
  ASSUME CInv, NEW h \in Handlers, NEW c \in Claims, NEW r \in Request, NEW a \in Row,
         req[h].claim \in {c, None}, r.claim \in {c, None}, Carried(r),
         req' = [req EXCEPT ![h] = r], claim' = [claim EXCEPT ![c] = a],
         Sound(a), a.st # "none",
         both \subseteq both', both' \subseteq both \cup {c},
         broken \subseteq broken', broken' \subseteq broken \cup {c},
         c \notin both' => /\ req[h].claim = c \/ ~Handled(c)
                           /\ a.st = "PAID" => a.acc # 0
                           /\ r.claim = c => Tracked(a, r),
         c \notin both' \cup broken' => IF r.claim = c THEN Worked(a, r) ELSE Resting(a)
  PROVE  CInv'
<1> USE DEF CInv
<1>0. /\ req'[h] = r /\ \A g \in Handlers \ {h} : req'[g] = req[g]
      /\ claim'[c] = a /\ \A d \in Claims \ {c} : claim'[d] = claim[d]
  BY DEF TypeOK
<1>1. TypeOK'
  BY DEF TypeOK
<1>2. Requests'
  BY <1>0 DEF Requests
<1>3. \A d \in Claims \ {c}, g \in Handlers : req'[g].claim = d <=> req[g].claim = d
  BY <1>0, Claimed
<1>4. \A d \in Claims \ {c} : (Handled(d)' <=> Handled(d)) /\ (AloneOn(d)' <=> AloneOn(d))
  BY <1>3 DEF Handled, AloneOn
<1>5. Rows'
  <2> SUFFICES ASSUME NEW d \in Claims
      PROVE  Sound(claim'[d]) /\ (claim'[d].st = "none" => ~Handled(d)')
    BY DEF Rows
  <2> QED BY <1>0, <1>4 DEF Rows
<1>6. \A d \in Claims \ {c}, g \in Handlers : req'[g].claim = d => req'[g] = req[g]
  BY <1>0, Claimed
<1>7. ASSUME c \notin both'
      PROVE  AloneOn(c)' /\ \A g \in Handlers : req'[g].claim = c => g = h /\ r.claim = c
  <2>1. c \in Claims \ both
    BY <1>7
  <2>2. \A g \in Handlers \ {h} : req'[g].claim # c
    BY <1>0, <1>7, <2>1, Claimed DEF PaidHasAccrual, AloneOn, Handled
  <2> QED BY <1>0, <2>2 DEF AloneOn
<1>8. PaidHasAccrual'
  <2> SUFFICES ASSUME NEW d \in Claims \ both'
      PROVE  /\ AloneOn(d)' /\ (claim'[d].st = "PAID" => claim'[d].acc # 0)
             /\ \A g \in Handlers : req'[g].claim = d => Tracked(claim'[d], req'[g])
    BY DEF PaidHasAccrual
  <2>1. CASE d = c
    BY <1>0, <1>7, <2>1
  <2>2. CASE d # c
    <3>1. d \in Claims \ both
      OBVIOUS
    <3> QED BY <1>0, <1>3, <1>4, <1>6, <2>2, <3>1 DEF PaidHasAccrual
  <2> QED BY <2>1, <2>2
<1>9. Tended'
  <2> SUFFICES ASSUME NEW d \in Claims \ (both' \cup broken')
      PROVE  /\ ~Handled(d)' => claim'[d].st = "none" \/ Resting(claim'[d])
             /\ \A g \in Handlers : req'[g].claim = d => Worked(claim'[d], req'[g])
    BY DEF Tended
  <2>1. CASE d = c
    <3>1. ~Handled(c)' => r.claim # c
      BY <1>0 DEF Handled
    <3> QED BY <1>0, <1>7, <2>1, <3>1
  <2>2. CASE d # c
    <3>1. d \in Claims \ (both \cup broken)
      OBVIOUS
    <3> QED BY <1>0, <1>3, <1>4, <1>6, <2>2, <3>1 DEF Tended
  <2> QED BY <2>1, <2>2
<1> QED BY <1>1, <1>2, <1>5, <1>8, <1>9

\* What is known of the claim a request works on.
LEMMA Holds ==
  ASSUME CInv, NEW h \in Handlers, req[h].pc \in Working
  PROVE  /\ req[h].claim \in Claims /\ claim[req[h].claim] \in Row /\ req[h] \in Request
         /\ claim[req[h].claim].st # "none" /\ Sound(claim[req[h].claim]) /\ Carried(req[h])
         /\ req[h].claim \notin both =>
              /\ claim[req[h].claim].st = "PAID" => claim[req[h].claim].acc # 0
              /\ Tracked(claim[req[h].claim], req[h])
         /\ req[h].claim \notin both \cup broken => Worked(claim[req[h].claim], req[h])
<1>1. req[h] \in Request /\ req[h].claim # None
  BY DEF CInv, TypeOK, Requests, Carried
<1>2. req[h].claim \in Claims
  BY <1>1 DEF Request
<1> QED BY <1>1, <1>2 DEF CInv, TypeOK, Requests, Rows, Handled, PaidHasAccrual, Tended

\* A request goes on with its claim.
LEMMA Works ==
  ASSUME CInv, NEW h \in Handlers, req[h].pc \in Working,
         NEW r \in Request, NEW a \in Row, Carried(r), r.claim \in {req[h].claim, None},
         req' = [req EXCEPT ![h] = r], claim' = [claim EXCEPT ![req[h].claim] = a],
         Sound(a), a.st # "none", UNCHANGED <<both, broken>>,
         Tracked(claim[req[h].claim], req[h])
           /\ (claim[req[h].claim].st = "PAID" => claim[req[h].claim].acc # 0)
           => /\ a.st = "PAID" => a.acc # 0
              /\ r.claim # None => Tracked(a, r),
         Worked(claim[req[h].claim], req[h])
           => IF r.claim = None THEN Resting(a) ELSE Worked(a, r)
  PROVE  CInv'
<1> DEFINE c == req[h].claim
<1>1. /\ c \in Claims /\ c # None
      /\ c \notin both => /\ claim[c].st = "PAID" => claim[c].acc # 0
                          /\ Tracked(claim[c], req[h])
      /\ c \notin both \cup broken => Worked(claim[c], req[h])
  BY Holds, Claimed
<1>2. /\ c \notin both' => /\ a.st = "PAID" => a.acc # 0
                           /\ r.claim = c => Tracked(a, r)
      /\ c \notin both' \cup broken' => IF r.claim = c THEN Worked(a, r) ELSE Resting(a)
  BY <1>1
<1> HIDE DEF c
<1>3. /\ req[h].claim = c /\ r.claim \in {c, None} /\ req[h].claim \in {c, None}
      /\ claim' = [claim EXCEPT ![c] = a]
      /\ both \subseteq both' /\ both' \subseteq both \cup {c}
      /\ broken \subseteq broken' /\ broken' \subseteq broken \cup {c}
  BY DEF c
<1>4. /\ r \in Request /\ a \in Row /\ Carried(r) /\ Sound(a) /\ a.st # "none"
      /\ req' = [req EXCEPT ![h] = r]
  OBVIOUS
<1>5. c \notin both' => /\ req[h].claim = c \/ ~Handled(c)
                        /\ a.st = "PAID" => a.acc # 0
                        /\ r.claim = c => Tracked(a, r)
  BY <1>2, <1>3
<1>6. c \notin both' \cup broken' => IF r.claim = c THEN Worked(a, r) ELSE Resting(a)
  BY <1>2
<1> QED BY ONLY <1>1, <1>3, <1>4, <1>5, <1>6, CInv, h \in Handlers, OnClaim
-----------------------------------------------------------------------------
LEMMA DropLinesBooks == ASSUME CInv, NEW h \in Handlers, DropLines(h) PROVE CInv'
<1> DEFINE c == req[h].claim
<1>1. /\ claim[c] \in Row /\ req[h] \in Request /\ req[h].pc = "lines" /\ req[h].pc \in Working
      /\ claim[c].st \notin {"none", "gone"} /\ Sound(claim[c]) /\ Carried(req[h]) /\ c # None
  BY Holds, Claimed DEF DropLines, At, There, Working
<1>2. PICK a : a = [claim[c] EXCEPT !.lines = FALSE]
  OBVIOUS
<1>3. PICK r : r = [req[h] EXCEPT !.pc = "update"]
  OBVIOUS
<1>4. /\ req' = [req EXCEPT ![h] = r] /\ claim' = [claim EXCEPT ![c] = a]
      /\ UNCHANGED <<both, broken>>
  BY <1>1, <1>2, <1>3 DEF DropLines, Go, Finish, Write, CInv, TypeOK
<1>5. r \in Request /\ Carried(r) /\ r.claim = c
  BY <1>1, <1>3, IdleOK DEF Request, Carried, Free, Working
<1>6. a \in Row /\ a.st # "none" /\ Sound(a)
  BY <1>1, <1>2 DEF Row, Request, Sound, Carried
<1>7. Tracked(claim[c], req[h]) /\ (claim[c].st = "PAID" => claim[c].acc # 0)
        => /\ a.st = "PAID" => a.acc # 0
           /\ r.claim # None => Tracked(a, r)
  BY <1>1, <1>2, <1>3, <1>5 DEF Tracked, Row, Request, Sound
<1>8. Worked(claim[c], req[h]) => IF r.claim = None THEN Resting(a) ELSE Worked(a, r)
  BY <1>1, <1>2, <1>3, <1>5
     DEF Worked, Resting, Due, Young, Booked, Unbooked, Cash, Row, Request, Sound
<1> QED BY <1>1, <1>4, <1>5, <1>6, <1>7, <1>8, Works

LEMMA UpdateBooks == ASSUME CInv, NEW h \in Handlers, Update(h) PROVE CInv'
<1> DEFINE c == req[h].claim
<1>1. /\ claim[c] \in Row /\ req[h] \in Request /\ req[h].pc = "update" /\ req[h].pc \in Working
      /\ claim[c].st \notin {"none", "gone"} /\ Sound(claim[c]) /\ Carried(req[h]) /\ c # None
  BY Holds, Claimed DEF Update, At, There, Working
<1>2. PICK a : a = [claim[c] EXCEPT !.lines = TRUE, !.total = req[h].amount]
  OBVIOUS
<1>3. PICK r : r = Idle
  OBVIOUS
<1>4. /\ req' = [req EXCEPT ![h] = r] /\ claim' = [claim EXCEPT ![c] = a]
      /\ UNCHANGED <<both, broken>>
  BY <1>1, <1>2, <1>3 DEF Update, Go, Finish, Write, CInv, TypeOK
<1>5. r \in Request /\ Carried(r) /\ r.claim = None
  BY <1>1, <1>3, IdleOK DEF Request, Carried, Free, Working
<1>6. a \in Row /\ a.st # "none" /\ Sound(a)
  BY <1>1, <1>2 DEF Row, Request, Sound, Carried
<1>7. Tracked(claim[c], req[h]) /\ (claim[c].st = "PAID" => claim[c].acc # 0)
        => /\ a.st = "PAID" => a.acc # 0
           /\ r.claim # None => Tracked(a, r)
  BY <1>1, <1>2, <1>3, <1>5 DEF Tracked, Row, Request, Sound
<1>8. Worked(claim[c], req[h]) => IF r.claim = None THEN Resting(a) ELSE Worked(a, r)
  BY <1>1, <1>2, <1>3, <1>5
     DEF Worked, Resting, Due, Young, Booked, Unbooked, Cash, Row, Request, Sound
<1> QED BY <1>1, <1>4, <1>5, <1>6, <1>7, <1>8, Works

LEMMA SubmitBooks == ASSUME CInv, NEW h \in Handlers, Submit(h) PROVE CInv'
<1> DEFINE c == req[h].claim
<1>1. /\ claim[c] \in Row /\ req[h] \in Request /\ req[h].pc = "submit" /\ req[h].pc \in Working
      /\ claim[c].st \notin {"none", "gone"} /\ Sound(claim[c]) /\ Carried(req[h]) /\ c # None
  BY Holds, Claimed DEF Submit, At, There, Working
<1>2. PICK a : a = [claim[c] EXCEPT !.st = "SUBMITTED"]
  OBVIOUS
<1>3. PICK r : r = Idle
  OBVIOUS
<1>4. /\ req' = [req EXCEPT ![h] = r] /\ claim' = [claim EXCEPT ![c] = a]
      /\ UNCHANGED <<both, broken>>
  BY <1>1, <1>2, <1>3 DEF Submit, Go, Finish, Write, CInv, TypeOK
<1>5. r \in Request /\ Carried(r) /\ r.claim = None
  BY <1>1, <1>3, IdleOK DEF Request, Carried, Free, Working
<1>6. a \in Row /\ a.st # "none" /\ Sound(a)
  BY <1>1, <1>2 DEF Row, Request, Sound, Carried
<1>7. Tracked(claim[c], req[h]) /\ (claim[c].st = "PAID" => claim[c].acc # 0)
        => /\ a.st = "PAID" => a.acc # 0
           /\ r.claim # None => Tracked(a, r)
  BY <1>1, <1>2, <1>3, <1>5 DEF Tracked, Row, Request, Sound
<1>8. Worked(claim[c], req[h]) => IF r.claim = None THEN Resting(a) ELSE Worked(a, r)
  BY <1>1, <1>2, <1>3, <1>5
     DEF Worked, Resting, Due, Young, Booked, Unbooked, Cash, Row, Request, Sound
<1> QED BY <1>1, <1>4, <1>5, <1>6, <1>7, <1>8, Works

LEMMA AccrueBooks == ASSUME CInv, NEW h \in Handlers, Accrue(h) PROVE CInv'
<1> DEFINE c == req[h].claim
<1>1. /\ claim[c] \in Row /\ req[h] \in Request /\ req[h].pc = "accrue" /\ req[h].pc \in Working
      /\ claim[c].st \notin {"none", "gone"} /\ Sound(claim[c]) /\ Carried(req[h]) /\ c # None
  BY Holds, Claimed DEF Accrue, At, There, Working
<1>2. PICK a : a = [claim[c] EXCEPT !.accrued = @ + req[h].amount]
  OBVIOUS
<1>3. PICK r : r = [req[h] EXCEPT !.pc = "storeAccrual"]
  OBVIOUS
<1>4. /\ req' = [req EXCEPT ![h] = r] /\ claim' = [claim EXCEPT ![c] = a]
      /\ UNCHANGED <<both, broken>>
  BY <1>1, <1>2, <1>3 DEF Accrue, Go, Finish, Write, CInv, TypeOK
<1>5. r \in Request /\ Carried(r) /\ r.claim = c
  BY <1>1, <1>3, IdleOK DEF Request, Carried, Free, Working
<1>6. a \in Row /\ a.st # "none" /\ Sound(a)
  BY <1>1, <1>2 DEF Row, Request, Sound, Carried
<1>7. Tracked(claim[c], req[h]) /\ (claim[c].st = "PAID" => claim[c].acc # 0)
        => /\ a.st = "PAID" => a.acc # 0
           /\ r.claim # None => Tracked(a, r)
  BY <1>1, <1>2, <1>3, <1>5 DEF Tracked, Row, Request, Sound
<1>8. Worked(claim[c], req[h]) => IF r.claim = None THEN Resting(a) ELSE Worked(a, r)
  BY <1>1, <1>2, <1>3, <1>5
     DEF Worked, Resting, Due, Young, Booked, Unbooked, Cash, Row, Request, Sound
<1> QED BY <1>1, <1>4, <1>5, <1>6, <1>7, <1>8, Works

LEMMA ForgetAccrualBooks == ASSUME CInv, NEW h \in Handlers, ForgetAccrual(h) PROVE CInv'
<1> DEFINE c == req[h].claim
<1>1. /\ claim[c] \in Row /\ req[h] \in Request /\ req[h].pc = "forgetAccrual" /\ req[h].pc \in Working
      /\ claim[c].st \notin {"none", "gone"} /\ Sound(claim[c]) /\ Carried(req[h]) /\ c # None
  BY Holds, Claimed DEF ForgetAccrual, At, There, Working
<1>2. PICK a : a = [claim[c] EXCEPT !.acc = 0]
  OBVIOUS
<1>3. PICK r : r = [req[h] EXCEPT !.pc = "markRejected"]
  OBVIOUS
<1>4. /\ req' = [req EXCEPT ![h] = r] /\ claim' = [claim EXCEPT ![c] = a]
      /\ UNCHANGED <<both, broken>>
  BY <1>1, <1>2, <1>3 DEF ForgetAccrual, Go, Finish, Write, CInv, TypeOK
<1>5. r \in Request /\ Carried(r) /\ r.claim = c
  BY <1>1, <1>3, IdleOK DEF Request, Carried, Free, Working
<1>6. a \in Row /\ a.st # "none" /\ Sound(a)
  BY <1>1, <1>2 DEF Row, Request, Sound, Carried
<1>7. Tracked(claim[c], req[h]) /\ (claim[c].st = "PAID" => claim[c].acc # 0)
        => /\ a.st = "PAID" => a.acc # 0
           /\ r.claim # None => Tracked(a, r)
  BY <1>1, <1>2, <1>3, <1>5 DEF Tracked, Row, Request, Sound
<1>8. Worked(claim[c], req[h]) => IF r.claim = None THEN Resting(a) ELSE Worked(a, r)
  BY <1>1, <1>2, <1>3, <1>5
     DEF Worked, Resting, Due, Young, Booked, Unbooked, Cash, Row, Request, Sound
<1> QED BY <1>1, <1>4, <1>5, <1>6, <1>7, <1>8, Works

LEMMA MarkRejectedBooks == ASSUME CInv, NEW h \in Handlers, MarkRejected(h) PROVE CInv'
<1> DEFINE c == req[h].claim
<1>1. /\ claim[c] \in Row /\ req[h] \in Request /\ req[h].pc = "markRejected" /\ req[h].pc \in Working
      /\ claim[c].st \notin {"none", "gone"} /\ Sound(claim[c]) /\ Carried(req[h]) /\ c # None
  BY Holds, Claimed DEF MarkRejected, At, There, Working
<1>2. PICK a : a = [claim[c] EXCEPT !.st = "REJECTED"]
  OBVIOUS
<1>3. PICK r : r = Idle
  OBVIOUS
<1>4. /\ req' = [req EXCEPT ![h] = r] /\ claim' = [claim EXCEPT ![c] = a]
      /\ UNCHANGED <<both, broken>>
  BY <1>1, <1>2, <1>3 DEF MarkRejected, Go, Finish, Write, CInv, TypeOK
<1>5. r \in Request /\ Carried(r) /\ r.claim = None
  BY <1>1, <1>3, IdleOK DEF Request, Carried, Free, Working
<1>6. a \in Row /\ a.st # "none" /\ Sound(a)
  BY <1>1, <1>2 DEF Row, Request, Sound, Carried
<1>7. Tracked(claim[c], req[h]) /\ (claim[c].st = "PAID" => claim[c].acc # 0)
        => /\ a.st = "PAID" => a.acc # 0
           /\ r.claim # None => Tracked(a, r)
  BY <1>1, <1>2, <1>3, <1>5 DEF Tracked, Row, Request, Sound
<1>8. Worked(claim[c], req[h]) => IF r.claim = None THEN Resting(a) ELSE Worked(a, r)
  BY <1>1, <1>2, <1>3, <1>5
     DEF Worked, Resting, Due, Young, Booked, Unbooked, Cash, Row, Request, Sound
<1> QED BY <1>1, <1>4, <1>5, <1>6, <1>7, <1>8, Works

LEMMA PostPaymentBooks == ASSUME CInv, NEW h \in Handlers, PostPayment(h) PROVE CInv'
<1> DEFINE c == req[h].claim
<1>1. /\ claim[c] \in Row /\ req[h] \in Request /\ req[h].pc = "post" /\ req[h].pc \in Working
      /\ claim[c].st \notin {"none", "gone"} /\ Sound(claim[c]) /\ Carried(req[h]) /\ c # None
  BY Holds, Claimed DEF PostPayment, At, There, Working
<1>2. PICK a : a = [claim[c] EXCEPT !.paid = @ + req[h].amount]
  OBVIOUS
<1>3. PICK r : r = [req[h] EXCEPT !.pc = "storePayment"]
  OBVIOUS
<1>4. /\ req' = [req EXCEPT ![h] = r] /\ claim' = [claim EXCEPT ![c] = a]
      /\ UNCHANGED <<both, broken>>
  BY <1>1, <1>2, <1>3 DEF PostPayment, Go, Finish, Write, CInv, TypeOK
<1>5. r \in Request /\ Carried(r) /\ r.claim = c
  BY <1>1, <1>3, IdleOK DEF Request, Carried, Free, Working
<1>6. a \in Row /\ a.st # "none" /\ Sound(a)
  BY <1>1, <1>2 DEF Row, Request, Sound, Carried
<1>7. Tracked(claim[c], req[h]) /\ (claim[c].st = "PAID" => claim[c].acc # 0)
        => /\ a.st = "PAID" => a.acc # 0
           /\ r.claim # None => Tracked(a, r)
  BY <1>1, <1>2, <1>3, <1>5 DEF Tracked, Row, Request, Sound
<1>8. Worked(claim[c], req[h]) => IF r.claim = None THEN Resting(a) ELSE Worked(a, r)
  BY <1>1, <1>2, <1>3, <1>5
     DEF Worked, Resting, Due, Young, Booked, Unbooked, Cash, Row, Request, Sound
<1> QED BY <1>1, <1>4, <1>5, <1>6, <1>7, <1>8, Works

LEMMA StorePaymentBooks == ASSUME CInv, NEW h \in Handlers, StorePayment(h) PROVE CInv'
<1> DEFINE c == req[h].claim
<1>1. /\ claim[c] \in Row /\ req[h] \in Request /\ req[h].pc = "storePayment" /\ req[h].pc \in Working
      /\ claim[c].st \notin {"none", "gone"} /\ Sound(claim[c]) /\ Carried(req[h]) /\ c # None
  BY Holds, Claimed DEF StorePayment, At, There, Working
<1>2. PICK a : a = [claim[c] EXCEPT !.pay = req[h].amount]
  OBVIOUS
<1>3. PICK r : r = Idle
  OBVIOUS
<1>4. /\ req' = [req EXCEPT ![h] = r] /\ claim' = [claim EXCEPT ![c] = a]
      /\ UNCHANGED <<both, broken>>
  BY <1>1, <1>2, <1>3 DEF StorePayment, Go, Finish, Write, CInv, TypeOK
<1>5. r \in Request /\ Carried(r) /\ r.claim = None
  BY <1>1, <1>3, IdleOK DEF Request, Carried, Free, Working
<1>6. a \in Row /\ a.st # "none" /\ Sound(a)
  BY <1>1, <1>2 DEF Row, Request, Sound, Carried
<1>7. Tracked(claim[c], req[h]) /\ (claim[c].st = "PAID" => claim[c].acc # 0)
        => /\ a.st = "PAID" => a.acc # 0
           /\ r.claim # None => Tracked(a, r)
  BY <1>1, <1>2, <1>3, <1>5 DEF Tracked, Row, Request, Sound
<1>8. Worked(claim[c], req[h]) => IF r.claim = None THEN Resting(a) ELSE Worked(a, r)
  BY <1>1, <1>2, <1>3, <1>5
     DEF Worked, Resting, Due, Young, Booked, Unbooked, Cash, Row, Request, Sound
<1> QED BY <1>1, <1>4, <1>5, <1>6, <1>7, <1>8, Works

LEMMA ForgetPaymentBooks == ASSUME CInv, NEW h \in Handlers, ForgetPayment(h) PROVE CInv'
<1> DEFINE c == req[h].claim
<1>1. /\ claim[c] \in Row /\ req[h] \in Request /\ req[h].pc = "forgetPayment" /\ req[h].pc \in Working
      /\ claim[c].st \notin {"none", "gone"} /\ Sound(claim[c]) /\ Carried(req[h]) /\ c # None
  BY Holds, Claimed DEF ForgetPayment, At, There, Working
<1>2. PICK a : a = [claim[c] EXCEPT !.pay = 0]
  OBVIOUS
<1>3. PICK r : r = [req[h] EXCEPT !.pc = "markUnpaid"]
  OBVIOUS
<1>4. /\ req' = [req EXCEPT ![h] = r] /\ claim' = [claim EXCEPT ![c] = a]
      /\ UNCHANGED <<both, broken>>
  BY <1>1, <1>2, <1>3 DEF ForgetPayment, Go, Finish, Write, CInv, TypeOK
<1>5. r \in Request /\ Carried(r) /\ r.claim = c
  BY <1>1, <1>3, IdleOK DEF Request, Carried, Free, Working
<1>6. a \in Row /\ a.st # "none" /\ Sound(a)
  BY <1>1, <1>2 DEF Row, Request, Sound, Carried
<1>7. Tracked(claim[c], req[h]) /\ (claim[c].st = "PAID" => claim[c].acc # 0)
        => /\ a.st = "PAID" => a.acc # 0
           /\ r.claim # None => Tracked(a, r)
  BY <1>1, <1>2, <1>3, <1>5 DEF Tracked, Row, Request, Sound
<1>8. Worked(claim[c], req[h]) => IF r.claim = None THEN Resting(a) ELSE Worked(a, r)
  BY <1>1, <1>2, <1>3, <1>5
     DEF Worked, Resting, Due, Young, Booked, Unbooked, Cash, Row, Request, Sound
<1> QED BY <1>1, <1>4, <1>5, <1>6, <1>7, <1>8, Works

LEMMA MarkUnpaidBooks == ASSUME CInv, NEW h \in Handlers, MarkUnpaid(h) PROVE CInv'
<1> DEFINE c == req[h].claim
<1>1. /\ claim[c] \in Row /\ req[h] \in Request /\ req[h].pc = "markUnpaid" /\ req[h].pc \in Working
      /\ claim[c].st \notin {"none", "gone"} /\ Sound(claim[c]) /\ Carried(req[h]) /\ c # None
  BY Holds, Claimed DEF MarkUnpaid, At, There, Working
<1>2. PICK a : a = [claim[c] EXCEPT !.st = "APPROVED", !.unpaid = @ + 1]
  OBVIOUS
<1>3. PICK r : r = Idle
  OBVIOUS
<1>4. /\ req' = [req EXCEPT ![h] = r] /\ claim' = [claim EXCEPT ![c] = a]
      /\ UNCHANGED <<both, broken>>
  BY <1>1, <1>2, <1>3 DEF MarkUnpaid, Go, Finish, Write, CInv, TypeOK
<1>5. r \in Request /\ Carried(r) /\ r.claim = None
  BY <1>1, <1>3, IdleOK DEF Request, Carried, Free, Working
<1>6. a \in Row /\ a.st # "none" /\ Sound(a)
  <2>1. claim[c].unpaid + 1 \in Nat
    BY <1>1 DEF Row
  <2>2. a \in Row /\ a.st = "APPROVED" /\ a.total = claim[c].total
    BY <1>1, <1>2, <2>1 DEF Row
  <2> QED BY <1>1, <2>2 DEF Sound
<1>7. Tracked(claim[c], req[h]) /\ (claim[c].st = "PAID" => claim[c].acc # 0)
        => /\ a.st = "PAID" => a.acc # 0
           /\ r.claim # None => Tracked(a, r)
  BY <1>1, <1>2, <1>3, <1>5 DEF Tracked, Row, Request, Sound
<1>8. Worked(claim[c], req[h]) => IF r.claim = None THEN Resting(a) ELSE Worked(a, r)
  BY <1>1, <1>2, <1>3, <1>5
     DEF Worked, Resting, Due, Young, Booked, Unbooked, Cash, Row, Request, Sound
<1> QED BY <1>1, <1>4, <1>5, <1>6, <1>7, <1>8, Works

LEMMA RemoveBooks == ASSUME CInv, NEW h \in Handlers, Remove(h) PROVE CInv'
<1> DEFINE c == req[h].claim
<1>1. /\ claim[c] \in Row /\ req[h] \in Request /\ req[h].pc = "remove" /\ req[h].pc \in Working
      /\ claim[c].st \notin {"none", "gone"} /\ Sound(claim[c]) /\ Carried(req[h]) /\ c # None
  BY Holds, Claimed DEF Remove, At, There, Working
<1>2. PICK a : a = [claim[c] EXCEPT !.st = "gone"]
  OBVIOUS
<1>3. PICK r : r = Idle
  OBVIOUS
<1>4. /\ req' = [req EXCEPT ![h] = r] /\ claim' = [claim EXCEPT ![c] = a]
      /\ UNCHANGED <<both, broken>>
  BY <1>1, <1>2, <1>3 DEF Remove, Go, Finish, Write, CInv, TypeOK
<1>5. r \in Request /\ Carried(r) /\ r.claim = None
  BY <1>1, <1>3, IdleOK DEF Request, Carried, Free, Working
<1>6. a \in Row /\ a.st # "none" /\ Sound(a)
  BY <1>1, <1>2 DEF Row, Request, Sound, Carried
<1>7. Tracked(claim[c], req[h]) /\ (claim[c].st = "PAID" => claim[c].acc # 0)
        => /\ a.st = "PAID" => a.acc # 0
           /\ r.claim # None => Tracked(a, r)
  BY <1>1, <1>2, <1>3, <1>5 DEF Tracked, Row, Request, Sound
<1>8. Worked(claim[c], req[h]) => IF r.claim = None THEN Resting(a) ELSE Worked(a, r)
  BY <1>1, <1>2, <1>3, <1>5
     DEF Worked, Resting, Due, Young, Booked, Unbooked, Cash, Row, Request, Sound
<1> QED BY <1>1, <1>4, <1>5, <1>6, <1>7, <1>8, Works

LEMMA ApproveBooks == ASSUME CInv, NEW h \in Handlers, Approve(h) PROVE CInv'
<1> DEFINE c == req[h].claim
<1>1. /\ claim[c] \in Row /\ req[h] \in Request /\ req[h].pc = "approve" /\ req[h].pc \in Working
      /\ claim[c].st \notin {"none", "gone"} /\ Sound(claim[c]) /\ Carried(req[h]) /\ c # None
  BY Holds, Claimed DEF Approve, At, There, Working
<1>2. CASE claim[c].acc # 0
  <2>2. PICK a : a = [claim[c] EXCEPT !.st = "APPROVED"]
    OBVIOUS
  <2>3. PICK r : r = Idle
    OBVIOUS
  <2>4. /\ req' = [req EXCEPT ![h] = r] /\ claim' = [claim EXCEPT ![c] = a]
        /\ UNCHANGED <<both, broken>>
    BY <1>1, <1>2, <2>2, <2>3 DEF Approve, Go, Finish, Write, CInv, TypeOK
  <2>5. r \in Request /\ Carried(r) /\ r.claim = None
    BY <1>1, <2>3, IdleOK DEF Request, Carried, Free, Working, Row
  <2>6. a \in Row /\ a.st # "none" /\ Sound(a)
    BY <1>1, <2>2 DEF Row, Request, Sound, Carried
  <2>7. Tracked(claim[c], req[h]) /\ (claim[c].st = "PAID" => claim[c].acc # 0)
          => /\ a.st = "PAID" => a.acc # 0
             /\ r.claim # None => Tracked(a, r)
    BY <1>1, <1>2, <2>2, <2>3, <2>5 DEF Tracked, Row, Request, Sound
  <2>8. Worked(claim[c], req[h]) => IF r.claim = None THEN Resting(a) ELSE Worked(a, r)
    BY <1>1, <1>2, <2>2, <2>3, <2>5
       DEF Worked, Resting, Due, Young, Booked, Unbooked, Cash, Row, Request, Sound
  <2> QED BY <1>1, <2>4, <2>5, <2>6, <2>7, <2>8, Works
<1>3. CASE claim[c].acc = 0
  <2>2. PICK a : a = [claim[c] EXCEPT !.st = "APPROVED"]
    OBVIOUS
  <2>3. PICK r : r = [req[h] EXCEPT !.pc = "accrue", !.op = "none", !.amount = claim[c].total]
    OBVIOUS
  <2>4. /\ req' = [req EXCEPT ![h] = r] /\ claim' = [claim EXCEPT ![c] = a]
        /\ UNCHANGED <<both, broken>>
    BY <1>1, <1>3, <2>2, <2>3 DEF Approve, Go, Finish, Write, CInv, TypeOK
  <2>5. r \in Request /\ Carried(r) /\ r.claim = c
    BY <1>1, <2>3, IdleOK DEF Request, Carried, Free, Working, Row
  <2>6. a \in Row /\ a.st # "none" /\ Sound(a)
    BY <1>1, <2>2 DEF Row, Request, Sound, Carried
  <2>7. Tracked(claim[c], req[h]) /\ (claim[c].st = "PAID" => claim[c].acc # 0)
          => /\ a.st = "PAID" => a.acc # 0
             /\ r.claim # None => Tracked(a, r)
    BY <1>1, <1>3, <2>2, <2>3, <2>5 DEF Tracked, Row, Request, Sound
  <2>8. Worked(claim[c], req[h]) => IF r.claim = None THEN Resting(a) ELSE Worked(a, r)
    BY <1>1, <1>3, <2>2, <2>3, <2>5
       DEF Worked, Resting, Due, Young, Booked, Unbooked, Cash, Row, Request, Sound
  <2> QED BY <1>1, <2>4, <2>5, <2>6, <2>7, <2>8, Works
<1> QED BY <1>2, <1>3

LEMMA StoreAccrualBooks == ASSUME CInv, NEW h \in Handlers, StoreAccrual(h) PROVE CInv'
<1> DEFINE c == req[h].claim
<1>1. /\ claim[c] \in Row /\ req[h] \in Request /\ req[h].pc = "storeAccrual" /\ req[h].pc \in Working
      /\ claim[c].st \notin {"none", "gone"} /\ Sound(claim[c]) /\ Carried(req[h]) /\ c # None
  BY Holds, Claimed DEF StoreAccrual, At, There, Working
<1>2. CASE req[h].op = "pay"
  <2>2. PICK a : a = [claim[c] EXCEPT !.acc = req[h].amount]
    OBVIOUS
  <2>3. PICK r : r = [req[h] EXCEPT !.pc = "markPaid"]
    OBVIOUS
  <2>4. /\ req' = [req EXCEPT ![h] = r] /\ claim' = [claim EXCEPT ![c] = a]
        /\ UNCHANGED <<both, broken>>
    BY <1>1, <1>2, <2>2, <2>3 DEF StoreAccrual, Go, Finish, Write, CInv, TypeOK
  <2>5. r \in Request /\ Carried(r) /\ r.claim = c
    BY <1>1, <2>3, IdleOK DEF Request, Carried, Free, Working, Row
  <2>6. a \in Row /\ a.st # "none" /\ Sound(a)
    BY <1>1, <2>2 DEF Row, Request, Sound, Carried
  <2>7. Tracked(claim[c], req[h]) /\ (claim[c].st = "PAID" => claim[c].acc # 0)
          => /\ a.st = "PAID" => a.acc # 0
             /\ r.claim # None => Tracked(a, r)
    BY <1>1, <1>2, <2>2, <2>3, <2>5 DEF Tracked, Row, Request, Sound
  <2>8. Worked(claim[c], req[h]) => IF r.claim = None THEN Resting(a) ELSE Worked(a, r)
    BY <1>1, <1>2, <2>2, <2>3, <2>5
       DEF Worked, Resting, Due, Young, Booked, Unbooked, Cash, Row, Request, Sound
  <2> QED BY <1>1, <2>4, <2>5, <2>6, <2>7, <2>8, Works
<1>3. CASE req[h].op # "pay"
  <2>2. PICK a : a = [claim[c] EXCEPT !.acc = req[h].amount]
    OBVIOUS
  <2>3. PICK r : r = Idle
    OBVIOUS
  <2>4. /\ req' = [req EXCEPT ![h] = r] /\ claim' = [claim EXCEPT ![c] = a]
        /\ UNCHANGED <<both, broken>>
    BY <1>1, <1>3, <2>2, <2>3 DEF StoreAccrual, Go, Finish, Write, CInv, TypeOK
  <2>5. r \in Request /\ Carried(r) /\ r.claim = None
    BY <1>1, <2>3, IdleOK DEF Request, Carried, Free, Working, Row
  <2>6. a \in Row /\ a.st # "none" /\ Sound(a)
    BY <1>1, <2>2 DEF Row, Request, Sound, Carried
  <2>7. Tracked(claim[c], req[h]) /\ (claim[c].st = "PAID" => claim[c].acc # 0)
          => /\ a.st = "PAID" => a.acc # 0
             /\ r.claim # None => Tracked(a, r)
    BY <1>1, <1>3, <2>2, <2>3, <2>5 DEF Tracked, Row, Request, Sound
  <2>8. Worked(claim[c], req[h]) => IF r.claim = None THEN Resting(a) ELSE Worked(a, r)
    BY <1>1, <1>3, <2>2, <2>3, <2>5
       DEF Worked, Resting, Due, Young, Booked, Unbooked, Cash, Row, Request, Sound
  <2> QED BY <1>1, <2>4, <2>5, <2>6, <2>7, <2>8, Works
<1> QED BY <1>2, <1>3

LEMMA RejectBooks == ASSUME CInv, NEW h \in Handlers, Reject(h) PROVE CInv'
<1> DEFINE c == req[h].claim
<1>1. /\ claim[c] \in Row /\ req[h] \in Request /\ req[h].pc = "reject" /\ req[h].pc \in Working
      /\ claim[c].st \in {"SUBMITTED", "APPROVED"} /\ Sound(claim[c]) /\ Carried(req[h]) /\ c # None
  BY Holds, Claimed DEF Reject, At, There, Working
<1>2. CASE claim[c].st = "APPROVED" /\ claim[c].acc # 0
  <2>2. PICK a : a = claim[c]
    OBVIOUS
  <2>3. PICK r : r = [req[h] EXCEPT !.amount = claim[c].acc, !.pc = "unaccrue"]
    OBVIOUS
  <2>4. /\ req' = [req EXCEPT ![h] = r] /\ claim' = [claim EXCEPT ![c] = a]
        /\ UNCHANGED <<both, broken>>
    BY <1>1, <1>2, <2>2, <2>3 DEF Reject, Go, Finish, Write, CInv, TypeOK
  <2>5. r \in Request /\ Carried(r) /\ r.claim = c
    BY <1>1, <2>3, IdleOK DEF Request, Carried, Free, Working, Row
  <2>6. a \in Row /\ a.st # "none" /\ Sound(a)
    BY <1>1, <2>2 DEF Row, Request, Sound, Carried
  <2>7. Tracked(claim[c], req[h]) /\ (claim[c].st = "PAID" => claim[c].acc # 0)
          => /\ a.st = "PAID" => a.acc # 0
             /\ r.claim # None => Tracked(a, r)
    BY <1>1, <1>2, <2>2, <2>3, <2>5 DEF Tracked, Row, Request, Sound
  <2>8. Worked(claim[c], req[h]) => IF r.claim = None THEN Resting(a) ELSE Worked(a, r)
    BY <1>1, <1>2, <2>2, <2>3, <2>5
       DEF Worked, Resting, Due, Young, Booked, Unbooked, Cash, Row, Request, Sound
  <2> QED BY <1>1, <2>4, <2>5, <2>6, <2>7, <2>8, Works
<1>3. CASE ~(claim[c].st = "APPROVED" /\ claim[c].acc # 0)
  <2>2. PICK a : a = claim[c]
    OBVIOUS
  <2>3. PICK r : r = [req[h] EXCEPT !.amount = claim[c].acc, !.pc = "markRejected"]
    OBVIOUS
  <2>4. /\ req' = [req EXCEPT ![h] = r] /\ claim' = [claim EXCEPT ![c] = a]
        /\ UNCHANGED <<both, broken>>
    BY <1>1, <1>3, <2>2, <2>3 DEF Reject, Go, Finish, Write, CInv, TypeOK
  <2>5. r \in Request /\ Carried(r) /\ r.claim = c
    BY <1>1, <2>3, IdleOK DEF Request, Carried, Free, Working, Row
  <2>0. r.amount = claim[c].acc /\ r.pc = "markRejected"
    BY <1>1, <2>3 DEF Request
  <2>6. a \in Row /\ a.st # "none" /\ Sound(a)
    BY <1>1, <2>2 DEF Row, Request, Sound, Carried
  <2>7. Tracked(claim[c], req[h]) /\ (claim[c].st = "PAID" => claim[c].acc # 0)
          => /\ a.st = "PAID" => a.acc # 0
             /\ r.claim # None => Tracked(a, r)
    BY <1>1, <1>3, <2>2, <2>0, <2>5 DEF Tracked, Row, Request, Sound
  <2>8. Worked(claim[c], req[h]) => IF r.claim = None THEN Resting(a) ELSE Worked(a, r)
    BY <1>1, <1>3, <2>2, <2>0, <2>5
       DEF Worked, Resting, Due, Young, Booked, Unbooked, Cash, Row, Request, Sound
  <2> QED BY <1>1, <2>4, <2>5, <2>6, <2>7, <2>8, Works
<1> QED BY <1>2, <1>3

LEMMA ReverseAccrualBooks == ASSUME CInv, NEW h \in Handlers, ReverseAccrual(h) PROVE CInv'
<1> DEFINE c == req[h].claim
<1>1. /\ claim[c] \in Row /\ req[h] \in Request /\ req[h].pc = "unaccrue" /\ req[h].pc \in Working
      /\ claim[c].st \notin {"none", "gone"} /\ Sound(claim[c]) /\ Carried(req[h]) /\ c # None
  BY Holds, Claimed DEF ReverseAccrual, At, There, Working
<1>2. CASE claim[c].accReversed
  <2>2. PICK a : a = [claim[c] EXCEPT !.acc = 0]
    OBVIOUS
  <2>3. PICK r : r = [req[h] EXCEPT !.pc = "markRejected"]
    OBVIOUS
  <2>4. /\ req' = [req EXCEPT ![h] = r] /\ claim' = [claim EXCEPT ![c] = a]
        /\ UNCHANGED <<both, broken>>
    BY <1>1, <1>2, <2>2, <2>3 DEF ReverseAccrual, Go, Finish, Write, CInv, TypeOK
  <2>5. r \in Request /\ Carried(r) /\ r.claim = c
    BY <1>1, <2>3, IdleOK DEF Request, Carried, Free, Working, Row
  <2>6. a \in Row /\ a.st # "none" /\ Sound(a)
    BY <1>1, <2>2 DEF Row, Request, Sound, Carried
  <2>7. Tracked(claim[c], req[h]) /\ (claim[c].st = "PAID" => claim[c].acc # 0)
          => /\ a.st = "PAID" => a.acc # 0
             /\ r.claim # None => Tracked(a, r)
    BY <1>1, <1>2, <2>2, <2>3, <2>5 DEF Tracked, Row, Request, Sound
  <2>8. Worked(claim[c], req[h]) => IF r.claim = None THEN Resting(a) ELSE Worked(a, r)
    BY <1>1, <1>2, <2>2, <2>3, <2>5
       DEF Worked, Resting, Due, Young, Booked, Unbooked, Cash, Row, Request, Sound
  <2> QED BY <1>1, <2>4, <2>5, <2>6, <2>7, <2>8, Works
<1>3. CASE ~claim[c].accReversed
  <2>2. PICK a : a = [claim[c] EXCEPT !.accrued = @ - req[h].amount, !.accReversed = TRUE]
    OBVIOUS
  <2>3. PICK r : r = [req[h] EXCEPT !.pc = "forgetAccrual"]
    OBVIOUS
  <2>4. /\ req' = [req EXCEPT ![h] = r] /\ claim' = [claim EXCEPT ![c] = a]
        /\ UNCHANGED <<both, broken>>
    BY <1>1, <1>3, <2>2, <2>3 DEF ReverseAccrual, Go, Finish, Write, CInv, TypeOK
  <2>5. r \in Request /\ Carried(r) /\ r.claim = c
    BY <1>1, <2>3, IdleOK DEF Request, Carried, Free, Working, Row
  <2>0. claim[c].accrued - req[h].amount \in Int
    BY <1>1 DEF Row, Request
  <2>6. a \in Row /\ a.st # "none" /\ Sound(a)
    BY <1>1, <2>0, <2>2 DEF Row, Sound
  <2>7. Tracked(claim[c], req[h]) /\ (claim[c].st = "PAID" => claim[c].acc # 0)
          => /\ a.st = "PAID" => a.acc # 0
             /\ r.claim # None => Tracked(a, r)
    BY <1>1, <1>3, <2>2, <2>3, <2>5 DEF Tracked, Row, Request, Sound
  <2>8. Worked(claim[c], req[h]) => IF r.claim = None THEN Resting(a) ELSE Worked(a, r)
    BY <1>1, <1>3, <2>2, <2>3, <2>5
       DEF Worked, Resting, Due, Young, Booked, Unbooked, Cash, Row, Request, Sound
  <2> QED BY <1>1, <2>4, <2>5, <2>6, <2>7, <2>8, Works
<1> QED BY <1>2, <1>3

LEMMA PayBooks == ASSUME CInv, NEW h \in Handlers, Pay(h) PROVE CInv'
<1> DEFINE c == req[h].claim
<1>1. /\ claim[c] \in Row /\ req[h] \in Request /\ req[h].pc = "pay" /\ req[h].pc \in Working
      /\ claim[c].st = "APPROVED" /\ Sound(claim[c]) /\ Carried(req[h]) /\ c # None
  BY Holds, Claimed DEF Pay, At, There, Working
<1>2. CASE claim[c].acc = 0
  <2>2. PICK a : a = claim[c]
    OBVIOUS
  <2>3. PICK r : r = [req[h] EXCEPT !.amount = claim[c].total, !.pc = "accrue"]
    OBVIOUS
  <2>4. /\ req' = [req EXCEPT ![h] = r] /\ claim' = [claim EXCEPT ![c] = a]
        /\ UNCHANGED <<both, broken>>
    BY <1>1, <1>2, <2>2, <2>3 DEF Pay, Go, Finish, Write, CInv, TypeOK
  <2>5. r \in Request /\ Carried(r) /\ r.claim = c
    BY <1>1, <2>3, IdleOK DEF Request, Carried, Free, Working, Row
  <2>0. r.amount = claim[c].total /\ r.pc = "accrue"
    BY <1>1, <2>3 DEF Request
  <2>6. a \in Row /\ a.st # "none" /\ Sound(a)
    BY <1>1, <2>2 DEF Row, Request, Sound, Carried
  <2>7. Tracked(claim[c], req[h]) /\ (claim[c].st = "PAID" => claim[c].acc # 0)
          => /\ a.st = "PAID" => a.acc # 0
             /\ r.claim # None => Tracked(a, r)
    BY <1>1, <1>2, <2>2, <2>0, <2>5 DEF Tracked, Row, Request, Sound
  <2>8. Worked(claim[c], req[h]) => IF r.claim = None THEN Resting(a) ELSE Worked(a, r)
    BY <1>1, <1>2, <2>2, <2>0, <2>5
       DEF Worked, Resting, Due, Young, Booked, Unbooked, Cash, Row, Request, Sound
  <2> QED BY <1>1, <2>4, <2>5, <2>6, <2>7, <2>8, Works
<1>3. CASE claim[c].acc # 0
  <2>2. PICK a : a = claim[c]
    OBVIOUS
  <2>3. PICK r : r = [req[h] EXCEPT !.amount = claim[c].total, !.pc = "markPaid"]
    OBVIOUS
  <2>4. /\ req' = [req EXCEPT ![h] = r] /\ claim' = [claim EXCEPT ![c] = a]
        /\ UNCHANGED <<both, broken>>
    BY <1>1, <1>3, <2>2, <2>3 DEF Pay, Go, Finish, Write, CInv, TypeOK
  <2>5. r \in Request /\ Carried(r) /\ r.claim = c
    BY <1>1, <2>3, IdleOK DEF Request, Carried, Free, Working, Row
  <2>0. r.amount = claim[c].total /\ r.pc = "markPaid"
    BY <1>1, <2>3 DEF Request
  <2>6. a \in Row /\ a.st # "none" /\ Sound(a)
    BY <1>1, <2>2 DEF Row, Request, Sound, Carried
  <2>7. Tracked(claim[c], req[h]) /\ (claim[c].st = "PAID" => claim[c].acc # 0)
          => /\ a.st = "PAID" => a.acc # 0
             /\ r.claim # None => Tracked(a, r)
    BY <1>1, <1>3, <2>2, <2>0, <2>5 DEF Tracked, Row, Request, Sound
  <2>8. Worked(claim[c], req[h]) => IF r.claim = None THEN Resting(a) ELSE Worked(a, r)
    BY <1>1, <1>3, <2>2, <2>0, <2>5
       DEF Worked, Resting, Due, Young, Booked, Unbooked, Cash, Row, Request, Sound
  <2> QED BY <1>1, <2>4, <2>5, <2>6, <2>7, <2>8, Works
<1> QED BY <1>2, <1>3

LEMMA MarkPaidBooks == ASSUME CInv, NEW h \in Handlers, MarkPaid(h) PROVE CInv'
<1> DEFINE c == req[h].claim
<1>1. /\ claim[c] \in Row /\ req[h] \in Request /\ req[h].pc = "markPaid" /\ req[h].pc \in Working
      /\ claim[c].st \notin {"none", "gone"} /\ Sound(claim[c]) /\ Carried(req[h]) /\ c # None
  BY Holds, Claimed DEF MarkPaid, At, There, Working
<1>2. CASE claim[c].pay # 0
  <2>2. PICK a : a = [claim[c] EXCEPT !.st = "PAID"]
    OBVIOUS
  <2>3. PICK r : r = Idle
    OBVIOUS
  <2>4. /\ req' = [req EXCEPT ![h] = r] /\ claim' = [claim EXCEPT ![c] = a]
        /\ UNCHANGED <<both, broken>>
    BY <1>1, <1>2, <2>2, <2>3 DEF MarkPaid, Go, Finish, Write, CInv, TypeOK
  <2>5. r \in Request /\ Carried(r) /\ r.claim = None
    BY <1>1, <2>3, IdleOK DEF Request, Carried, Free, Working, Row
  <2>6. a \in Row /\ a.st # "none" /\ Sound(a)
    BY <1>1, <2>2 DEF Row, Request, Sound, Carried
  <2>7. Tracked(claim[c], req[h]) /\ (claim[c].st = "PAID" => claim[c].acc # 0)
          => /\ a.st = "PAID" => a.acc # 0
             /\ r.claim # None => Tracked(a, r)
    BY <1>1, <1>2, <2>2, <2>3, <2>5 DEF Tracked, Row, Request, Sound
  <2>8. Worked(claim[c], req[h]) => IF r.claim = None THEN Resting(a) ELSE Worked(a, r)
    BY <1>1, <1>2, <2>2, <2>3, <2>5
       DEF Worked, Resting, Due, Young, Booked, Unbooked, Cash, Row, Request, Sound
  <2> QED BY <1>1, <2>4, <2>5, <2>6, <2>7, <2>8, Works
<1>3. CASE claim[c].pay = 0
  <2>2. PICK a : a = [claim[c] EXCEPT !.st = "PAID"]
    OBVIOUS
  <2>3. PICK r : r = [req[h] EXCEPT !.pc = "post", !.amount = claim[c].total]
    OBVIOUS
  <2>4. /\ req' = [req EXCEPT ![h] = r] /\ claim' = [claim EXCEPT ![c] = a]
        /\ UNCHANGED <<both, broken>>
    BY <1>1, <1>3, <2>2, <2>3 DEF MarkPaid, Go, Finish, Write, CInv, TypeOK
  <2>5. r \in Request /\ Carried(r) /\ r.claim = c
    BY <1>1, <2>3, IdleOK DEF Request, Carried, Free, Working, Row
  <2>6. a \in Row /\ a.st # "none" /\ Sound(a)
    BY <1>1, <2>2 DEF Row, Request, Sound, Carried
  <2>7. Tracked(claim[c], req[h]) /\ (claim[c].st = "PAID" => claim[c].acc # 0)
          => /\ a.st = "PAID" => a.acc # 0
             /\ r.claim # None => Tracked(a, r)
    BY <1>1, <1>3, <2>2, <2>3, <2>5 DEF Tracked, Row, Request, Sound
  <2>8. Worked(claim[c], req[h]) => IF r.claim = None THEN Resting(a) ELSE Worked(a, r)
    BY <1>1, <1>3, <2>2, <2>3, <2>5
       DEF Worked, Resting, Due, Young, Booked, Unbooked, Cash, Row, Request, Sound
  <2> QED BY <1>1, <2>4, <2>5, <2>6, <2>7, <2>8, Works
<1> QED BY <1>2, <1>3

LEMMA UnpayBooks == ASSUME CInv, NEW h \in Handlers, Unpay(h) PROVE CInv'
<1> DEFINE c == req[h].claim
<1>1. /\ claim[c] \in Row /\ req[h] \in Request /\ req[h].pc = "unpay" /\ req[h].pc \in Working
      /\ claim[c].st = "PAID" /\ Sound(claim[c]) /\ Carried(req[h]) /\ c # None
  BY Holds, Claimed DEF Unpay, At, There, Working
<1>2. CASE claim[c].pay = 0
  <2>2. PICK a : a = claim[c]
    OBVIOUS
  <2>3. PICK r : r = [req[h] EXCEPT !.amount = claim[c].pay, !.pc = "markUnpaid"]
    OBVIOUS
  <2>4. /\ req' = [req EXCEPT ![h] = r] /\ claim' = [claim EXCEPT ![c] = a]
        /\ UNCHANGED <<both, broken>>
    BY <1>1, <1>2, <2>2, <2>3 DEF Unpay, Go, Finish, Write, CInv, TypeOK
  <2>5. r \in Request /\ Carried(r) /\ r.claim = c
    BY <1>1, <2>3, IdleOK DEF Request, Carried, Free, Working, Row
  <2>0. r.amount = claim[c].pay /\ r.pc = "markUnpaid"
    BY <1>1, <2>3 DEF Request
  <2>6. a \in Row /\ a.st # "none" /\ Sound(a)
    BY <1>1, <2>2 DEF Row, Request, Sound, Carried
  <2>7. Tracked(claim[c], req[h]) /\ (claim[c].st = "PAID" => claim[c].acc # 0)
          => /\ a.st = "PAID" => a.acc # 0
             /\ r.claim # None => Tracked(a, r)
    BY <1>1, <1>2, <2>2, <2>0, <2>5 DEF Tracked, Row, Request, Sound
  <2>8. Worked(claim[c], req[h]) => IF r.claim = None THEN Resting(a) ELSE Worked(a, r)
    BY <1>1, <1>2, <2>2, <2>0, <2>5
       DEF Worked, Resting, Due, Young, Booked, Unbooked, Cash, Row, Request, Sound
  <2> QED BY <1>1, <2>4, <2>5, <2>6, <2>7, <2>8, Works
<1>3. CASE claim[c].pay # 0
  <2>2. PICK a : a = claim[c]
    OBVIOUS
  <2>3. PICK r : r = [req[h] EXCEPT !.amount = claim[c].pay, !.pc = "unpost"]
    OBVIOUS
  <2>4. /\ req' = [req EXCEPT ![h] = r] /\ claim' = [claim EXCEPT ![c] = a]
        /\ UNCHANGED <<both, broken>>
    BY <1>1, <1>3, <2>2, <2>3 DEF Unpay, Go, Finish, Write, CInv, TypeOK
  <2>5. r \in Request /\ Carried(r) /\ r.claim = c
    BY <1>1, <2>3, IdleOK DEF Request, Carried, Free, Working, Row
  <2>6. a \in Row /\ a.st # "none" /\ Sound(a)
    BY <1>1, <2>2 DEF Row, Request, Sound, Carried
  <2>7. Tracked(claim[c], req[h]) /\ (claim[c].st = "PAID" => claim[c].acc # 0)
          => /\ a.st = "PAID" => a.acc # 0
             /\ r.claim # None => Tracked(a, r)
    BY <1>1, <1>3, <2>2, <2>3, <2>5 DEF Tracked, Row, Request, Sound
  <2>8. Worked(claim[c], req[h]) => IF r.claim = None THEN Resting(a) ELSE Worked(a, r)
    BY <1>1, <1>3, <2>2, <2>3, <2>5
       DEF Worked, Resting, Due, Young, Booked, Unbooked, Cash, Row, Request, Sound
  <2> QED BY <1>1, <2>4, <2>5, <2>6, <2>7, <2>8, Works
<1> QED BY <1>2, <1>3

LEMMA ReversePaymentBooks == ASSUME CInv, NEW h \in Handlers, ReversePayment(h) PROVE CInv'
<1> DEFINE c == req[h].claim
<1>1. /\ claim[c] \in Row /\ req[h] \in Request /\ req[h].pc = "unpost" /\ req[h].pc \in Working
      /\ claim[c].st \notin {"none", "gone"} /\ Sound(claim[c]) /\ Carried(req[h]) /\ c # None
  BY Holds, Claimed DEF ReversePayment, At, There, Working
<1>2. CASE claim[c].payReversed
  <2>2. PICK a : a = [claim[c] EXCEPT !.pay = 0]
    OBVIOUS
  <2>3. PICK r : r = [req[h] EXCEPT !.pc = "markUnpaid"]
    OBVIOUS
  <2>4. /\ req' = [req EXCEPT ![h] = r] /\ claim' = [claim EXCEPT ![c] = a]
        /\ UNCHANGED <<both, broken>>
    BY <1>1, <1>2, <2>2, <2>3 DEF ReversePayment, Go, Finish, Write, CInv, TypeOK
  <2>5. r \in Request /\ Carried(r) /\ r.claim = c
    BY <1>1, <2>3, IdleOK DEF Request, Carried, Free, Working, Row
  <2>6. a \in Row /\ a.st # "none" /\ Sound(a)
    BY <1>1, <2>2 DEF Row, Request, Sound, Carried
  <2>7. Tracked(claim[c], req[h]) /\ (claim[c].st = "PAID" => claim[c].acc # 0)
          => /\ a.st = "PAID" => a.acc # 0
             /\ r.claim # None => Tracked(a, r)
    BY <1>1, <1>2, <2>2, <2>3, <2>5 DEF Tracked, Row, Request, Sound
  <2>8. Worked(claim[c], req[h]) => IF r.claim = None THEN Resting(a) ELSE Worked(a, r)
    BY <1>1, <1>2, <2>2, <2>3, <2>5
       DEF Worked, Resting, Due, Young, Booked, Unbooked, Cash, Row, Request, Sound
  <2> QED BY <1>1, <2>4, <2>5, <2>6, <2>7, <2>8, Works
<1>3. CASE ~claim[c].payReversed
  <2>2. PICK a : a = [claim[c] EXCEPT !.paid = @ - req[h].amount, !.payReversed = TRUE]
    OBVIOUS
  <2>3. PICK r : r = [req[h] EXCEPT !.pc = "forgetPayment"]
    OBVIOUS
  <2>4. /\ req' = [req EXCEPT ![h] = r] /\ claim' = [claim EXCEPT ![c] = a]
        /\ UNCHANGED <<both, broken>>
    BY <1>1, <1>3, <2>2, <2>3 DEF ReversePayment, Go, Finish, Write, CInv, TypeOK
  <2>5. r \in Request /\ Carried(r) /\ r.claim = c
    BY <1>1, <2>3, IdleOK DEF Request, Carried, Free, Working, Row
  <2>0. claim[c].paid - req[h].amount \in Int
    BY <1>1 DEF Row, Request
  <2>6. a \in Row /\ a.st # "none" /\ Sound(a)
    BY <1>1, <2>0, <2>2 DEF Row, Sound
  <2>7. Tracked(claim[c], req[h]) /\ (claim[c].st = "PAID" => claim[c].acc # 0)
          => /\ a.st = "PAID" => a.acc # 0
             /\ r.claim # None => Tracked(a, r)
    BY <1>1, <1>3, <2>2, <2>3, <2>5 DEF Tracked, Row, Request, Sound
  <2>8. Worked(claim[c], req[h]) => IF r.claim = None THEN Resting(a) ELSE Worked(a, r)
    BY <1>1, <1>3, <2>2, <2>3, <2>5
       DEF Worked, Resting, Due, Young, Booked, Unbooked, Cash, Row, Request, Sound
  <2> QED BY <1>1, <2>4, <2>5, <2>6, <2>7, <2>8, Works
<1> QED BY <1>2, <1>3

LEMMA RefuseBooks == ASSUME CInv, NEW h \in Handlers, Refuse(h) PROVE CInv'
<1> DEFINE c == req[h].claim
<1>1. /\ claim[c] \in Row /\ req[h] \in Request /\ req[h].pc \in {"reject", "pay", "unpay"} /\ req[h].pc \in Working
      /\ claim[c].st # "none" /\ Sound(claim[c]) /\ Carried(req[h]) /\ c # None
  BY Holds, Claimed DEF Refuse, At, There, Working
<1>2. CASE TRUE
  <2>2. PICK a : a = claim[c]
    OBVIOUS
  <2>3. PICK r : r = Idle
    OBVIOUS
  <2>4. /\ req' = [req EXCEPT ![h] = r] /\ claim' = [claim EXCEPT ![c] = a]
        /\ UNCHANGED <<both, broken>>
    BY <1>1, <1>2, <2>2, <2>3 DEF Refuse, Go, Finish, Write, CInv, TypeOK
  <2>5. r \in Request /\ Carried(r) /\ r.claim = None
    BY <1>1, <2>3, IdleOK DEF Request, Carried, Free, Working, Row
  <2>6. a \in Row /\ a.st # "none" /\ Sound(a)
    BY <1>1, <2>2 DEF Row, Request, Sound, Carried
  <2>7. Tracked(claim[c], req[h]) /\ (claim[c].st = "PAID" => claim[c].acc # 0)
          => /\ a.st = "PAID" => a.acc # 0
             /\ r.claim # None => Tracked(a, r)
    BY <1>1, <1>2, <2>2, <2>3, <2>5 DEF Tracked, Row, Request, Sound
  <2>8. Worked(claim[c], req[h]) => IF r.claim = None THEN Resting(a) ELSE Worked(a, r)
    BY <1>1, <1>2, <2>2, <2>3, <2>5
       DEF Worked, Resting, Due, Young, Booked, Unbooked, Cash, Row, Request, Sound
  <2> QED BY <1>1, <2>4, <2>5, <2>6, <2>7, <2>8, Works
<1> QED BY <1>2

\* Requests that take up a claim.
LEMMA TakesUp ==
  ASSUME CInv, NEW h \in Handlers, NEW c \in Claims, NEW r \in Request,
         r.claim = c, Carried(r), Serve(h, r), NowOn(c), claim[c].st # "none",
         UNCHANGED <<claim, broken>>,
         Tracked(claim[c], r), Resting(claim[c]) => Worked(claim[c], r)
  PROVE  CInv'
<1> USE DEF CInv
<1>1. /\ claim[c] \in Row /\ Sound(claim[c]) /\ req' = [req EXCEPT ![h] = r]
      /\ claim' = [claim EXCEPT ![c] = claim[c]]
      /\ r.claim \in {c, None}
      /\ both \subseteq both' /\ both' \subseteq both \cup {c}
      /\ broken \subseteq broken' /\ broken' \subseteq broken \cup {c}
      /\ Carried(r) /\ r \in Request /\ claim[c].st # "none"
  BY DEF TypeOK, Rows, Serve, NowOn
<1>2. req[h].claim \in {c, None}
  BY DEF Serve, Requests, Carried, Working
<1>3. c \notin both' => c \notin both /\ ~Handled(c)
  BY DEF NowOn
<1>4. c \notin both' => /\ req[h].claim = c \/ ~Handled(c)
                        /\ claim[c].st = "PAID" => claim[c].acc # 0
                        /\ r.claim = c => Tracked(claim[c], r)
  BY <1>3 DEF PaidHasAccrual
<1>5. c \notin both' \cup broken' =>
        IF r.claim = c THEN Worked(claim[c], r) ELSE Resting(claim[c])
  BY <1>3 DEF Tended
<1> HIDE DEF CInv
<1> QED BY ONLY <1>1, <1>2, <1>4, <1>5, CInv, h \in Handlers, c \in Claims, OnClaim

LEMMA LoadBooks ==
  ASSUME CInv, NEW h \in Handlers, NEW c \in Claims,
         LoadUpdate(h, c) \/ LoadSubmit(h, c) \/ LoadApprove(h, c) \/ LoadRemove(h, c)
  PROVE  CInv'
<1>1. ASSUME NEW statuses, NEW pc \in {"lines", "submit", "approve", "remove"}, NEW n \in Nat,
             Load(h, c, statuses, pc, n), "none" \notin statuses,
             pc = "lines" => n # 0,
             Tracked(claim[c], [Idle EXCEPT !.pc = pc, !.claim = c, !.amount = n]),
             Resting(claim[c]) =>
               Worked(claim[c], [Idle EXCEPT !.pc = pc, !.claim = c, !.amount = n])
      PROVE  CInv'
  <2>1. PICK r : r = [Idle EXCEPT !.pc = pc, !.claim = c, !.amount = n]
    OBVIOUS
  <2>2. r \in Request
    BY <2>1, IdleOK DEF Request, Working
  <2>3. r.claim = c /\ r.pc = pc /\ r.amount = n
    BY <2>1 DEF Idle
  <2>4. Carried(r)
    BY <1>1, <2>3, Claimed DEF Carried, Working
  <2>5. /\ Serve(h, r) /\ NowOn(c) /\ claim[c].st # "none" /\ UNCHANGED <<claim, broken>>
        /\ Tracked(claim[c], r) /\ (Resting(claim[c]) => Worked(claim[c], r))
    BY <1>1, <2>1 DEF Load
  <2> QED BY <2>2, <2>3, <2>4, <2>5, TakesUp
<1>2. \A pc, n : /\ [Idle EXCEPT !.pc = pc, !.claim = c, !.amount = n].pc = pc
                 /\ [Idle EXCEPT !.pc = pc, !.claim = c, !.amount = n].claim = c
                 /\ [Idle EXCEPT !.pc = pc, !.claim = c, !.amount = n].amount = n
  BY DEF Idle
<1>3. CASE LoadUpdate(h, c)
  <2>1. PICK t \in Amounts : Load(h, c, {"DRAFT"}, "lines", t)
    BY <1>3 DEF LoadUpdate
  <2>2. t \in Nat /\ t # 0 /\ claim[c].st = "DRAFT"
    BY <2>1, ClaimConstants DEF Load
  <2>3. Tracked(claim[c], [Idle EXCEPT !.pc = "lines", !.claim = c, !.amount = t])
    BY <1>2, <2>2 DEF Tracked
  <2>4. Resting(claim[c]) =>
          Worked(claim[c], [Idle EXCEPT !.pc = "lines", !.claim = c, !.amount = t])
    BY <1>2, <2>2 DEF Resting, Worked, Due
  <2> QED BY <1>1, <2>1, <2>2, <2>3, <2>4
<1>4. CASE LoadSubmit(h, c)
  <2>1. Load(h, c, {"DRAFT"}, "submit", 0) /\ claim[c].st = "DRAFT"
    BY <1>4 DEF LoadSubmit, Load
  <2>3. Tracked(claim[c], [Idle EXCEPT !.pc = "submit", !.claim = c, !.amount = 0])
    BY <1>2, <2>1 DEF Tracked
  <2>4. Resting(claim[c]) =>
          Worked(claim[c], [Idle EXCEPT !.pc = "submit", !.claim = c, !.amount = 0])
    BY <1>2, <2>1 DEF Resting, Worked, Due
  <2> QED BY <1>1, <2>1, <2>3, <2>4
<1>5. CASE LoadApprove(h, c)
  <2>1. Load(h, c, {"SUBMITTED"}, "approve", 0) /\ claim[c].st = "SUBMITTED"
    BY <1>5 DEF LoadApprove, Load
  <2>3. Tracked(claim[c], [Idle EXCEPT !.pc = "approve", !.claim = c, !.amount = 0])
    BY <1>2, <2>1 DEF Tracked
  <2>4. Resting(claim[c]) =>
          Worked(claim[c], [Idle EXCEPT !.pc = "approve", !.claim = c, !.amount = 0])
    BY <1>2, <2>1 DEF Resting, Worked, Due
  <2> QED BY <1>1, <2>1, <2>3, <2>4
<1>6. CASE LoadRemove(h, c)
  <2>1. Load(h, c, {"DRAFT", "REJECTED"}, "remove", 0) /\ claim[c].st \in {"DRAFT", "REJECTED"}
    BY <1>6 DEF LoadRemove, Load
  <2>3. Tracked(claim[c], [Idle EXCEPT !.pc = "remove", !.claim = c, !.amount = 0])
    BY <1>2, <2>1 DEF Tracked
  <2>4. Resting(claim[c]) =>
          Worked(claim[c], [Idle EXCEPT !.pc = "remove", !.claim = c, !.amount = 0])
    BY <1>2, <2>1 DEF Worked
  <2> QED BY <1>1, <2>1, <2>3, <2>4
<1> QED BY <1>3, <1>4, <1>5, <1>6

\* A request for an operation that needs an approval.
LEMMA BeginBooks == ASSUME CInv, NEW h \in Handlers, NEW c \in Claims, Begin(h, c) PROVE CInv'
<1>1. PICK b \in ApprovalRequests, op \in {"reject", "pay", "unpay"} :
        There(c) /\ LoadApproval(h, b, op, c)
  BY DEF Begin
<1>2. PICK r : r = [Idle EXCEPT !.pc = "consume", !.approval = b, !.op = op, !.claim = c]
  OBVIOUS
<1>3. r \in Request
  BY <1>2, IdleOK DEF Request, Working
<1>4. r.pc = "consume" /\ r.claim = c /\ r.op = op
  BY <1>2 DEF Idle
<1>5. Carried(r)
  BY <1>4, Claimed DEF Carried, Working
<1>6. Serve(h, r) /\ NowOn(c) /\ claim[c].st # "none" /\ UNCHANGED <<claim, broken>>
  BY <1>1, <1>2 DEF LoadApproval, Begin, There
<1>7. Tracked(claim[c], r) /\ (Resting(claim[c]) => Worked(claim[c], r))
  BY <1>4 DEF Tracked, Worked
<1> QED BY <1>3, <1>4, <1>5, <1>6, <1>7, TakesUp

LEMMA ConsumeBooks ==
  ASSUME CInv, NEW h \in Handlers, Consume(h), UNCHANGED <<claim, both, broken>>
  PROVE  CInv'
<1> DEFINE c == req[h].claim
<1>1. /\ c \in Claims /\ c # None /\ claim[c] \in Row /\ req[h] \in Request
      /\ req[h].pc = "consume" /\ req[h].pc \in Working
      /\ Sound(claim[c]) /\ claim[c].st # "none" /\ req[h].op \in {"reject", "pay", "unpay"}
  BY Holds, Claimed DEF Consume, Working, Carried
<1>2. PICK r : r = [req[h] EXCEPT !.pc = req[h].op, !.approval = None]
  OBVIOUS
<1>3. r \in Request /\ r.claim = c /\ r.pc \in {"reject", "pay", "unpay"}
  BY <1>1, <1>2 DEF Request, Working
<1>4. Carried(r)
  BY <1>1, <1>3 DEF Carried, Working
<1>5. req' = [req EXCEPT ![h] = r] /\ claim' = [claim EXCEPT ![c] = claim[c]]
  BY <1>2 DEF Consume, CInv, TypeOK
<1>6. Tracked(claim[c], r) /\ (Worked(claim[c], req[h]) => Worked(claim[c], r))
  BY <1>1, <1>3 DEF Tracked, Worked
<1> QED BY <1>1, <1>3, <1>4, <1>5, <1>6, Works

LEMMA ApprovalBooks ==
  ASSUME CInv, ApprovalStep, UNCHANGED <<claim, both, broken>>
  PROVE  CInv'
<1>1. ASSUME NEW b \in ApprovalRequests, Ask(b) \/ TimePasses(b) \/ ExpireStale(b) PROVE CInv'
  <2>1. req' = req
    BY <1>1 DEF Ask, TimePasses, ExpireStale
  <2> QED BY <2>1 DEF CInv, TypeOK, Requests, Rows, PaidHasAccrual, Tended, Handled, AloneOn
<1>2. ASSUME NEW h \in Handlers, NEW b \in ApprovalRequests, LoadDecision(h, b) PROVE CInv'
  <2>1. PICK st \in {"APPROVED", "REJECTED"} :
          Serve(h, [Idle EXCEPT !.pc = "decide", !.approval = b, !.op = st])
    BY <1>2 DEF LoadDecision
  <2>2. PICK r : r = [Idle EXCEPT !.pc = "decide", !.approval = b, !.op = st]
    OBVIOUS
  <2>3. r \in Request
    BY <2>2, IdleOK DEF Request, Free
  <2>4. r.claim = None /\ r.pc = "decide"
    BY <2>2 DEF Idle
  <2>5. Carried(r) /\ req' = [req EXCEPT ![h] = r]
    BY <2>1, <2>2, <2>4 DEF Carried, Working, Serve
  <2>6. req[h].claim = None
    BY <2>1 DEF Serve, CInv, Requests, Carried, Working
  <2> QED BY <2>3, <2>4, <2>5, <2>6, Aside
<1>3. ASSUME NEW h \in Handlers, Decide(h) PROVE CInv'
  <2>1. req' = [req EXCEPT ![h] = Idle] /\ req[h].claim = None
    BY <1>3 DEF Decide, CInv, Requests, Carried, Working
  <2> QED BY <2>1, IdleOK, Aside
<1> QED BY <1>1, <1>2, <1>3, ConsumeBooks DEF ApprovalStep

\* A new claim, and a request that stops on one.
LEMMA CreateBooks == ASSUME CInv, NEW c \in Claims, Create(c) PROVE CInv'
<1> USE DEF CInv
<1>1. PICK t \in Amounts :
        Write(c, [NoClaim EXCEPT !.st = "DRAFT", !.lines = TRUE, !.total = t])
  BY DEF Create
<1>2. PICK a : a = [NoClaim EXCEPT !.st = "DRAFT", !.lines = TRUE, !.total = t]
  OBVIOUS
<1>3. t \in Nat /\ t # 0
  BY ClaimConstants
<1>4. NoClaim \in Row
  BY DEF NoClaim, Row
<1>5. a \in Row
  BY <1>2, <1>3, <1>4 DEF Row
<1>6. a.st = "DRAFT" /\ a.total = t /\ Young(a)
  BY <1>2 DEF NoClaim, Young, Unbooked, Cash
<1>7. /\ claim' = [claim EXCEPT ![c] = a] /\ UNCHANGED <<both, broken, req>>
      /\ claim[c].st = "none"
  BY <1>1, <1>2 DEF Create, Write
<1>8. Sound(a) /\ Resting(a)
  BY <1>3, <1>6 DEF Sound, Resting
<1>9. /\ \A h \in Handlers : req[h].claim # c
      /\ claim'[c] = a /\ \A d \in Claims \ {c} : claim'[d] = claim[d]
  BY <1>7 DEF Rows, Handled, TypeOK
<1>10. TypeOK' /\ Requests'
  BY <1>5, <1>7 DEF TypeOK, Requests
<1>11. Rows'
  BY <1>6, <1>7, <1>8, <1>9 DEF Rows, Handled
<1>12. PaidHasAccrual'
  BY <1>6, <1>7, <1>9 DEF PaidHasAccrual, AloneOn
<1>13. Tended'
  BY <1>7, <1>8, <1>9 DEF Tended, Handled
<1> QED BY <1>10, <1>11, <1>12, <1>13

LEMMA StopBooks == ASSUME CInv, NEW h \in Handlers, Stop(h) PROVE CInv'
<1> DEFINE c == req[h].claim
<1>1. c # None /\ req[h].pc \in Working
  BY DEF Stop, CInv, Requests, Carried
<1>2. /\ c \in Claims /\ claim[c] \in Row /\ Sound(claim[c]) /\ claim[c].st # "none"
      /\ c \notin both => (claim[c].st = "PAID" => claim[c].acc # 0)
  BY <1>1, Holds
<1>3. /\ req' = [req EXCEPT ![h] = Idle] /\ claim' = [claim EXCEPT ![c] = claim[c]]
      /\ both' = both /\ broken' = broken \cup {c}
  BY DEF Stop, Finish, CInv, TypeOK
<1> HIDE DEF c
<1>4. /\ req[h].claim \in {c, None} /\ Idle.claim \in {c, None} /\ req[h].claim = c
      /\ both \subseteq both' /\ both' \subseteq both \cup {c}
      /\ broken \subseteq broken' /\ broken' \subseteq broken \cup {c}
      /\ Idle.claim # c
  BY <1>1, <1>3, IdleOK DEF c
<1>5. c \notin both' => /\ req[h].claim = c \/ ~Handled(c)
                        /\ claim[c].st = "PAID" => claim[c].acc # 0
                        /\ Idle.claim = c => Tracked(claim[c], Idle)
  BY <1>2, <1>3, <1>4
<1>6. c \notin both' \cup broken' =>
        IF Idle.claim = c THEN Worked(claim[c], Idle) ELSE Resting(claim[c])
  BY <1>3
<1> QED BY ONLY <1>2, <1>3, <1>4, <1>5, <1>6, CInv, h \in Handlers, IdleOK, OnClaim

LEMMA InitCInv == Init => CInv
<1> SUFFICES ASSUME Init PROVE CInv
  OBVIOUS
<1>1. /\ \A h \in Handlers : req[h] = Idle
      /\ \A c \in Claims : claim[c] = NoClaim
      /\ \A c \in Claims : c # Idle.claim
  BY Claimed, IdleOK DEF Init
<1>2. NoClaim \in Row /\ NoClaim.st = "none"
  BY DEF NoClaim, Row
<1>3. TypeOK
  BY <1>2, IdleOK DEF Init, TypeOK
<1>4. Requests
  BY <1>1, IdleOK DEF Requests
<1>5. \A c \in Claims : ~Handled(c)
  BY <1>1 DEF Handled
<1>6. Rows
  BY <1>1, <1>2, <1>5 DEF Rows, Sound
<1>7. PaidHasAccrual
  BY <1>1, <1>2 DEF PaidHasAccrual, AloneOn
<1>8. Tended
  BY <1>1, <1>2 DEF Tended
<1> QED BY <1>3, <1>4, <1>6, <1>7, <1>8 DEF CInv

LEMMA NextKeepsCInv == CInv /\ [Next]_vars => CInv'
<1> SUFFICES ASSUME CInv, [Next]_vars PROVE CInv'
  OBVIOUS
<1>1. CASE ApprovalStep /\ UNCHANGED <<claim, both, broken, stops>>
  BY <1>1, ApprovalBooks
<1>2. ASSUME NEW h \in Handlers, Employee(h) PROVE CInv'
  BY <1>2, LoadBooks, DropLinesBooks, UpdateBooks, SubmitBooks, RemoveBooks, ApproveBooks,
     AccrueBooks, StoreAccrualBooks DEF Employee
<1>3. ASSUME NEW h \in Handlers, Cashier(h) PROVE CInv'
  <2>1. CASE (\E c \in Claims : Begin(h, c)) \/ Refuse(h)
    BY <2>1, BeginBooks, RefuseBooks
  <2>2. CASE Reject(h) \/ ReverseAccrual(h) \/ ForgetAccrual(h) \/ MarkRejected(h)
    BY <2>2, RejectBooks, ReverseAccrualBooks, ForgetAccrualBooks, MarkRejectedBooks
  <2>3. CASE Pay(h) \/ MarkPaid(h) \/ PostPayment(h) \/ StorePayment(h)
    BY <2>3, PayBooks, MarkPaidBooks, PostPaymentBooks, StorePaymentBooks
  <2>4. CASE Unpay(h) \/ ReversePayment(h) \/ ForgetPayment(h) \/ MarkUnpaid(h)
    BY <2>4, UnpayBooks, ReversePaymentBooks, ForgetPaymentBooks, MarkUnpaidBooks
  <2> QED BY <1>3, <2>1, <2>2, <2>3, <2>4 DEF Cashier
<1>4. CASE UNCHANGED vars
  <2>1. UNCHANGED <<claim, both, broken, req>>
    BY <1>4 DEF vars
  <2> QED BY <2>1 DEF CInv, TypeOK, Requests, Rows, PaidHasAccrual, Tended, Handled, AloneOn
<1> QED BY <1>1, <1>2, <1>3, <1>4, CreateBooks, StopBooks DEF Next

\* The journals of a claim follow its status whenever nobody works on it, from
\* submission through payment, unpayment and rejection, unless two requests
\* worked on it at once, one stopped on it, or it was unpaid a second time
\* (reverseClaimPayment then reuses the reversal of the first).
THEOREM BooksOfClaims == Spec => []BooksFollowClaims
<1>1. CInv => BooksFollowClaims
  <2> SUFFICES ASSUME CInv, NEW c \in Claims \ (both \cup broken), ~Handled(c)
      PROVE  /\ claim[c].accrued = IF claim[c].st \in {"APPROVED", "PAID"} THEN claim[c].total ELSE 0
             /\ claim[c].unpaid <= 1 =>
                  claim[c].paid = IF claim[c].st = "PAID" THEN claim[c].total ELSE 0
    BY DEF BooksFollowClaims
  <2>1. /\ claim[c].st = "none" \/ Resting(claim[c])
        /\ claim[c].st = "none" => claim[c] = NoClaim
    BY DEF CInv, Tended, Rows, Sound
  <2>2. CASE claim[c].st = "none"
    BY <2>1, <2>2 DEF NoClaim
  <2>3. CASE claim[c].st # "none"
    BY <2>1, <2>3 DEF Resting, Young, Due, Booked, Unbooked, Cash
  <2> QED BY <2>2, <2>3
<1> QED BY InitCInv, NextKeepsCInv, <1>1, PTL DEF Spec

\* Whoever marks a claim paid has posted its accrual first, also when an
\* approval or a rejection before it stopped half-way.
THEOREM PaymentFollowsAccrual == Spec => []PaidIsAccrued
<1>1. CInv => PaidIsAccrued
  BY DEF CInv, PaidHasAccrual, PaidIsAccrued
<1> QED BY InitCInv, NextKeepsCInv, <1>1, PTL DEF Spec
=============================================================================
