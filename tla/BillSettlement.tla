--------------------------- MODULE BillSettlement ---------------------------
(***************************************************************************)
(* What fulfilment promises, without requests, reads or locks: every bill  *)
(* is settled at most once, and its effect comes with the settlement in    *)
(* one indivisible step.                                                   *)
(***************************************************************************)
EXTENDS Naturals

CONSTANT Bills
VARIABLES settled, effects

Init == settled = {} /\ effects = [b \in Bills |-> 0]

Settle(b) ==
  /\ b \notin settled
  /\ settled' = settled \cup {b}
  /\ effects' = [effects EXCEPT ![b] = 1]

Next == \E b \in Bills : Settle(b)

Spec == Init /\ [][Next]_<<settled, effects>>
=============================================================================
