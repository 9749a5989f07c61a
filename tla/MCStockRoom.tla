---------------------------- MODULE MCStockRoom -----------------------------
(***************************************************************************)
(* Small instances of the stock room.                                      *)
(***************************************************************************)
EXTENDS StockRoom, TLC

CONSTANTS w1, w2, n1, c1, s1

OneWarehouse == [d \in Notes \cup Counts \cup Sales |-> w1]
TwoWarehouses == [d \in Notes \cup Counts \cup Sales |-> IF d = n1 THEN w2 ELSE w1]
MCQty == [d \in Notes \cup Sales |-> 1]
MCOpening == [w \in Warehouses |-> 1]

HandlerSymmetry == Permutations(Handlers)
=============================================================================
