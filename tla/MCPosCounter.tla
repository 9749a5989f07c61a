---------------------------- MODULE MCPosCounter ----------------------------
(***************************************************************************)
(* Small instances of the POS counter.                                     *)
(***************************************************************************)
EXTENDS PosCounter, TLC

CounterSymmetry == Permutations(Sales) \cup Permutations(Handlers)
=============================================================================
