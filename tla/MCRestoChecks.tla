--------------------------- MODULE MCRestoChecks ----------------------------
(***************************************************************************)
(* Small instances of the restaurant's checks.                             *)
(***************************************************************************)
EXTENDS RestoChecks, TLC

RowSymmetry == Permutations(Orders) \cup Permutations(Items) \cup Permutations(Bills)
=============================================================================
