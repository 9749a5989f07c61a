---------------------------- MODULE MCCashDrawer ----------------------------
\* CashDrawer with symmetric shifts, movements and handlers.
EXTENDS CashDrawer, TLC

DrawerSymmetry ==
  Permutations(Shifts) \cup Permutations(Moves) \cup Permutations(Handlers)
=============================================================================
