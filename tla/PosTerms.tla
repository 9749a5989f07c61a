------------------------------ MODULE PosTerms ------------------------------
(***************************************************************************)
(* What the three views of pos.service.ts have in common: PosCounter (goods *)
(* and store credit), CashDrawer (shifts and cash) and PosOffline (sales    *)
(* over a network that fails). Each has its own state, under names the      *)
(* others do not use, so that one module can reason about all of them.      *)
(***************************************************************************)
CONSTANTS
  Sales,     \* PosOffline: carts; elsewhere the invoices that may come to exist
  Handlers,  \* requests the API can be serving at once
  None
=============================================================================
