-------------------------- MODULE MCInvoiceLedger ---------------------------
(***************************************************************************)
(* Small instances of the invoice and its ledger.                          *)
(***************************************************************************)
EXTENDS InvoiceLedger, TLC

PaymentSymmetry == Permutations(Payments)
=============================================================================
