SPECIFICATION Spec
CONSTANTS
  Invoices = {i1, i2}
  Payments = {p1, p2, p3}
  Amounts = {1, 2}
  Links = {FALSE, TRUE}
  OnlineAmounts = {1, 2}
SYMMETRY PaymentSymmetry
CHECK_DEADLOCK FALSE
INVARIANTS BooksFollowReferences SettlementBounds ReversalRestoresMoney 
PROPERTIES PostedIsFrozen PaidOnlyDropsByReversal
