SPECIFICATION Spec
CONSTANTS
  w1 = w1
  w2 = w2
  n1 = n1
  c1 = c1
  s1 = s1
  Warehouses = {w1}
  Notes = {n1}
  Counts = {}
  Sales = {s1}
  Handlers = {h1, h2}
  Wh <- OneWarehouse
  Qty <- MCQty
  Opening <- MCOpening
  Amounts = {1}
  Overrides = {FALSE}
  None = None
  MaxAdjusts = 1
  MaxTransfers = 0
CHECK_DEADLOCK FALSE
SYMMETRY HandlerSymmetry
INVARIANTS NeverOversold 
PROPERTIES OnlyAbsoluteWritesDrift
