SPECIFICATION Spec
CONSTANTS
  w1 = w1
  w2 = w2
  n1 = n1
  c1 = c1
  s1 = s1
  Warehouses = {w1, w2}
  Notes = {n1}
  Counts = {c1}
  Sales = {}
  Handlers = {h1}
  Wh <- TwoWarehouses
  Qty <- MCQty
  Opening <- MCOpening
  Amounts = {1}
  Overrides = {FALSE}
  None = None
  MaxAdjusts = 1
  MaxTransfers = 1
CHECK_DEADLOCK FALSE
INVARIANTS NoteMovesStock UndoneOnce CompletedIsReversed
