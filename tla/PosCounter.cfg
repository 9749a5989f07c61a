SPECIFICATION Spec
CONSTANTS
  Sales = {s1, s2}
  Handlers = {h1, h2}
  None = None
  Qty = 2
  Opening = 2
  Purse = 2
  Limit = 2
  MaxReturns = 2
  MaxTopUps = 1
  MaxStops = 1
SYMMETRY CounterSymmetry
CHECK_DEADLOCK FALSE
INVARIANTS WalletNotOverdrawn 
PROPERTIES OnlyTopUpLosesCredit
