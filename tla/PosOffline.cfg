SPECIFICATION OfflineSpec
CONSTANTS
  Sales = {s1}
  Flushers = {page, shell}
  Handlers = {h1, h2}
  None = None
  MaxAttempts = 2
  MaxReloads = 1
  MaxCharges = 1
CHECK_DEADLOCK FALSE
INVARIANTS NeverLost SoldOnce
 
