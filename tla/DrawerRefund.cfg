SPECIFICATION DrawerSpec
CONSTANTS
  Shifts = {k1}
  Sales = {s1}
  Moves = {}
  Drafts = {}
  Handlers = {h1}
  None = None
  MaxMade = 1
  MaxFailures = 0
CHECK_DEADLOCK FALSE
INVARIANTS ZFindsTheRefunds
