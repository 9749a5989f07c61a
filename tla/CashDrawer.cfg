SPECIFICATION DrawerSpec
CONSTANTS
  Shifts = {k1, k2}
  Sales = {s1}
  Moves = {m1, m2}
  Drafts = {d1}
  Handlers = {h1, h2}
  None = None
  MaxFailures = 1
  MaxMade = 2
SYMMETRY DrawerSymmetry
CHECK_DEADLOCK FALSE
INVARIANTS ZFindsTheCash 
