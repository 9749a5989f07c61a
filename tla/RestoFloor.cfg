SPECIFICATION Spec
CONSTANTS
  Tables = {t1, t2}
  Orders = {o1, o2}
  Bookings = {b1, b2}
  Externals = {x1}
  Handlers = {h1, h2}
  None = None
SYMMETRY FloorSymmetry
CHECK_DEADLOCK FALSE
INVARIANTS TableFollowsChecks NeverDoubleBooked IngestedOnce
