SPECIFICATION Spec
CONSTANTS
  Claims = {c1}
  ApprovalRequests = {a1, a2, a3}
  Amounts = {1, 2}
  Handlers = {h1, h2}
  None = None
  MaxOpen = 1
  MaxUnpaid = 1
  MaxStops = 1
SYMMETRY ClaimSymmetry
CHECK_DEADLOCK FALSE
INVARIANTS UsedOnce BooksFollowClaims 
