SPECIFICATION Spec
CONSTANTS
  Orders = {o1, o2}
  Items = {i1, i2}
  Bills = {b1, b2}
  Handlers = {till, staff}
  Tills = {till}
  None = None
SYMMETRY RowSymmetry
CHECK_DEADLOCK FALSE
 
PROPERTIES ClosedStaysClosed
