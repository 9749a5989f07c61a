SPECIFICATION Spec
CONSTANTS
  Rows = {r1}
  InvoicesJob = InvoicesJob
  CommitmentsJob = CommitmentsJob
  Users = {u1}
  FirstDays = {1, 31}
  DayOfMonth = 28
  None = None
  LastMonth = 3
  MaxEdits = 4
  MaxStops = 1
CHECK_DEADLOCK FALSE
INVARIANTS  NothingTwice 
PROPERTIES DueIsDone
