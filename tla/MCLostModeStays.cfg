SPECIFICATION Spec
CONSTANTS
  Messages = {call, keep}
  Empty = Empty
  Absent = Absent
  Inherited <- Nothing
  DiskMayFail = FALSE
  MaxOrders = 2
  MaxDeaths = 1
INVARIANTS
  RecoveredSaysNothing
