SPECIFICATION Spec
CONSTANTS
  Messages = {call, keep}
  Empty = Empty
  Absent = Absent
  Inherited <- Nothing
  DiskMayFail = FALSE
  MaxOrders = 1
  MaxDeaths = 2
INVARIANTS
  OneMessageOnly
