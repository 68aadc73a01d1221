SPECIFICATION FairSpec
CONSTANTS
  Messages = {call, keep}
  Empty = Empty
  Absent = Absent
  Inherited <- FromBefore
  DiskMayFail = TRUE
  MaxOrders = 4
  MaxDeaths = 3
INVARIANTS
  WrittenBeforeLocking
  MessageIsShown
PROPERTIES
  StateOfThePhone
  LostIsReasserted
