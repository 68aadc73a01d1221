\* What orders do to the phone: the alarm, and lost mode through crashes,
\* reboots and power-offs.
SPECIFICATION Spec
CONSTANTS
  NoOne = NoOne
  Blank = Blank
  Senders = {ana}
  Sms = {m1}
  Texts <- TextsAct
  Orders <- OrdersAct
  Configs <- ConfigsOwner
  SessionCalls = {"StopRing", "TestRing", "LeaveLostMode"}
  SoundAvailable = TRUE
  DiskWritable = TRUE
  MaxTries = 1
  MaxDue = 1
  MaxCrashes = 1
INVARIANTS
  LostIsOnDisk
  LostIsLocked
  CadenceFollowsLost
PROPERTIES
  LostEndsByPanelOrPin
  ActsByRight
  OffMeansInert
