\* A phone whose master switch is off is asked its state by SMS.
SPECIFICATION Spec
CONSTANTS
  NoOne = NoOne
  Blank = Blank
  Senders = {ana}
  Sms = {m1}
  Texts <- TextsState
  Orders <- OrdersNone
  Configs <- ConfigsOff
  SessionCalls = {}
  SoundAvailable = TRUE
  DiskWritable = TRUE
  MaxTries = 1
  MaxDue = 1
  MaxCrashes = 0
PROPERTIES
  OffMeansSilent
CHECK_DEADLOCK FALSE
