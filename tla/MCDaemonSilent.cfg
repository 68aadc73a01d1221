\* Nothing can be played.
SPECIFICATION Spec
CONSTANTS
  NoOne = NoOne
  Blank = Blank
  Senders = {ana}
  Sms = {m1}
  Texts <- NoTexts
  Orders <- OrdersAlarm
  Configs <- ConfigsRingOnly
  SessionCalls = {}
  SoundAvailable = FALSE
  DiskWritable = TRUE
  MaxTries = 1
  MaxDue = 1
  MaxCrashes = 0
PROPERTIES
  DoneMeansRinging
CHECK_DEADLOCK FALSE
