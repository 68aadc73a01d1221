\* A phone that is only ever rung, and silenced.
SPECIFICATION Spec
CONSTANTS
  NoOne = NoOne
  Blank = Blank
  Senders = {ana}
  Sms = {m1}
  Texts <- NoTexts
  Orders <- OrdersAlarm
  Configs <- ConfigsRingOnly
  SessionCalls = {}
  SoundAvailable = TRUE
  DiskWritable = TRUE
  MaxTries = 1
  MaxDue = 1
  MaxCrashes = 0
INVARIANTS
  QuietPhoneGaveItsRadiosBack
CHECK_DEADLOCK FALSE
