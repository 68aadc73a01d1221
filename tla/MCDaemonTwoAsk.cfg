\* Two channels ask at once.
SPECIFICATION Spec
CONSTANTS
  NoOne = NoOne
  Blank = Blank
  Senders = {ana}
  Sms = {m1}
  Texts <- TextsAsk
  Orders <- OrdersAsk
  Configs <- ConfigsSwitch
  SessionCalls = {}
  SoundAvailable = TRUE
  DiskWritable = TRUE
  MaxTries = 1
  MaxDue = 1
  MaxCrashes = 0
PROPERTIES
  AskersAreAnswered
