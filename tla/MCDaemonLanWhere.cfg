\* Only the home channel may locate; the relay may not.
SPECIFICATION Spec
CONSTANTS
  NoOne = NoOne
  Blank = Blank
  Senders = {ana}
  Sms = {m1}
  Texts <- NoTexts
  Orders <- OrdersLanWhere
  Configs <- ConfigsLanLocates
  SessionCalls = {}
  SoundAvailable = TRUE
  DiskWritable = TRUE
  MaxTries = 1
  MaxDue = 1
  MaxCrashes = 0
INVARIANTS
  RelayGetsOnlyWhatItAsked
CHECK_DEADLOCK FALSE
