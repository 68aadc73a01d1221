\* Answering by SMS is switched off.
SPECIFICATION Spec
CONSTANTS
  NoOne = NoOne
  Blank = Blank
  Senders = {ana}
  Sms = {m1}
  Texts <- TextsAsk
  Orders <- OrdersNone
  Configs <- ConfigsMute
  SessionCalls = {}
  SoundAvailable = TRUE
  DiskWritable = TRUE
  MaxTries = 1
  MaxDue = 1
  MaxCrashes = 0
INVARIANTS
  NoReplyMeansNoSms
CHECK_DEADLOCK FALSE
