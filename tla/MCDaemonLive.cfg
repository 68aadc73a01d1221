\* Whoever waits is served and start() ends, with the process dying twice.
SPECIFICATION FairSpec
CONSTANTS
  NoOne = NoOne
  Blank = Blank
  Senders = {ana}
  Sms = {m1}
  Texts <- TextsAsk
  Orders <- OrdersAsk
  Configs <- ConfigsSwitch
  SessionCalls = {}
  SoundAvailable = TRUE
  DiskWritable = TRUE
  MaxTries = 1
  MaxDue = 0
  MaxCrashes = 2
PROPERTIES
  WaitingEnds
  StartupCompletes
