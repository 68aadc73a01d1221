SPECIFICATION FairSpec
CONSTANTS
  Tokens = {t1, t2}
  NoToken = NoToken
  Configs <- ConfigsChannel
  Base = 10
  Most = 900
  Off = Off
  MayBreak = TRUE
  MaxFixes = 2
  MaxFailures = 10
INVARIANTS
  OnePollAtATime
  NeverDeaf
  GivesUpForGood
PROPERTIES
  PendingGoesOut
