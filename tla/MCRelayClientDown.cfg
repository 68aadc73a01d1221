SPECIFICATION Spec
CONSTANTS
  Tokens = {t1}
  NoToken = NoToken
  Configs <- ConfigsMaster
  Base = 10
  Most = 900
  Off = Off
  MayBreak = TRUE
  MaxFixes = 0
  MaxFailures = 2
INVARIANTS
  DownMeansBackOff
