SPECIFICATION Spec
CONSTANTS
  Screens = {app}
  Relays = {home, known}
  Signed = {known}
  NoRelay = NoRelay
  Nothing = Nothing
  MaxPairs = 2
  MaxSaves = 2
  MaxFixes = 0
  MaxDeaths = 0
INVARIANTS
  PairingIsWhole
CHECK_DEADLOCK FALSE
