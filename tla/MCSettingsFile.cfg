SPECIFICATION Spec
CONSTANTS
  Screens = {app}
  Relays = {home, known}
  Signed = {known}
  NoRelay = NoRelay
  Nothing = Nothing
  MaxPairs = 2
  MaxSaves = 2
  MaxFixes = 1
  MaxDeaths = 1
INVARIANTS
  NothingOfTheDaemonIsUndone
  ChangesAreNoticed
  LonePairingIsWhole
CHECK_DEADLOCK FALSE
