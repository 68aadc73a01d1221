SPECIFICATION Spec
CONSTANTS
  Screens = {app}
  Relays = {home, known}
  Signed = {known}
  NoRelay = NoRelay
  Nothing = Nothing
  MaxPairs = 1
  MaxSaves = 2
  MaxFixes = 0
  MaxDeaths = 0
PROPERTIES
  ApplyChangesOnlyWhatWasEdited
CHECK_DEADLOCK FALSE
