\* Rides, restarts, refreshes, alarms, a phone carried elsewhere and an owner who
\* switches a radio; every search ends.
SPECIFICATION FairSpec
CONSTANTS
  Places = {home, street}
  BeginsAt = {home}
  Nowhere = Nowhere
  Unset = Unset
  Configs <- Mixed
  Patience = 2
  Tuning = 1
  AtFirst <- AllOff
  KnownAtFirst = {Nowhere}
  ByHand = {"wifi"}
  RadiosFail = FALSE
  Nobody = Nobody
  MaxMoves = 1
  MaxSwitches = 1
  MaxDeaths = 1
INVARIANTS
  CurrentMeansMeasured
  TunedBeforeAnswering
  RadiosAreGivenBack
PROPERTIES
  KeepsWhoWaits
  SearchEnds
