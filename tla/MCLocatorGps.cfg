\* Location sources that the owner had on, and no death and no hand of his.
SPECIFICATION Spec
CONSTANTS
  Places = {home, street}
  BeginsAt = {home}
  Nowhere = Nowhere
  Unset = Unset
  Configs <- Mixed
  Patience = 2
  Tuning = 1
  AtFirst <- Usual
  KnownAtFirst = {Nowhere}
  ByHand = {"wifi"}
  RadiosFail = FALSE
  Nobody = Nobody
  MaxMoves = 1
  MaxSwitches = 0
  MaxDeaths = 0
INVARIANTS
  GpsIsGivenBack
