SPECIFICATION Spec
CONSTANTS
  Outputs = {speaker, headphones}
  Speaker = speaker
  Default = headphones
  Volumes = {low, loud}
  RingVolume = loud
  None = None
  Durations <- OneLength
  MinDuration = 1
  MaxFailures = 3
  MaySoundless = TRUE
  MayFail = FALSE
  DiskMayFail = FALSE
  MaxOrders = 1
  MaxDeaths = 0
INVARIANTS
  RingingIsPlayed
