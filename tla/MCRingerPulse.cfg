SPECIFICATION Spec
CONSTANTS
  Outputs = {speaker, headphones}
  Speaker = speaker
  Default = headphones
  Volumes = {low, loud}
  RingVolume = loud
  None = None
  Durations <- OneLength
  MinDuration = 1
  MaxFailures = 3
  MaySoundless = FALSE
  MayFail = TRUE
  DiskMayFail = FALSE
  MaxOrders = 1
  MaxDeaths = 1
INVARIANTS
  StopNeverLeavesItLoud
