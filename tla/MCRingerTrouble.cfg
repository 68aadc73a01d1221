SPECIFICATION FairSpec
CONSTANTS
  Outputs = {speaker, headphones}
  Speaker = speaker
  Default = headphones
  Volumes = {loud}
  RingVolume = loud
  None = None
  Durations <- OneLength
  MinDuration = 1
  MaxFailures = 3
  MaySoundless = TRUE
  MayFail = TRUE
  DiskMayFail = TRUE
  MaxOrders = 2
  MaxDeaths = 1
INVARIANTS
  NoStaleNote
PROPERTIES
  AlarmEnds
