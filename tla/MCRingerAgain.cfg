SPECIFICATION Spec
CONSTANTS
  Outputs = {speaker, headphones}
  Speaker = speaker
  Default = headphones
  Volumes = {low, loud}
  RingVolume = loud
  None = None
  Durations <- LongAndShort
  MinDuration = 1
  MaxFailures = 3
  MaySoundless = FALSE
  MayFail = FALSE
  DiskMayFail = FALSE
  MaxOrders = 2
  MaxDeaths = 0
PROPERTIES
  RingingAgainExtends
