SPECIFICATION FairSpec
CONSTANTS
  Outputs = {speaker, headphones}
  Speaker = speaker
  Default = headphones
  Volumes = {low, loud}
  RingVolume = loud
  None = None
  Durations <- Brief
  MinDuration = 1
  MaxFailures = 2
  MaySoundless = TRUE
  MayFail = FALSE
  DiskMayFail = TRUE
  MaxOrders = 2
  MaxDeaths = 2
INVARIANTS
  LoanIsOnDisk
  QuietMeansRestored
PROPERTIES
  KeepsTheLoan
  VolumeComesBack
