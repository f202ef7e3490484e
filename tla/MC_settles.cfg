SPECIFICATION FairSpec
CONSTANTS
  Releases <- MCReleases
  RootOf <- MCRootOf
  MaxAttempts = 2
  StableThreshold = 2
  Factory = 1
  InitialLkg = {1}
  Garbage = 9
  Good = {1, 2}
  HardwareFloor = TRUE
  MaxStages = 1
  MaxFaults = 1
  MaxReruns = 1
  MaxPicks = 1
  MaxRollbacks = 1
  MaxDeploys = 0
PROPERTIES
  Settles
