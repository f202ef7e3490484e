SPECIFICATION Spec
CONSTANTS
  Releases <- MCReleases
  RootOf <- MCOwnRoots
  MaxAttempts = 3
  StableThreshold = 3
  Factory = 1
  InitialLkg = {1}
  Garbage = 9
  Good = {1, 2}
  HardwareFloor = TRUE
  MaxStages = 1
  MaxFaults = 4
  MaxReruns = 2
  MaxPicks = 0
  MaxRollbacks = 0
  MaxDeploys = 0
INVARIANTS
  FloorAdmitsActive
  BootsCurrent
  NeverBricked
