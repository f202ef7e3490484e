SPECIFICATION Spec
CONSTANTS
  Releases <- MCReleases
  RootOf <- MCRootOf
  MaxAttempts = 2
  StableThreshold = 2
  Factory = 1
  InitialLkg = {0, 1}
  Garbage = 9
  Good = {1, 2}
  HardwareFloor = TRUE
  MaxStages = 2
  MaxFaults = 2
  MaxReruns = 1
  MaxPicks = 1
  MaxRollbacks = 1
  MaxDeploys = 1
INVARIANTS
  TypeOK
  CoherentWal
  ProvenFallback
  FloorBehindWal
  TrialBudget
