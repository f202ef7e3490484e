SPECIFICATION Spec
CONSTANTS
  Releases = {1, 2, 3}
  RootOf <- MCRootOf
  MaxAttempts = 2
  StableThreshold = 2
  Factory = 1
  Healthy = {1, 2}
  Starting = {1, 2}
  Overlap = FALSE
  MaxStagings = 2
  MaxFaults = 0
  MaxReruns = 1
INVARIANTS
  FailedWasTried
