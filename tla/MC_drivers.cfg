SPECIFICATION Spec
CONSTANTS
  Releases <- MCReleases
  RootOf <- MCRootOf
  KernelOf <- MCKernelOf
  Declared = {3, 4, 5}
  Names = 4
  Builds <- MCBuilds
  Offers <- MCOffers
  Targets = {"apps"}
  BaseVersion <- MCBaseVersion
  Factory = 1
  Provided <- MCProvided
  MaxAttempts = 2
  StableThreshold = 2
  MaxStages = 2
  MaxPicks = 1
  MaxFaults = 1
INVARIANTS
  TypeOK
  DriverFollowsKernel
PROPERTIES
  NewestOverlay
