SPECIFICATION FairSpec
CONSTANTS
  Bundles = {1, 2}
  Versions = {1, 2, 3}
  Manifests <- MCManifests
  Installed = 1
  StableThreshold = 2
  MaxStages = 2
  MaxFaults = 1
INVARIANTS
  TypeOK
  ProvenFloor
  FloorKept
  GoodKept
PROPERTIES
  Resolved
