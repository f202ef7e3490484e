SPECIFICATION FairSpec
CONSTANTS
  Releases = {2}
  Factory = 1
  None = 0
  Checkers = {"c1"}
  Downloads = {"d1"}
  Attempts = 2
INVARIANTS
  TypeOK
PROPERTIES
  DownloadSettles
  LockReturns
