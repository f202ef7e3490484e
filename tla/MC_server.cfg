SPECIFICATION Spec
SYMMETRY Symmetry
CONSTANTS
  Releases = {2, 3}
  Factory = 1
  None = 0
  Checkers = {"c1"}
  Downloads = {d1, d2}
  d1 = d1
  d2 = d2
  Attempts = 0
INVARIANTS
  ReadyIsStaged
PROPERTIES
  StagedWasConsented
  QuietReboot
  ReadyKept
