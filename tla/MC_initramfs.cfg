SPECIFICATION Spec
CHECK_DEADLOCK FALSE
CONSTANTS
  Vol <- MCVol
  SizeOf <- MCSizeOf
  Modes = {"installed", "live", "portable"}
  Interval = 2
  MaxFaults = 1
INVARIANTS
  TypeOK
  Sealed
  FindsRoot
  SignedSlot
  OwnData
  EspOfRoot
PROPERTIES
  RightFirst
