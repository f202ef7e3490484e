SPECIFICATION Spec
CONSTANTS
  DirSync = TRUE
  MaxSaves = 4
INVARIANTS
  AlwaysReadable
  SavedSurvives
PROPERTIES
  NeverBack
  ImplementsRegister
