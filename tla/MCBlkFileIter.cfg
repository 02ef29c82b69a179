SPECIFICATION Spec
CONSTANTS
  Base = 8
  UsizeMax = 4095
  Magic <- MCMagic
  MaxBlockBytes = 12
  Inputs <- MCInputs
  Files <- MCFiles
INVARIANTS
  TypeOK
  BlocksAreEntries
  NothingSkipped
  FileRoundTrip
PROPERTIES
  ErrorsStepInside
