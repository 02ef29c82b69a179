SPECIFICATION Spec
CONSTANTS
  c1 = c1
  c2 = c2
  c3 = c3
  Ids = {c1, c2, c3}
  Base = 8
  UsizeMax = 4095
  Inputs <- MCInputs
  Lengths <- MCLengths
  Caps <- MCCaps
SYMMETRY Symmetry
CONSTRAINT Bound
INVARIANTS
  TypeOK
  OneOwner
  EofIsExact
PROPERTIES
  FailureKeepsPayload
  OnlyAdvance
