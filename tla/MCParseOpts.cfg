SPECIFICATION Spec
CONSTANTS
  Numerals <- MCNumerals
  UnknownFlags <- MCUnknownFlags
  Lines <- MCLines
INVARIANTS
  ReadsTheLine
