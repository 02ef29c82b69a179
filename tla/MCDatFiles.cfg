SPECIFICATION MainSpec
CONSTANTS
  Base = 12
  UsizeMax = 65535
  HashLen = 1
  MaxIoCount = 2
  MaxScriptSize = 6
  MaxWitnessItems = 2
  MaxWitnessItemSize = 2
  MaxBlockTxn = 2
  MaxBlockBytes = 200
  Hash20 = 1
  Hash32 = 2
  ShortKey = 3
  LongKey = 4
  Op1 = 5
  OpReturn = 6
  OpDup = 7
  OpEqual = 8
  OpEqualVerify = 9
  OpHash160 = 10
  OpCheckSig = 11
  Magics <- MCMagics
  Synthetic <- MCSynthetic
  Parsed <- MCParsed
  Inputs <- MCInputs
INVARIANTS
  DatFilesAreUnwrapped
