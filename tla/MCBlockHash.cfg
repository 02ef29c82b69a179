SPECIFICATION Spec
CONSTANTS
  Base = 8
  UsizeMax = 4095
  HashLen = 2
  MaxIoCount = 2
  MaxScriptSize = 5
  MaxWitnessItems = 2
  MaxWitnessItemSize = 2
  MaxBlockTxn = 2
  Sha256 <- MCSha256
  Inputs <- MCInputs
INVARIANT
  BlockHashIsInDisplayOrder
