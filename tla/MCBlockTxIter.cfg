SPECIFICATION Spec
CONSTANTS
  Base = 8
  UsizeMax = 4095
  HashLen = 1
  MaxIoCount = 2
  MaxScriptSize = 5
  MaxWitnessItems = 2
  MaxWitnessItemSize = 2
  MaxBlockTxn = 2
  Header <- MCHeader
  Blocks <- MCBlocks
  Inputs <- MCInputs
INVARIANTS
  TypeOK
  ParserSeesTheRest
  ConsumedOnce
  RetryReplays
  StrictMeansWholeBlock
  FinishIsExact
  BlockRoundTrip
PROPERTIES
  ImplementsStream
