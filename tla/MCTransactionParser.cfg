SPECIFICATION Spec
CONSTANTS
  Base = 8
  UsizeMax = 4095
  HashLen = 1
  MaxIoCount = 2
  MaxScriptSize = 5
  MaxWitnessItems = 2
  MaxWitnessItemSize = 2
  Inputs <- MCInputs
  Txs <- MCTxs
INVARIANTS
  TypeOK
  DeliveriesInOrder
  OkMeansDelivered
  RefusalEndsTheCall
  RoundTrip
  CutShortIsEof
PROPERTIES
  CallsReturn
