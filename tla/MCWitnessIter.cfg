SPECIFICATION Spec
CONSTANTS
  Base = 8
  UsizeMax = 4095
  MaxWitnessItems = 3
  MaxWitnessItemSize = 5
  HandCounts <- MCHandCounts
  Inputs <- MCInputs
INVARIANTS
  TypeOK
  ParsedItemsComeBack
  ItemsAreOrdered
