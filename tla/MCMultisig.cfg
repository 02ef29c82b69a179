SPECIFICATION Spec
CONSTANTS
  Base = 16
  UsizeMax = 65535
  Hash20 = 2
  Hash32 = 3
  ShortKey = 4
  LongKey = 5
  OpPushData1 = 6
  OpPushData2 = 7
  OpPushData4 = 8
  Op1 = 9
  OpReturn = 10
  OpDup = 11
  OpEqual = 12
  OpEqualVerify = 13
  OpHash160 = 14
  OpCheckSig = 15
  Inputs <- MCInputs
INVARIANTS
  BareMultisigIsRecognised
