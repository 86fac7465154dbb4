CONSTANTS
  TxSizes <- MC_TxSizes
  RxSizes <- MC_RxSizes
  TxLens <- MC_TxLens
SPECIFICATION Spec
CHECK_DEADLOCK FALSE
INVARIANTS TypeOK ResetArmsEachSlotOnce
