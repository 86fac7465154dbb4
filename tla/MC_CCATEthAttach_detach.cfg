CONSTANTS
  Chans <- MC_Chans
  RxChan = 1
  TxChan = 2
SPECIFICATION Spec
CHECK_DEADLOCK FALSE
INVARIANTS TypeOK ReleasedWhenDetached
