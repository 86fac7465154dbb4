CONSTANTS
  Backend = "dma"
  RxEnd <- MC_RxEnd
  TxEnd <- MC_TxEnd
  RxLengths <- MC_RxLengths
  TxLengths <- MC_TxLengths
  MaxRxFrames = 2
  MaxTxFrames = 3
  MaxLinkChanges = 1
SPECIFICATION Spec
INVARIANTS
  StackNeverBusy
