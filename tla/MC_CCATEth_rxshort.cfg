CONSTANTS
  Backend = "dma"
  RxEnd <- MC_RxEnd
  TxEnd <- MC_TxEnd
  RxLengths <- MC_ShortRxLengths
  TxLengths <- MC_TxLengths
  MaxRxFrames = 2
  MaxTxFrames = 1
  MaxLinkChanges = 1
SPECIFICATION Spec
PROPERTIES
  RxSlotsReturn
