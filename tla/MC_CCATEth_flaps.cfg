CONSTANTS
  Backend = "dma"
  RxEnd <- MC_RxEnd
  TxEnd <- MC_TxEnd
  RxLengths <- MC_RxLengths
  TxLengths <- MC_TxLengths
  MaxRxFrames = 2
  MaxTxFrames = 3
  MaxLinkChanges = 3
SPECIFICATION Spec
INVARIANTS
  TypeOK
  RxOwnership
  RxInOrder
PROPERTIES
  RxRefinesChannel
  QueueWakes
  RxSlotsReturn
  RxLostOnlyAtReset
