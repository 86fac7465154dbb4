CONSTANTS
  Backend = "iomem"
  RxEnd <- MC_IomemRxEnd
  TxEnd <- MC_IomemTxEnd
  RxLengths <- MC_IomemRxLengths
  TxLengths <- MC_TxLengths
  MaxRxFrames = 2
  MaxTxFrames = 3
  MaxLinkChanges = 3
SPECIFICATION Spec
INVARIANTS
  TypeOK
  RxOwnership
  RxInOrder
  TxFifoLevelBounded
PROPERTIES
  RxRefinesChannel
  QueueWakes
  RxSlotsReturn
  RxTakesCompleted
  RxLostOnlyAtReset
