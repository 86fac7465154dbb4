--------------------------- MODULE MC_CCATEth ---------------------------
(* The DMA driver as built: ccat_eth_priv_init_dma sets                   *)
(* end = dma.virt + FIFO_LENGTH - 1 on a void pointer, FIFO_LENGTH = 64.  *)
EXTENDS CCATEthRefinement

MC_FifoLength == 64
MC_RxEnd == MC_FifoLength - 1
MC_TxEnd == MC_FifoLength - 1
MC_RxLengths == {64}
MC_TxLengths == {60, 2025}

(* The iomem driver as built by ccat_eth_priv_init_nodma: rx end = virt,  *)
(* tx end = virt + info.tx_size - 2048, here for a window of 3 slots.     *)
MC_IomemRxEnd == NodmaRxEnd
MC_IomemTxEnd == NodmaTxEnd(3 * FrameSize)
(* hdr.length of an iomem frame counts the 16-byte header.                *)
MC_IomemRxLengths == {80}

(* A completion whose hdr.length is shorter than the DMA rx overhead (a   *)
(* runt or a malformed descriptor) next to a well-formed one.             *)
MC_ShortRxLengths == {64, 2}
=============================================================================
