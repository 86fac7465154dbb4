----------------------------- MODULE CCATFrame ------------------------------
(***************************************************************************)
(* The frame slot layout shared by both backends of src/netdev.c, the     *)
(* cursor arithmetic of ccat_eth_fifo_inc on it, the ring end each init   *)
(* function computes, and the tx fifo descriptor of fifo_dma_queue_skb.   *)
(* Offsets are in bytes from fifo->mem.virt; a slot is named by its       *)
(* index k, at offset k * FrameSize.                                      *)
(***************************************************************************)
EXTENDS Integers

(***************************************************************************)
(* Frame geometry: struct ccat_eth_frame, frame_header_dma.               *)
(***************************************************************************)
FrameSize == 2048              \* sizeof(struct ccat_eth_frame)
MaxPayloadSize == 2048 - 24    \* MAX_PAYLOAD_SIZE, header_dma is 24 bytes
RxOverhead == 4                \* offsetof(struct frame_header_dma, rx_flags)
RxOverheadNodma == 16          \* sizeof(struct frame_header_nodma)
RawLen == 30                   \* sizeof(frameForwardEthernetFrames)

(* Mutant: the wrap test made on the old cursor instead of the new one.  *)
fifo_inc_test_before(k, end) == IF k * FrameSize > end THEN 0 ELSE k + 1

(* ccat_eth_fifo_inc: advance the cursor by one frame, wrap past end.     *)
ccat_eth_fifo_inc(k, end) == IF (k + 1) * FrameSize > end THEN 0 ELSE k + 1

(* The slots the cursor visits from virt: 0 .. LastSlot(end).             *)
LastSlot(end) == IF end < 0 THEN 0 ELSE end \div FrameSize
(* ccat_eth_priv_init_dma: end = dma.virt + FIFO_LENGTH - 1, where virt  *)
(* is a void pointer, so the offset is in bytes, not in frames.           *)
FIFO_LENGTH == 64
DmaEnd == FIFO_LENGTH - 1

(* ccat_eth_priv_init_nodma: rx end = dma.virt (the union's virt), tx end *)
(* = virt + size - sizeof(struct ccat_eth_frame), size from the info block.*)
NodmaRxEnd == 0
NodmaTxEnd(size) == size - FrameSize

(* fifo_dma_queue_skb: the word-count field of the u32 written to the tx *)
(* fifo register.  The count shifted left by 24 keeps only its low 8 bits *)
(* in a u32.  (The address field, offsetof(length) plus the slot offset,  *)
(* stays below 2^24 for any ring and is left out.)                        *)
TxDescriptorWords(len) == ((len + 24) \div 8) % 2^8
====
