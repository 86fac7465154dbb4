--------------------------- MODULE CCATFrameLayout ---------------------------
(***************************************************************************)
(* The ring geometry each init function of src/netdev.c builds, walked    *)
(* the way ccat_eth_fifo_reset walks it, and the tx fifo descriptor that  *)
(* fifo_dma_queue_skb writes for a frame in the current slot.  A state is *)
(* one ring, one frame length, and the progress of the reset loop         *)
(*     fifo->mem.next = fifo->mem.virt;                                   *)
(*     do { fifo->add(fifo); ccat_eth_fifo_inc(fifo); }                   *)
(*     while (fifo->mem.next != fifo->mem.virt);                          *)
(***************************************************************************)
EXTENDS CCATFrame, FiniteSets

CONSTANTS
  TxSizes,  \* info.tx_size values the iomem function block may report
  RxSizes,  \* info.rx_size values the iomem function block may report
  TxLens    \* skb->len values of frames reaching queue_skb

ASSUME LayoutAssumption ==
  /\ TxSizes \subseteq Nat /\ RxSizes \subseteq Nat
  /\ TxLens \subseteq 0 .. MaxPayloadSize

(* The rings the driver builds: both DMA rings (ccat_eth_priv_init_dma)   *)
(* and the iomem rx and tx rings (ccat_eth_priv_init_nodma).  "window" is *)
(* the memory the ring lives in, as the spec describes it.                *)
Rings ==
  {[backend |-> "dma", end |-> DmaEnd, window |-> FIFO_LENGTH * FrameSize]}
  \cup {[backend |-> "iomem_rx", end |-> NodmaRxEnd, window |-> s] : s \in RxSizes}
  \cup {[backend |-> "iomem_tx", end |-> NodmaTxEnd(s), window |-> s] : s \in TxSizes}

VARIABLES
  ring,     \* the ring being reset
  next,     \* fifo->mem.next, as a slot index
  steps,    \* iterations of the do-while loop so far
  added,    \* the slots fifo->add has been called on
  len       \* the length of a frame later queued into slot next

vars == <<ring, next, steps, added, len>>

Init ==
  /\ ring \in Rings
  /\ next = 0
  /\ steps = 0
  /\ added = {}
  /\ len \in TxLens

(* One iteration of the loop body; the test of the while clause is the    *)
(* guard of the next iteration.                                           *)
ResetIteration ==
  /\ steps = 0 \/ next # 0
  /\ added' = added \cup {next}
  /\ next' = ccat_eth_fifo_inc(next, ring.end)
  /\ steps' = steps + 1
  /\ UNCHANGED <<ring, len>>

Next == ResetIteration

Spec == Init /\ [][Next]_vars /\ WF_vars(Next)

LoopReturned == steps > 0 /\ next = 0

-----------------------------------------------------------------------------
(* Type invariant.                                                        *)
TypeOK ==
  /\ ring \in Rings
  /\ next \in 0 .. LastSlot(ring.end)
  /\ steps \in Nat
  /\ added \subseteq 0 .. LastSlot(ring.end)
  /\ len \in TxLens

(* ccat_eth_fifo_reset: when the do-while loop exits, fifo->add has been  *)
(* called exactly once on every slot of the ring from virt up to end,     *)
(* so every rx slot is armed and every tx slot marked free.               *)
ResetArmsEachSlotOnce ==
  LoopReturned =>
    /\ added = 0 .. LastSlot(ring.end)
    /\ steps = Cardinality(added)

(* The ring has the length the spec gives it: 64 slots in DMA mode, the   *)
(* reported window divided by the 2048-byte slot size in iomem mode.      *)
(* ccat_eth_priv_init_dma/_nodma compute end in bytes from virt.          *)
RingLengthAsSpecified ==
  LoopReturned =>
    steps = IF ring.backend = "dma" THEN FIFO_LENGTH
                                    ELSE ring.window \div FrameSize

(* fifo_dma_queue_skb: the descriptor written to the tx fifo register     *)
(* carries in bits 24..31 the number of 8-byte words of header and        *)
(* payload the CCAT is to send, for every length start_xmit accepts.      *)
DescriptorFields ==
  ring.backend = "dma" => TxDescriptorWords(len) = (len + 24) \div 8
=============================================================================
