------------------------- MODULE CCATEthRefinement -------------------------
(***************************************************************************)
(* The rings of the driver model seen as FrameChannels.                   *)
(*                                                                         *)
(* RX: the frames in the channel are those in slots with                  *)
(* CCAT_FRAME_RECEIVED, read from rx_fifo.next onwards around the ring,   *)
(* which is the order poll_rx visits them in; a frame leaves the channel  *)
(* when poll_rx hands it to netif_rx or counts it in rx_dropped.          *)
(*                                                                         *)
(* TX: the frames in the channel are the payloads of the slots queued in  *)
(* the CCAT tx fifo, in the order the CCAT will send them; the link-up    *)
(* reset of the tx fifo flushes them.                                     *)
(***************************************************************************)
EXTENDS CCATEth

RxRingSize == LastSlot(RxEnd) + 1

(* The slot k frames past virt, for 0 <= k < 2 * RxRingSize: the ring     *)
(* wraps at most once.                                                    *)
RxRingPos(k) == IF k < RxRingSize THEN k ELSE k - RxRingSize

(* The slot poll_rx visits i - 1 calls of ccat_eth_fifo_inc after next.   *)
RxSlotAfter(i) == RxRingPos(rxNext + i - 1)

(* The received slots are those the CCAT does not hold (RxOwnership), so  *)
(* the channel holds RxRingSize - Len(hwRxQ) frames.                      *)
RxPending ==
  [i \in 1 .. RxRingSize - Len(hwRxQ) |-> rxData[RxSlotAfter(i)]]

TxQueued == [i \in 1 .. Len(hwTxQ) |-> txData[hwTxQ[i]]]

RxChannel == INSTANCE FrameChannel
               WITH arrived <- rxFrames, queue <- RxPending,
                    out <- rxDelivered, lost <- rxDropped

TxChannel == INSTANCE FrameChannel
               WITH arrived <- txId - 1, queue <- TxQueued,
                    out <- wire, lost <- 0

(* The rx ring implements a FIFO channel from the CCAT to netif_rx:      *)
(* poll_rx takes the received frames in arrival order, each once, and a   *)
(* dev_alloc_skb failure loses only the frame at hand.  The channel may   *)
(* flush at any step; RxLostOnlyAtReset says which step that is.          *)
RxRefinesChannel == RxChannel!Spec

(* Frames leave the rx ring without being handed to netif_rx or counted   *)
(* in rx_dropped only at the ccat_eth_fifo_reset of a link-up in          *)
(* poll_link: no other step of poll_rx, ccat_eth_receive, open/stop or    *)
(* the CCAT makes a received frame vanish silently.                       *)
RxLostOnlyAtReset ==
  [][(/\ RxPending' # RxPending
      /\ Len(RxPending') <= Len(RxPending)
      /\ rxDelivered' = rxDelivered /\ rxDropped' = rxDropped)
     => (pollPc = "timer" /\ pollPc' = "raw")]_vars

(* The tx ring implements a FIFO channel from ccat_eth_start_xmit to the  *)
(* wire: fifo->queue_skb appends the new frame behind those the CCAT has  *)
(* not sent yet, never overwriting one; the CCAT sends them in order.     *)
TxRefinesChannel == TxChannel!Spec

=============================================================================
