----------------------------- MODULE CCATEth -----------------------------
(***************************************************************************)
(* The CCAT EtherCAT network driver (src/netdev.c) with either backend,   *)
(* DMA (eth_dma_driver) or iomem (eth_iomem_driver), selected by Backend: *)
(* the RX and TX frame rings, the 100us poll timer callback (link, rx, tx *)
(* polling), the submission path ccat_eth_start_xmit called by the        *)
(* network stack, the open/stop hooks, and the CCAT hardware that fills   *)
(* armed RX slots and drains published TX slots.                          *)
(*                                                                         *)
(* Two execution contexts run driver code concurrently: the hrtimer       *)
(* callback ("poll") and the stack's transmit path ("stack").  Both call  *)
(* the steps of ccat_eth_start_xmit: the poll context does so through     *)
(* ccat_eth_xmit_raw when the link comes up.                              *)
(*                                                                         *)
(* A slot is named by its index k: the pointer fifo->mem.next is          *)
(* virt + k * sizeof(struct ccat_eth_frame).  Payloads are abstracted to  *)
(* identifiers; lengths are kept because the drop and ready decisions     *)
(* depend on them.                                                        *)
(***************************************************************************)
EXTENDS CCATFrame, Sequences

CONSTANTS
  Backend,        \* "dma" or "iomem": the probe that built the fifos
  RxEnd,          \* byte offset of rx_fifo.end from rx_fifo.dma.virt
  TxEnd,          \* byte offset of tx_fifo.end from tx_fifo.dma.virt
  RxLengths,      \* hdr.length values the CCAT stamps into a received slot
  TxLengths,      \* skb->len values the stack hands to ccat_eth_start_xmit
  MaxRxFrames,    \* frames the CCAT receives in one behaviour
  MaxTxFrames,    \* calls of ccat_eth_start_xmit by the stack
  MaxLinkChanges  \* transitions of the hardware link bit

ASSUME BackendAssumption == Backend \in {"dma", "iomem"}
ASSUME EndAssumption == RxEnd \in Int /\ TxEnd \in Int
ASSUME LengthAssumption == RxLengths \subseteq Nat /\ TxLengths \subseteq Nat
ASSUME BoundAssumption ==
  /\ MaxRxFrames \in Nat /\ MaxTxFrames \in Nat /\ MaxLinkChanges \in Nat

RxSlots == 0 .. LastSlot(RxEnd)
TxSlots == 0 .. LastSlot(TxEnd)

(* The RX slots armed by one do-while walk of ccat_eth_fifo_reset.        *)
ArmAll == [i \in 1 .. LastSlot(RxEnd) + 1 |-> i - 1]

Ctx == {"stack", "poll"}

VARIABLES
  link,          \* hardware link bit read by ccat_eth_priv_read_link_state
  linkChanges,
  carrier,       \* netif_carrier_ok(netdev)
  queueAwake,    \* the netdev tx queue is not stopped
  ifUp,          \* the interface is open: the stack may call start_xmit
  timer,         \* poll_timer: "on", "cancelling" (in hrtimer_cancel), "off"
  pollPc,        \* where poll_timer_callback is
  xpc,           \* per context: the step of ccat_eth_start_xmit reached
  xlen,          \* per context: skb->len of the frame being sent
  rxNext,        \* rx_fifo.dma.next
  rxRecv,        \* slot -> hdr.rx_flags & CCAT_FRAME_RECEIVED
  rxLen,         \* slot -> hdr.length
  rxData,        \* slot -> payload identifier written by the CCAT
  hwRxQ,         \* CCAT rx fifo: armed slots in the order written to it
  rxFrames,      \* frames received by the CCAT so far
  rxDelivered,   \* payloads handed to netif_rx, in order
  rxBytes, rxDropped,
  txNext,        \* tx_fifo.dma.next
  txSent,        \* slot -> hdr.tx_flags & CCAT_FRAME_SENT
  txData,        \* slot -> payload identifier copied into the slot
  hwTxQ,         \* CCAT tx fifo: published slots in publication order
  txId,          \* identifier of the next payload published
  wire,          \* payload identifiers the CCAT put on the wire, in order
  txBytes, txDropped,
  stackCalls,    \* calls of ccat_eth_start_xmit made by the stack
  rawLeaked      \* xmit_raw skbs dropped on NETDEV_TX_BUSY without a free

hwVars == <<link, linkChanges>>
netVars == <<carrier, queueAwake, ifUp, timer, pollPc, xpc, xlen>>
rxVars == <<rxNext, rxRecv, rxLen, rxData, hwRxQ, rxFrames, rxDelivered,
            rxBytes, rxDropped>>
txVars == <<txNext, txSent, txData, hwTxQ, txId, wire, txBytes, txDropped,
            stackCalls, rawLeaked>>
vars == <<hwVars, netVars, rxVars, txVars>>

Rng(s) == {s[i] : i \in DOMAIN s}

(***************************************************************************)
(* Backend capabilities.  The poll loop and start_xmit call them through  *)
(* the priv->tx_ready, priv->rx_ready, fifo->add and fifo->queue_skb      *)
(* pointers that ccat_eth_priv_init_dma or ccat_eth_priv_init_nodma set.  *)
(***************************************************************************)
(* fifo_dma_tx_ready: the slot about to be reused has CCAT_FRAME_SENT.    *)
fifo_dma_tx_ready == txSent[txNext]

(* fifo_iomem_tx_ready: the tx fifo level register, read with ioread8 and *)
(* masked with TX_FIFO_LEVEL_MASK = 0x3F, is zero.  The level is the      *)
(* number of frames in the CCAT's tx fifo.                                *)
fifo_iomem_tx_ready == Len(hwTxQ) % 64 = 0

(* priv->tx_ready, as ccat_eth_priv_init_dma or _nodma installed it.      *)
tx_ready == IF Backend = "dma" THEN fifo_dma_tx_ready ELSE fifo_iomem_tx_ready

(* fifo_dma_rx_ready: length minus overhead if received, else 0.          *)
fifo_dma_rx_ready ==
  IF rxRecv[rxNext] /\ rxLen[rxNext] >= RxOverhead
  THEN rxLen[rxNext] - RxOverhead ELSE 0

(* fifo_iomem_rx_ready: the length field alone; below the 16-byte header  *)
(* it is 0.                                                               *)
fifo_iomem_rx_ready ==
  IF rxLen[rxNext] < RxOverheadNodma THEN 0 ELSE rxLen[rxNext] - RxOverheadNodma

(* priv->rx_ready, as ccat_eth_priv_init_dma or _nodma installed it.      *)
rx_ready == IF Backend = "dma" THEN fifo_dma_rx_ready ELSE fifo_iomem_rx_ready

(* Mutant: fifo_iomem_rx_add without its iowrite16(0, frame).            *)
RxAddLen_keep(s) == rxLen

(* hdr.length after fifo->add on slot s: fifo_iomem_rx_add zeroes it,     *)
(* ccat_eth_rx_fifo_dma_add leaves it.                                    *)
RxAddLen(s) == IF Backend = "iomem" THEN [rxLen EXCEPT ![s] = 0] ELSE rxLen

(* Mutant: the rx fifo reset without iowrite32(0, fifo->reg + 0x8).      *)
ResetRx_keep_hw_fifo ==
  /\ hwRxQ' = hwRxQ \o ArmAll
  /\ rxRecv' = [s \in RxSlots |-> FALSE]
  /\ rxLen' = IF Backend = "iomem" THEN [s \in RxSlots |-> 0] ELSE rxLen
  /\ rxNext' = 0

(* ccat_eth_fifo_reset on the rx fifo: reset the hw fifo, then arm every  *)
(* slot with fifo->add: ccat_eth_rx_fifo_dma_add (rx_flags := 0, offset   *)
(* to fifo) or fifo_iomem_rx_add (length := 0; rx reg is NULL).           *)
ResetRx ==
  /\ hwRxQ' = ArmAll
  /\ rxRecv' = [s \in RxSlots |-> FALSE]
  /\ rxLen' = IF Backend = "iomem" THEN [s \in RxSlots |-> 0] ELSE rxLen
  /\ rxNext' = 0

(* ccat_eth_fifo_reset on the tx fifo: reset the hw fifo, then mark every *)
(* slot free with ccat_eth_tx_fifo_dma_add_free (tx_flags := SENT); the   *)
(* iomem add, fifo_iomem_tx_add, does nothing.                            *)
ResetTx ==
  /\ hwTxQ' = <<>>
  /\ txSent' = IF Backend = "dma" THEN [s \in TxSlots |-> TRUE] ELSE txSent
  /\ txNext' = 0

(***************************************************************************)
(* ccat_eth_start_xmit, in the steps another context can interleave with. *)
(* Return(c) is the return to the caller: the stack, or xmit_raw in       *)
(* ccat_eth_link_up, which continues with carrier on and start queue.     *)
(***************************************************************************)
Return(c) ==
  /\ xpc' = [xpc EXCEPT ![c] = "idle"]
  /\ pollPc' = IF c = "poll" THEN "up" ELSE pollPc

(* Mutant: start_xmit without the "Tx Ring full when queue awake" check. *)
XmitCheck_no_ready(c, len) ==
  /\ xpc' = [xpc EXCEPT ![c] = "queue"]
  /\ xlen' = [xlen EXCEPT ![c] = len]
  /\ pollPc' = IF c = "poll" THEN "xmit" ELSE pollPc
  /\ UNCHANGED <<queueAwake, txDropped, rawLeaked>>

(* The tx_ready check of a linear frame that fits, with its BUSY path.   *)
(* For xmit_raw the BUSY return value is ignored and the skb is leaked.   *)
XmitCheck(c, len) ==
  \/ /\ ~tx_ready
     /\ queueAwake' = FALSE
     /\ rawLeaked' = IF c = "poll" THEN rawLeaked + 1 ELSE rawLeaked
     /\ Return(c)
     /\ UNCHANGED <<txDropped, xlen>>
  \/ /\ tx_ready
     /\ xpc' = [xpc EXCEPT ![c] = "queue"]
     /\ xlen' = [xlen EXCEPT ![c] = len]
     /\ pollPc' = IF c = "poll" THEN "xmit" ELSE pollPc
     /\ UNCHANGED <<queueAwake, txDropped, rawLeaked>>

(* fifo->queue_skb: both variants copy the frame into the slot at next   *)
(* and write its offset to the tx fifo register, which queues it in the   *)
(* CCAT; only fifo_dma_queue_skb clears tx_flags.                         *)
queue_skb ==
  /\ txSent' = IF Backend = "dma" THEN [txSent EXCEPT ![txNext] = FALSE]
                                  ELSE txSent
  /\ txData' = [txData EXCEPT ![txNext] = txId]
  /\ hwTxQ' = Append(hwTxQ, txNext)

(* fifo->queue_skb, atomic64_add(tx_bytes), dev_kfree_skb_any.           *)
XmitQueue(c) ==
  /\ xpc[c] = "queue"
  /\ queue_skb
  /\ txId' = txId + 1
  /\ txBytes' = txBytes + xlen[c]
  /\ xpc' = [xpc EXCEPT ![c] = "inc"]
  /\ UNCHANGED <<hwVars, carrier, queueAwake, ifUp, timer, pollPc, xlen,
                 rxVars, txNext, wire, txDropped, stackCalls, rawLeaked>>

(* ccat_eth_fifo_inc(fifo).                                               *)
XmitInc(c) ==
  /\ xpc[c] = "inc"
  /\ txNext' = ccat_eth_fifo_inc(txNext, TxEnd)
  /\ xpc' = [xpc EXCEPT ![c] = "stop"]
  /\ UNCHANGED <<hwVars, carrier, queueAwake, ifUp, timer, pollPc, xlen,
                 rxVars, txSent, txData, hwTxQ, txId, wire, txBytes,
                 txDropped, stackCalls, rawLeaked>>

(* "stop queue if tx ring is full", then return NETDEV_TX_OK.             *)
XmitStop(c) ==
  /\ xpc[c] = "stop"
  /\ queueAwake' = (queueAwake /\ tx_ready)
  /\ Return(c)
  /\ UNCHANGED <<hwVars, carrier, ifUp, timer, xlen, rxVars, txVars>>

(* ccat_eth_start_xmit called by the stack: a nonlinear or oversized skb *)
(* is dropped and counted (NETDEV_TX_OK), else the tx_ready check.        *)
(* The network stack calls ndo_start_xmit while the interface is up, the  *)
(* carrier is on (its qdisc is active) and the queue is not stopped.      *)
StackXmit ==
  /\ ifUp /\ carrier /\ queueAwake
  /\ xpc["stack"] = "idle"
  /\ stackCalls < MaxTxFrames
  /\ stackCalls' = stackCalls + 1
  /\ \E len \in TxLengths, nonlinear \in BOOLEAN :
       \/ /\ nonlinear \/ len > MaxPayloadSize
          /\ txDropped' = txDropped + 1
          /\ UNCHANGED <<queueAwake, xpc, xlen, pollPc, rawLeaked>>
       \/ /\ ~nonlinear /\ len <= MaxPayloadSize
          /\ XmitCheck("stack", len)
  /\ UNCHANGED <<hwVars, carrier, ifUp, timer, rxVars, txNext, txSent,
                 txData, hwTxQ, txId, wire, txBytes>>

(***************************************************************************)
(* poll_timer_callback: poll_link, poll_rx, poll_tx, hrtimer_forward_now. *)
(***************************************************************************)
(* poll_link; on a change ccat_eth_link_up resets both fifos before it    *)
(* transmits the forwarding frame, ccat_eth_link_down stops the queue and *)
(* drops the carrier.                                                     *)
poll_link ==
  /\ pollPc = "timer" /\ timer = "on"
  /\ \/ /\ link /\ ~carrier
        /\ ResetRx /\ ResetTx
        /\ pollPc' = "raw"
        /\ UNCHANGED <<carrier, queueAwake>>
     \/ /\ ~link /\ carrier
        /\ queueAwake' = FALSE /\ carrier' = FALSE
        /\ pollPc' = "rx"
        /\ UNCHANGED <<hwRxQ, rxRecv, rxLen, rxNext, hwTxQ, txSent, txNext>>
     \/ /\ link = carrier
        /\ pollPc' = "rx"
        /\ UNCHANGED <<carrier, queueAwake, hwRxQ, rxRecv, rxLen, rxNext,
                       hwTxQ, txSent, txNext>>
  /\ UNCHANGED <<hwVars, ifUp, timer, xpc, xlen, rxData, rxFrames,
                 rxDelivered, rxBytes, rxDropped, txData, txId, wire,
                 txBytes, txDropped, stackCalls, rawLeaked>>

(* ccat_eth_xmit_raw: start_xmit of the 30-byte forwarding frame, which  *)
(* is linear and fits, so only the tx_ready check can turn it away.        *)
XmitRaw ==
  /\ pollPc = "raw"
  /\ XmitCheck("poll", RawLen)
  /\ UNCHANGED <<hwVars, carrier, ifUp, timer, rxVars, txNext, txSent,
                 txData, hwTxQ, txId, wire, txBytes, stackCalls>>

(* The end of ccat_eth_link_up: netif_carrier_on, netif_start_queue.      *)
LinkUpDone ==
  /\ pollPc = "up"
  /\ carrier' = TRUE /\ queueAwake' = TRUE
  /\ pollPc' = "rx"
  /\ UNCHANGED <<hwVars, ifUp, timer, xpc, xlen, rxVars, txVars>>

(* Mutant: poll_rx re-queues the slot without clearing rx_flags.        *)
poll_rx_keep_flag ==
  /\ pollPc = "rx"
  /\ \/ /\ rx_ready = 0
        /\ pollPc' = "tx"
        /\ UNCHANGED rxVars
     \/ /\ rx_ready > 0
        /\ rxDelivered' = Append(rxDelivered, rxData[rxNext])
        /\ rxBytes' = rxBytes + rx_ready
        /\ hwRxQ' = Append(hwRxQ, rxNext)
        /\ rxNext' = ccat_eth_fifo_inc(rxNext, RxEnd)
        /\ UNCHANGED <<pollPc, rxRecv, rxDropped, rxLen, rxData, rxFrames>>
  /\ UNCHANGED <<hwVars, carrier, queueAwake, ifUp, timer, xpc, xlen, txVars>>

(* Mutant: ccat_eth_receive whose alloc-failure path skips               *)
(* atomic64_inc(&priv->rx_dropped).                                       *)
ccat_eth_receive_uncounted(len) ==
  \/ /\ rxDelivered' = Append(rxDelivered, rxData[rxNext])
     /\ rxBytes' = rxBytes + len
     /\ UNCHANGED rxDropped
  \/ UNCHANGED <<rxDelivered, rxBytes, rxDropped>>

(* ccat_eth_receive: dev_alloc_skb may fail, then the frame is counted   *)
(* as dropped; else its payload goes to netif_rx and len to rx_bytes.     *)
ccat_eth_receive(len) ==
  \/ /\ rxDelivered' = Append(rxDelivered, rxData[rxNext])
     /\ rxBytes' = rxBytes + len
     /\ UNCHANGED rxDropped
  \/ /\ rxDropped' = rxDropped + 1
     /\ UNCHANGED <<rxDelivered, rxBytes>>

(* One iteration of the poll_rx loop: ccat_eth_receive, fifo->add (the    *)
(* slot goes back to the CCAT), ccat_eth_fifo_inc; or the loop's exit.    *)
poll_rx ==
  /\ pollPc = "rx"
  /\ \/ /\ rx_ready = 0
        /\ pollPc' = "tx"
        /\ UNCHANGED rxVars
     \/ /\ rx_ready > 0
        /\ ccat_eth_receive(rx_ready)
        /\ rxRecv' = [rxRecv EXCEPT ![rxNext] = FALSE]
        /\ hwRxQ' = Append(hwRxQ, rxNext)
        /\ rxNext' = ccat_eth_fifo_inc(rxNext, RxEnd)
        /\ rxLen' = RxAddLen(rxNext)
        /\ UNCHANGED <<pollPc, rxData, rxFrames>>
  /\ UNCHANGED <<hwVars, carrier, queueAwake, ifUp, timer, xpc, xlen, txVars>>

(* poll_tx reads tx_ready; when the slot is free it goes on to wake the   *)
(* queue, else the callback ends with hrtimer_forward_now (RESTART).      *)
(* The read and the wake are two steps: ccat_eth_start_xmit on another    *)
(* CPU may fill the ring in between.                                      *)
poll_tx ==
  /\ pollPc = "tx"
  /\ pollPc' = IF tx_ready THEN "wake" ELSE "timer"
  /\ UNCHANGED <<hwVars, carrier, queueAwake, ifUp, timer, xpc, xlen,
                 rxVars, txVars>>

(* Mutant: poll_tx without netif_wake_queue.                             *)
poll_tx_wake_no_wake ==
  /\ pollPc = "wake"
  /\ pollPc' = "timer"
  /\ UNCHANGED <<hwVars, carrier, queueAwake, ifUp, timer, xpc, xlen,
                 rxVars, txVars>>

(* netif_wake_queue, then hrtimer_forward_now: the callback returns       *)
(* RESTART.                                                               *)
poll_tx_wake ==
  /\ pollPc = "wake"
  /\ queueAwake' = TRUE
  /\ pollPc' = "timer"
  /\ UNCHANGED <<hwVars, carrier, ifUp, timer, xpc, xlen, rxVars, txVars>>

(***************************************************************************)
(* ndo_open and ndo_stop.                                                 *)
(***************************************************************************)
(* Mutant: ccat_eth_open without hrtimer_start.                          *)
ccat_eth_open_no_timer ==
  /\ ~ifUp /\ timer = "off"
  /\ ifUp' = TRUE
  /\ UNCHANGED <<hwVars, carrier, queueAwake, timer, pollPc, xpc, xlen,
                 rxVars, txVars>>

(* ccat_eth_open starts the poll timer.                                   *)
ccat_eth_open ==
  /\ ~ifUp /\ timer = "off"
  /\ ifUp' = TRUE /\ timer' = "on"
  /\ UNCHANGED <<hwVars, carrier, queueAwake, pollPc, xpc, xlen, rxVars,
                 txVars>>

(* ccat_eth_stop: the stack has quiesced its transmit path (dev_close),   *)
(* netif_stop_queue, then hrtimer_cancel.                                 *)
ccat_eth_stop ==
  /\ ifUp /\ xpc["stack"] = "idle"
  /\ ifUp' = FALSE /\ queueAwake' = FALSE /\ timer' = "cancelling"
  /\ UNCHANGED <<hwVars, carrier, pollPc, xpc, xlen, rxVars, txVars>>

(* hrtimer_cancel returns once no callback is running.                    *)
CancelDone ==
  /\ timer = "cancelling" /\ pollPc = "timer"
  /\ timer' = "off"
  /\ UNCHANGED <<hwVars, carrier, queueAwake, ifUp, pollPc, xpc, xlen,
                 rxVars, txVars>>

(***************************************************************************)
(* The CCAT.                                                              *)
(***************************************************************************)
HwLinkChange ==
  /\ linkChanges < MaxLinkChanges
  /\ link' = ~link /\ linkChanges' = linkChanges + 1
  /\ UNCHANGED <<netVars, rxVars, txVars>>

(* A frame arrives: the CCAT takes the first armed slot, writes it and    *)
(* sets CCAT_FRAME_RECEIVED.                                              *)
HwReceive ==
  /\ link /\ hwRxQ # <<>> /\ rxFrames < MaxRxFrames
  /\ \E len \in RxLengths :
       /\ rxRecv' = [rxRecv EXCEPT ![Head(hwRxQ)] = TRUE]
       /\ rxLen' = [rxLen EXCEPT ![Head(hwRxQ)] = len]
       /\ rxData' = [rxData EXCEPT ![Head(hwRxQ)] = rxFrames + 1]
       /\ hwRxQ' = Tail(hwRxQ)
       /\ rxFrames' = rxFrames + 1
  /\ UNCHANGED <<hwVars, netVars, rxNext, rxDelivered, rxBytes, rxDropped,
                 txVars>>

(* The CCAT drains the first published slot and sets CCAT_FRAME_SENT.    *)
HwTransmit ==
  /\ hwTxQ # <<>>
  /\ wire' = Append(wire, txData[Head(hwTxQ)])
  /\ txSent' = [txSent EXCEPT ![Head(hwTxQ)] = TRUE]
  /\ hwTxQ' = Tail(hwTxQ)
  /\ UNCHANGED <<hwVars, netVars, rxVars, txNext, txData, txId, txBytes,
                 txDropped, stackCalls, rawLeaked>>

(***************************************************************************)
(* ccat_eth_dma_probe: ccat_eth_priv_init_dma resets both fifos; the      *)
(* netdev is registered with the carrier off and the queue not stopped.   *)
(***************************************************************************)
Init ==
  /\ link \in BOOLEAN /\ linkChanges = 0
  /\ carrier = FALSE /\ queueAwake = TRUE /\ ifUp = FALSE /\ timer = "off"
  /\ pollPc = "timer"
  /\ xpc = [c \in Ctx |-> "idle"] /\ xlen = [c \in Ctx |-> 0]
  /\ rxNext = 0 /\ rxRecv = [s \in RxSlots |-> FALSE]
  /\ rxLen = [s \in RxSlots |-> 0] /\ rxData = [s \in RxSlots |-> 0]
  /\ hwRxQ = ArmAll /\ rxFrames = 0 /\ rxDelivered = <<>>
  /\ rxBytes = 0 /\ rxDropped = 0
  /\ txNext = 0 /\ txSent = [s \in TxSlots |-> TRUE]
  /\ txData = [s \in TxSlots |-> 0] /\ hwTxQ = <<>> /\ txId = 1
  /\ wire = <<>> /\ txBytes = 0 /\ txDropped = 0
  /\ stackCalls = 0 /\ rawLeaked = 0

PollStep == poll_link \/ XmitRaw \/ LinkUpDone \/ poll_rx \/ poll_tx \/ poll_tx_wake
XmitStep(c) == XmitQueue(c) \/ XmitInc(c) \/ XmitStop(c)

Next ==
  \/ PollStep
  \/ StackXmit
  \/ \E c \in Ctx : XmitStep(c)
  \/ ccat_eth_open \/ ccat_eth_stop \/ CancelDone
  \/ HwLinkChange \/ HwReceive \/ HwTransmit

(* The hrtimer fires every POLL_TIME and each callback runs to its end;   *)
(* a started ccat_eth_start_xmit runs to its end; the CCAT drains its tx  *)
(* fifo.  The stack, the link and open/stop are not fair.                 *)
Fairness ==
  /\ WF_vars(PollStep)
  /\ \A c \in Ctx : WF_vars(XmitStep(c))
  /\ WF_vars(CancelDone)
  /\ WF_vars(HwTransmit)

Spec == Init /\ [][Next]_vars /\ Fairness


(***************************************************************************)
(* Properties.                                                            *)
(***************************************************************************)
NoDup(s) == \A i, j \in DOMAIN s : i # j => s[i] # s[j]
Increasing(s) == \A i \in 1 .. Len(s) - 1 : s[i] < s[i + 1]

TypeOK ==
  /\ link \in BOOLEAN /\ linkChanges \in 0 .. MaxLinkChanges
  /\ carrier \in BOOLEAN /\ queueAwake \in BOOLEAN /\ ifUp \in BOOLEAN
  /\ timer \in {"on", "cancelling", "off"}
  /\ pollPc \in {"timer", "raw", "xmit", "up", "rx", "tx", "wake"}
  /\ xpc \in [Ctx -> {"idle", "queue", "inc", "stop"}]
  /\ xlen \in [Ctx -> Nat]
  /\ rxNext \in RxSlots /\ rxRecv \in [RxSlots -> BOOLEAN]
  /\ rxLen \in [RxSlots -> Nat] /\ rxData \in [RxSlots -> Nat]
  /\ hwRxQ \in Seq(RxSlots) /\ rxFrames \in Nat /\ rxDelivered \in Seq(Nat)
  /\ rxBytes \in Nat /\ rxDropped \in Nat
  /\ txNext \in TxSlots /\ txSent \in [TxSlots -> BOOLEAN]
  /\ txData \in [TxSlots -> Nat] /\ hwTxQ \in Seq(TxSlots)
  /\ txId \in Nat \ {0} /\ wire \in Seq(Nat)
  /\ txBytes \in Nat /\ txDropped \in Nat
  /\ stackCalls \in Nat /\ rawLeaked \in Nat

(* RX ownership (ccat_eth_fifo_reset, poll_rx, the CCAT): every rx slot   *)
(* is owned either by the CCAT, armed once in its rx fifo, or by the      *)
(* driver with CCAT_FRAME_RECEIVED set, never both and never armed twice. *)
RxOwnership ==
  /\ NoDup(hwRxQ)
  /\ \A s \in RxSlots : (s \in Rng(hwRxQ)) = ~rxRecv[s]

(* TX ownership (ccat_eth_start_xmit, fifo->queue_skb, the tx fifo reset, *)
(* the CCAT): every tx slot is owned by exactly one side.  The CCAT owns  *)
(* the slots queued in its tx fifo, each queued once; under DMA the       *)
(* driver owns exactly the slots whose CCAT_FRAME_SENT is set.  The iomem *)
(* backend never clears tx_flags, so there only "queued at most once"     *)
(* says anything: a slot queued twice was overwritten while the CCAT      *)
(* still held it.                                                         *)
TxOwnership ==
  /\ NoDup(hwTxQ)
  /\ Backend = "dma" => \A s \in TxSlots : txSent[s] = (s \notin Rng(hwTxQ))

(* poll_rx hands received payloads to netif_rx once each, in the order    *)
(* the CCAT received them.                                                *)
RxInOrder == Increasing(rxDelivered)

(* poll_rx takes only slots the CCAT has completed: every iteration that *)
(* hands a frame to netif_rx or counts it in rx_dropped reads the slot at *)
(* rx_fifo.next while its CCAT_FRAME_RECEIVED flag is set.  The iomem     *)
(* rx_ready never reads the flag, only hdr.length, so this rests on       *)
(* fifo_iomem_rx_add and the reset zeroing the length of every slot they  *)
(* give back to the CCAT.                                                 *)
RxTakesCompleted ==
  [][(rxDelivered' # rxDelivered \/ rxDropped' # rxDropped) => rxRecv[rxNext]]_vars

(* The CCAT puts accepted payloads on the wire once each, in the order    *)
(* ccat_eth_start_xmit published them: no slot is overwritten while its   *)
(* previous payload is still queued.                                      *)
TxInOrder == Increasing(wire)

(* The check "BUG! Tx Ring full when queue awake!" in ccat_eth_start_xmit *)
(* never fires: whenever the stack may call start_xmit, tx_ready holds.   *)
StackNeverBusy ==
  (ifUp /\ carrier /\ queueAwake /\ xpc["stack"] = "idle") => tx_ready

(* poll_tx never reopens a stopped queue onto a full ring: when its       *)
(* netif_wake_queue runs on a stopped queue, the tx slot is still free    *)
(* (tx_ready), so the stack's next start_xmit does not take the "BUG! Tx  *)
(* Ring full when queue awake!" path.                                     *)
PollTxWakesOnFreeSlot ==
  [][(pollPc = "wake" /\ pollPc' = "timer" /\ ~queueAwake) => tx_ready]_vars

(* fifo_iomem_tx_ready reads the tx fifo level through the mask 0x3F, so *)
(* a level of 64 would read as an empty fifo.  The level never exceeds    *)
(* one frame per context: each publication follows a tx_ready check, and  *)
(* only xmit_raw and one stack call can pass theirs before either lands.  *)
TxFifoLevelBounded == Len(hwTxQ) <= 2

(* Received slots go back to the CCAT: while the interface is up, the    *)
(* poll_rx loop of a later timer tick hands every slot the CCAT filled to *)
(* netif_rx or rx_dropped and re-arms it (fifo->add), or the link-up      *)
(* ccat_eth_fifo_reset re-arms it.                                        *)
RxSlotsReturn ==
  \A s \in RxSlots : (rxRecv[s] /\ ifUp) ~> (~rxRecv[s] \/ ~ifUp)

(* Backpressure is released: a queue stopped by start_xmit or by the      *)
(* busy path is woken by poll_tx, unless the link or interface goes down. *)
QueueWakes ==
  (carrier /\ ifUp /\ ~queueAwake) ~> (queueAwake \/ ~carrier \/ ~ifUp)

=============================================================================
