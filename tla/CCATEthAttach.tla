---------------------------- MODULE CCATEthAttach ----------------------------
(***************************************************************************)
(* Attach and detach of the CCAT Ethernet function (src/netdev.c): the    *)
(* probe and remove hooks of eth_dma_driver and eth_iomem_driver, with    *)
(* the resources they acquire and release: the net_device, one coherent   *)
(* DMA buffer and one ISA DMA channel per direction (ccat_dma_init), and  *)
(* the registration with the network stack.  Another driver of the       *)
(* machine requests and frees DMA channels concurrently.                  *)
(***************************************************************************)
EXTENDS Naturals

CONSTANTS
  Chans,     \* the ISA DMA channels of the machine
  RxChan,    \* func->info.rx_dma_chan
  TxChan     \* func->info.tx_dma_chan

ASSUME ChanAssumption == RxChan \in Chans /\ TxChan \in Chans

Dirs == {"rx", "tx"}
Chan(d) == IF d = "rx" THEN RxChan ELSE TxChan

VARIABLES
  backend,   \* the driver whose probe runs: "dma" or "iomem"
  pc,        \* where probe/remove is
  netdev,    \* the net_device: "none", "allocated", "registered"
  buf,       \* direction -> coherent buffers held (dma_zalloc_coherent)
  owner,     \* channel -> "none", "eth" or "other" (request_dma/free_dma)
  otherHeld  \* channels the other driver obtained and has not freed

vars == <<backend, pc, netdev, buf, owner, otherHeld>>

(* Mutant: ccat_dma_free without free_dma(dma->channel).                 *)
ccat_dma_free_keep_chan(o, d) == o

(* ccat_dma_free: free_dma(dma->channel) releases the channel whoever     *)
(* holds it; dma_free_coherent releases the buffer (counted by callers).  *)
ccat_dma_free(o, d) == [o EXCEPT ![Chan(d)] = "none"]

(* Mutant: the tx failure cleanup frees the tx buffer as well.           *)
InitDmaFailed_free_both(d, o) ==
  /\ pc' = "failed" /\ netdev' = "none"
  /\ owner' = ccat_dma_free(ccat_dma_free(o, "rx"), "tx")
  /\ buf' = [e \in Dirs |-> buf[e] - 1]

(* ccat_dma_init(d) returned -1 leaving the channels o: for the tx fifo   *)
(* ccat_eth_priv_init_dma frees the rx dma; ccat_eth_dma_probe then calls *)
(* free_netdev.                                                           *)
InitDmaFailed(d, o) ==
  /\ pc' = "failed" /\ netdev' = "none"
  /\ IF d = "tx"
     THEN /\ owner' = ccat_dma_free(o, "rx")
          /\ buf' = [buf EXCEPT !["rx"] = buf["rx"] - 1]
     ELSE owner' = o /\ buf' = buf

(* ccat_dma_init for the fifo of direction d, called by                   *)
(* ccat_eth_priv_init_dma: dma_zalloc_coherent may fail; request_dma      *)
(* fails when the channel is taken, and ccat_dma_free then releases the   *)
(* buffer and the channel; else both are held.                            *)
ccat_dma_init(d) ==
  /\ pc = IF d = "rx" THEN "init_rx" ELSE "init_tx"
  /\ \/ InitDmaFailed(d, owner)
     \/ /\ owner[Chan(d)] # "none"
        /\ InitDmaFailed(d, ccat_dma_free(owner, d))
     \/ /\ owner[Chan(d)] = "none"
        /\ buf' = [buf EXCEPT ![d] = buf[d] + 1]
        /\ owner' = [owner EXCEPT ![Chan(d)] = "eth"]
        /\ pc' = IF d = "rx" THEN "init_tx" ELSE "register"
        /\ UNCHANGED netdev
  /\ UNCHANGED <<backend, otherHeld>>

(* priv->free: ccat_eth_priv_free_dma releases both fifos' dma,           *)
(* ccat_eth_priv_free_nodma releases nothing.                             *)
PrivFree ==
  IF backend = "dma"
  THEN /\ owner' = ccat_dma_free(ccat_dma_free(owner, "rx"), "tx")
       /\ buf' = [d \in Dirs |-> buf[d] - 1]
  ELSE UNCHANGED <<owner, buf>>

(* ccat_eth_alloc_netdev: alloc_etherdev may fail (-ENOMEM); then         *)
(* ccat_eth_priv_init_dma or ccat_eth_priv_init_nodma, which cannot fail. *)
ccat_eth_alloc_netdev ==
  /\ pc = "probe"
  /\ \/ pc' = "failed" /\ UNCHANGED netdev
     \/ /\ netdev' = "allocated"
        /\ pc' = IF backend = "dma" THEN "init_rx" ELSE "register"
  /\ UNCHANGED <<backend, buf, owner, otherHeld>>

(* ccat_eth_init_netdev: register_netdev, or on failure priv->free and   *)
(* free_netdev.                                                           *)
ccat_eth_init_netdev ==
  /\ pc = "register"
  /\ \/ /\ netdev' = "registered" /\ pc' = "up"
        /\ UNCHANGED <<buf, owner>>
     \/ /\ netdev' = "none" /\ pc' = "failed"
        /\ PrivFree
  /\ UNCHANGED <<backend, otherHeld>>

(* ccat_eth_dma_remove / ccat_eth_iomem_remove: unregister_netdev (which  *)
(* stops the interface and its poll timer), eth->free, free_netdev.       *)
ccat_eth_remove ==
  /\ pc = "up"
  /\ netdev' = "none" /\ pc' = "removed"
  /\ PrivFree
  /\ UNCHANGED <<backend, otherHeld>>

(* Another driver's request_dma and free_dma.                             *)
OtherRequest(ch) ==
  /\ owner[ch] = "none"
  /\ owner' = [owner EXCEPT ![ch] = "other"]
  /\ otherHeld' = otherHeld \cup {ch}
  /\ UNCHANGED <<backend, pc, netdev, buf>>

OtherFree(ch) ==
  /\ ch \in otherHeld
  /\ owner' = [owner EXCEPT ![ch] = "none"]
  /\ otherHeld' = otherHeld \ {ch}
  /\ UNCHANGED <<backend, pc, netdev, buf>>

(* The CCAT core calls the probe of the driver matching the function's   *)
(* type; the channels may already be taken by another driver.             *)
Init ==
  /\ backend \in {"dma", "iomem"}
  /\ pc = "probe" /\ netdev = "none"
  /\ buf = [d \in Dirs |-> 0]
  /\ owner \in [Chans -> {"none", "other"}]
  /\ otherHeld = {ch \in Chans : owner[ch] = "other"}

Next ==
  \/ ccat_eth_alloc_netdev
  \/ \E d \in Dirs : ccat_dma_init(d)
  \/ ccat_eth_init_netdev
  \/ ccat_eth_remove
  \/ \E ch \in Chans : OtherRequest(ch) \/ OtherFree(ch)

Spec == Init /\ [][Next]_vars

-----------------------------------------------------------------------------
(* Type invariant: at most one coherent buffer per direction is held.     *)
TypeOK ==
  /\ backend \in {"dma", "iomem"}
  /\ pc \in {"probe", "init_rx", "init_tx", "register", "up", "failed",
             "removed"}
  /\ netdev \in {"none", "allocated", "registered"}
  /\ buf \in [Dirs -> 0 .. 1]
  /\ owner \in [Chans -> {"none", "eth", "other"}]
  /\ otherHeld \subseteq Chans

(* Every failed probe and every remove leaves nothing behind: the         *)
(* net_device freed, no coherent buffer and no DMA channel held, whatever *)
(* step of ccat_eth_dma_probe failed and in whatever order.               *)
ReleasedWhenDetached ==
  pc \in {"failed", "removed"} =>
    /\ netdev = "none"
    /\ buf = [d \in Dirs |-> 0]
    /\ \A ch \in Chans : owner[ch] # "eth"

(* The driver never releases a DMA channel another driver holds: every    *)
(* channel the other driver obtained stays its own until it frees it.     *)
ForeignChannelsKept == \A ch \in otherHeld : owner[ch] = "other"
=============================================================================
