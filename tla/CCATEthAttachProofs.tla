------------------------ MODULE CCATEthAttachProofs ------------------------
(***************************************************************************)
(* Proofs about attach and detach (CCATEthAttach): the type invariant and *)
(* ReleasedWhenDetached, for every set of channels and every choice of rx *)
(* and tx channel, equal or not.                                          *)
(*                                                                         *)
(* ReleasedWhenDetached is not inductive: it speaks of the end states      *)
(* only.  AttachInv says what probe holds at each of its steps, and that  *)
(* until probe fails the channels the other driver obtained are exactly   *)
(* the ones it owns, so that request_dma can only take a free channel and *)
(* the other driver's free_dma never releases one of ours.                *)
(***************************************************************************)
EXTENDS CCATEthAttach, TLAPS

(* No channel is held by the driver.                                      *)
NoEthChan == \A ch \in Chans : owner[ch] # "eth"

(* The driver holds exactly the channels of S.                            *)
EthHolds(S) == \A ch \in Chans : owner[ch] = "eth" <=> ch \in S

(* The other driver's record of its channels matches the owners.          *)
OtherConsistent == \A ch \in Chans : ch \in otherHeld <=> owner[ch] = "other"

AttachInv ==
  /\ TypeOK
  /\ pc \in {"probe", "init_rx"} =>
       buf = [d \in Dirs |-> 0] /\ NoEthChan /\ OtherConsistent
  /\ pc = "probe" => netdev = "none"
  /\ pc = "init_rx" => netdev = "allocated" /\ backend = "dma"
  /\ pc = "init_tx" =>
       /\ netdev = "allocated" /\ backend = "dma"
       /\ buf["rx"] = 1 /\ buf["tx"] = 0
       /\ EthHolds({RxChan}) /\ OtherConsistent
  /\ pc \in {"register", "up"} =>
       /\ netdev = IF pc = "up" THEN "registered" ELSE "allocated"
       /\ OtherConsistent
       /\ backend = "dma" => buf = [d \in Dirs |-> 1]
                            /\ EthHolds({RxChan, TxChan})
       /\ backend = "iomem" => buf = [d \in Dirs |-> 0] /\ NoEthChan
  /\ ReleasedWhenDetached

USE ChanAssumption DEF Dirs

(* ccat_dma_free releases the channel of its direction and keeps the      *)
(* owners of the others.                                                  *)
LEMMA DmaFreeOwner ==
  ASSUME NEW o \in [Chans -> {"none", "eth", "other"}], NEW d \in Dirs
  PROVE  /\ ccat_dma_free(o, d) \in [Chans -> {"none", "eth", "other"}]
         /\ ccat_dma_free(o, d)[Chan(d)] = "none"
         /\ \A ch \in Chans \ {Chan(d)} : ccat_dma_free(o, d)[ch] = o[ch]
BY DEF ccat_dma_free, Chan

(* A failed probe (InitDmaFailed or the register failure) and a remove    *)
(* all release through ccat_dma_free; after the last of them the driver   *)
(* holds no channel.                                                      *)
LEMMA FreeAllEth ==
  ASSUME NEW o \in [Chans -> {"none", "eth", "other"}],
         \A ch \in Chans : o[ch] = "eth" => ch \in {RxChan, TxChan}
  PROVE  \A ch \in Chans : ccat_dma_free(ccat_dma_free(o, "rx"), "tx")[ch] # "eth"
BY DEF ccat_dma_free, Chan

(* A buffer count with the same value in both directions is constant.   *)
LEMMA BufConst ==
  ASSUME NEW f \in [Dirs -> Nat], NEW v \in Nat, f["rx"] = v, f["tx"] = v
  PROVE  f = [d \in Dirs |-> v]
<1>1. \A d \in Dirs : f[d] = v
  OBVIOUS
<1>. QED
  BY <1>1, Zenon

(* Every reachable state satisfies AttachInv.                             *)
LEMMA AttachInvariant == Spec => []AttachInv
<1>1. Init => AttachInv
  BY DEF Init, AttachInv, TypeOK, NoEthChan, OtherConsistent,
         ReleasedWhenDetached
<1>2. AttachInv /\ [Next]_vars => AttachInv'
  <2>. SUFFICES ASSUME AttachInv, [Next]_vars PROVE AttachInv'
    OBVIOUS
  <2>. USE DEF AttachInv, TypeOK
  <2>1. CASE ccat_eth_alloc_netdev
    BY <2>1 DEF ccat_eth_alloc_netdev, NoEthChan, OtherConsistent,
              ReleasedWhenDetached
  <2>2. CASE ccat_dma_init("rx")
    <3>1. pc = "init_rx" /\ backend = "dma" /\ netdev = "allocated"
          /\ buf = [d \in Dirs |-> 0] /\ NoEthChan /\ OtherConsistent
      BY <2>2 DEF ccat_dma_init
    <3>2. CASE InitDmaFailed("rx", owner)
      BY <2>2, <3>1, <3>2 DEF InitDmaFailed, ccat_dma_init, NoEthChan,
                        ReleasedWhenDetached
    <3>3. CASE owner[Chan("rx")] # "none"
               /\ InitDmaFailed("rx", ccat_dma_free(owner, "rx"))
      <4>1. \A ch \in Chans : ccat_dma_free(owner, "rx")[ch] # "eth"
        BY <3>1, DmaFreeOwner DEF NoEthChan
      <4>. QED
        BY <2>2, <3>1, <3>3, <4>1, DmaFreeOwner
        DEF InitDmaFailed, ccat_dma_init, ReleasedWhenDetached
    <3>4. CASE /\ owner[Chan("rx")] = "none"
               /\ buf' = [buf EXCEPT !["rx"] = buf["rx"] + 1]
               /\ owner' = [owner EXCEPT ![Chan("rx")] = "eth"]
               /\ pc' = "init_tx"
               /\ UNCHANGED netdev
      <4>1. buf' \in [Dirs -> 0 .. 1] /\ buf'["rx"] = 1 /\ buf'["tx"] = 0
        BY <3>1, <3>4
      <4>2. owner' \in [Chans -> {"none", "eth", "other"}]
            /\ EthHolds({RxChan})'
        BY <3>1, <3>4 DEF NoEthChan, EthHolds, Chan
      <4>3. OtherConsistent'
        BY <2>2, <3>1, <3>4 DEF ccat_dma_init, OtherConsistent, Chan
      <4>. QED
        BY <2>2, <3>1, <3>4, <4>1, <4>2, <4>3
        DEF ccat_dma_init, ReleasedWhenDetached
    <3>. QED
      BY <2>2, <3>2, <3>3, <3>4 DEF ccat_dma_init
  <2>3. CASE ccat_dma_init("tx")
    <3>1. pc = "init_tx" /\ backend = "dma" /\ netdev = "allocated"
          /\ buf["rx"] = 1 /\ buf["tx"] = 0
          /\ EthHolds({RxChan}) /\ OtherConsistent
      BY <2>3 DEF ccat_dma_init
    <3>2. \A o \in [Chans -> {"none", "eth", "other"}] :
            (\A ch \in Chans : o[ch] = "eth" => ch = RxChan)
            /\ InitDmaFailed("tx", o) => AttachInv'
      <4>. SUFFICES ASSUME NEW o \in [Chans -> {"none", "eth", "other"}],
                          \A ch \in Chans : o[ch] = "eth" => ch = RxChan,
                          InitDmaFailed("tx", o)
                   PROVE  AttachInv'
        OBVIOUS
      <4>0. /\ pc' = "failed" /\ netdev' = "none"
            /\ owner' = ccat_dma_free(o, "rx")
            /\ buf' = [buf EXCEPT !["rx"] = buf["rx"] - 1]
        BY DEF InitDmaFailed
      <4>1. \A ch \in Chans : owner'[ch] # "eth"
        <5>1. /\ ccat_dma_free(o, "rx")[RxChan] = "none"
              /\ \A ch \in Chans \ {RxChan} : ccat_dma_free(o, "rx")[ch] = o[ch]
          BY DmaFreeOwner DEF Chan
        <5>. QED
          BY <4>0, <5>1
      <4>2. buf' = [d \in Dirs |-> 0]
        <5>1. buf \in [Dirs -> 0 .. 1]
          OBVIOUS
        <5>2. buf' \in [Dirs -> Nat] /\ buf'["rx"] = 0 /\ buf'["tx"] = 0
          BY <3>1, <4>0, <5>1
        <5>. QED
          BY <5>2, BufConst
      <4>3. owner' \in [Chans -> {"none", "eth", "other"}]
        BY <4>0, DmaFreeOwner
      <4>4. backend' = backend /\ otherHeld' = otherHeld
        BY <2>3 DEF ccat_dma_init
      <4>5. TypeOK'
        BY <4>0, <4>2, <4>3, <4>4
      <4>6. ReleasedWhenDetached'
        BY <4>0, <4>1, <4>2 DEF ReleasedWhenDetached
      <4>. QED
        BY <4>0, <4>5, <4>6
    <3>3. CASE InitDmaFailed("tx", owner)
      BY <3>1, <3>2, <3>3 DEF EthHolds
    <3>4. CASE owner[Chan("tx")] # "none"
               /\ InitDmaFailed("tx", ccat_dma_free(owner, "tx"))
      <4>1. \A ch \in Chans :
              ccat_dma_free(owner, "tx")[ch] = "eth" => ch = RxChan
        BY <3>1, DmaFreeOwner DEF EthHolds
      <4>. QED
        BY <3>2, <3>4, <4>1, DmaFreeOwner
    <3>5. CASE /\ owner[Chan("tx")] = "none"
               /\ buf' = [buf EXCEPT !["tx"] = buf["tx"] + 1]
               /\ owner' = [owner EXCEPT ![Chan("tx")] = "eth"]
               /\ pc' = "register"
               /\ UNCHANGED netdev
      <4>1. buf' = [d \in Dirs |-> 1]
        <5>1. buf \in [Dirs -> 0 .. 1]
          OBVIOUS
        <5>2. buf' \in [Dirs -> Nat] /\ buf'["rx"] = 1 /\ buf'["tx"] = 1
          BY <3>1, <3>5, <5>1
        <5>. QED
          BY <5>2, BufConst
      <4>2. EthHolds({RxChan, TxChan})'
        <5>1. owner \in [Chans -> {"none", "eth", "other"}] /\ Chan("tx") = TxChan
          BY DEF Chan
        <5>2. owner' = [owner EXCEPT ![TxChan] = "eth"] /\ owner[TxChan] = "none"
          BY <3>5, <5>1
        <5>3. \A ch \in Chans : owner[ch] = "eth" <=> ch = RxChan
          BY <3>1 DEF EthHolds
        <5>. QED
          BY <5>1, <5>2, <5>3 DEF EthHolds
      <4>3. OtherConsistent'
        BY <2>3, <3>1, <3>5 DEF ccat_dma_init, OtherConsistent, Chan
      <4>4. owner' \in [Chans -> {"none", "eth", "other"}]
            /\ buf' \in [Dirs -> 0 .. 1]
        BY <3>5, <4>1 DEF Chan
      <4>5. /\ backend' = "dma" /\ netdev' = "allocated"
            /\ otherHeld' = otherHeld /\ pc' = "register"
        BY <2>3, <3>1, <3>5 DEF ccat_dma_init
      <4>. QED
        BY <4>1, <4>2, <4>3, <4>4, <4>5 DEF ReleasedWhenDetached
    <3>. QED
      BY <2>3, <3>3, <3>4, <3>5 DEF ccat_dma_init
  <2>4. PrivFree /\ pc \in {"register", "up"}
        /\ (pc' = "failed" \/ pc' = "removed") /\ netdev' = "none"
        /\ UNCHANGED <<backend, otherHeld>>
        => AttachInv'
    <3>. SUFFICES ASSUME PrivFree, pc \in {"register", "up"},
                         pc' = "failed" \/ pc' = "removed", netdev' = "none",
                         UNCHANGED <<backend, otherHeld>>
                  PROVE  AttachInv'
      OBVIOUS
    <3>1. CASE backend = "dma"
      <4>1. owner' = ccat_dma_free(ccat_dma_free(owner, "rx"), "tx")
            /\ buf' = [d \in Dirs |-> 0]
        BY <3>1 DEF PrivFree
      <4>2. \A ch \in Chans : owner'[ch] # "eth"
        BY <3>1, <4>1, FreeAllEth DEF EthHolds
      <4>3. owner' \in [Chans -> {"none", "eth", "other"}]
        BY <4>1, DmaFreeOwner
      <4>. QED
        BY <4>1, <4>2, <4>3 DEF ReleasedWhenDetached
    <3>2. CASE backend = "iomem"
      BY <3>2 DEF PrivFree, NoEthChan, ReleasedWhenDetached
    <3>. QED
      BY <3>1, <3>2
  <2>5. CASE ccat_eth_init_netdev
    <3>1. CASE netdev' = "registered" /\ pc' = "up" /\ UNCHANGED <<buf, owner>>
      BY <2>5, <3>1 DEF ccat_eth_init_netdev, ReleasedWhenDetached,
                        NoEthChan, EthHolds, OtherConsistent
    <3>2. CASE netdev' = "none" /\ pc' = "failed" /\ PrivFree
      BY <2>4, <2>5, <3>2 DEF ccat_eth_init_netdev
    <3>. QED
      BY <2>5, <3>1, <3>2 DEF ccat_eth_init_netdev
  <2>6. CASE ccat_eth_remove
    BY <2>4, <2>6 DEF ccat_eth_remove
  <2>7. ASSUME NEW ch \in Chans PROVE OtherRequest(ch) => AttachInv'
    BY DEF OtherRequest, NoEthChan, EthHolds, OtherConsistent,
                ReleasedWhenDetached
  <2>8. ASSUME NEW ch \in Chans PROVE OtherFree(ch) => AttachInv'
    BY DEF OtherFree, NoEthChan, EthHolds, OtherConsistent,
                ReleasedWhenDetached
  <2>9. CASE UNCHANGED vars
    BY <2>9 DEF vars, NoEthChan, EthHolds, OtherConsistent,
                ReleasedWhenDetached
  <2>. QED
    BY <2>1, <2>2, <2>3, <2>5, <2>6, <2>7, <2>8, <2>9 DEF Next, Dirs
<1>. QED
  BY <1>1, <1>2, PTL DEF Spec

(* Attach and detach keep their variables typed: at most one coherent     *)
(* buffer per direction, and each channel free, ours or the other's.      *)
THEOREM AttachTypeCorrect == Spec => []TypeOK
BY AttachInvariant, PTL DEF AttachInv

(* Every failed ccat_eth_dma_probe, whichever step failed, and every      *)
(* remove leave no net_device, coherent buffer or DMA channel held.        *)
THEOREM AttachReleases == Spec => []ReleasedWhenDetached
BY AttachInvariant, PTL DEF AttachInv

=============================================================================
