-------------------------- MODULE CCATEthProofs --------------------------
(***************************************************************************)
(* Proofs about the DMA driver model, for every value of the constants:   *)
(* type correctness and the RX ownership invariant.                       *)
(***************************************************************************)
EXTENDS CCATEth, SequenceTheorems, TLAPS

(***************************************************************************)
(* Lemmas about the ring helpers.                                         *)
(***************************************************************************)

(* ccat_eth_fifo_inc keeps the cursor among the slots of the ring.        *)
LEMMA FifoIncInSlots ==
  ASSUME NEW e \in Int, NEW k \in 0 .. LastSlot(e)
  PROVE  ccat_eth_fifo_inc(k, e) \in 0 .. LastSlot(e)
BY DEF ccat_eth_fifo_inc, LastSlot, FrameSize

(* Slot 0, where every reset puts the cursor, is a slot of every ring.    *)
LEMMA ZeroInSlots ==
  ASSUME NEW e \in Int
  PROVE  0 \in 0 .. LastSlot(e)
BY DEF LastSlot, FrameSize

(* The walk of ccat_eth_fifo_reset arms a sequence of rx slots.           *)
LEMMA ArmAllType == ArmAll \in Seq(RxSlots)
<1>1. LastSlot(RxEnd) + 1 \in Nat
  BY EndAssumption DEF LastSlot, FrameSize
<1>2. ArmAll \in [1 .. LastSlot(RxEnd) + 1 -> RxSlots]
  BY EndAssumption DEF ArmAll, RxSlots, LastSlot, FrameSize
<1>. QED
  BY <1>1, <1>2, SeqDef

(* The tx_ready check of ccat_eth_start_xmit leaves the driver state     *)
(* well typed, for either caller.                                         *)
LEMMA XmitCheckType ==
  ASSUME TypeOK, NEW c \in Ctx, NEW len \in Nat, XmitCheck(c, len)
  PROVE  /\ xpc' \in [Ctx -> {"idle", "queue", "inc", "stop"}]
         /\ xlen' \in [Ctx -> Nat]
         /\ pollPc' \in {"timer", "raw", "xmit", "up", "rx", "tx", "wake"}
         /\ queueAwake' \in BOOLEAN
         /\ rawLeaked' \in Nat
         /\ txDropped' \in Nat
<1>1. CASE ~tx_ready
  <2>1. /\ xpc' = [xpc EXCEPT ![c] = "idle"]
        /\ pollPc' = IF c = "poll" THEN "up" ELSE pollPc
        /\ queueAwake' = FALSE
        /\ rawLeaked' = IF c = "poll" THEN rawLeaked + 1 ELSE rawLeaked
        /\ UNCHANGED <<txDropped, xlen>>
    BY <1>1 DEF XmitCheck, Return
  <2>2. rawLeaked' \in Nat /\ txDropped' \in Nat
    BY <2>1 DEF TypeOK
  <2>3. xpc' \in [Ctx -> {"idle", "queue", "inc", "stop"}]
    BY <2>1 DEF TypeOK
  <2>4. pollPc' \in {"timer", "raw", "xmit", "up", "rx", "tx", "wake"}
    BY <2>1 DEF TypeOK
  <2>5. xlen' \in [Ctx -> Nat] /\ queueAwake' \in BOOLEAN
    BY <2>1 DEF TypeOK
  <2>. QED
    BY <2>2, <2>3, <2>4, <2>5
<1>2. CASE tx_ready
  <2>1. /\ xpc' = [xpc EXCEPT ![c] = "queue"]
        /\ xlen' = [xlen EXCEPT ![c] = len]
        /\ pollPc' = IF c = "poll" THEN "xmit" ELSE pollPc
        /\ UNCHANGED <<queueAwake, txDropped, rawLeaked>>
    BY <1>2 DEF XmitCheck
  <2>. QED
    BY <2>1, Zenon DEF TypeOK
<1>. QED
  BY <1>1, <1>2

(***************************************************************************)
(* Lemmas about the CCAT fifos as sequences without repetition.           *)
(***************************************************************************)

(* Appending a slot that is not queued keeps the fifo free of repeats.    *)
LEMMA NoDupAppend ==
  ASSUME NEW S, NEW q \in Seq(S), NEW x \in S, NoDup(q), x \notin Rng(q)
  PROVE  /\ NoDup(Append(q, x))
         /\ Rng(Append(q, x)) = Rng(q) \cup {x}
<1>1. /\ Len(Append(q, x)) = Len(q) + 1
      /\ \A i \in 1 .. Len(q) : Append(q, x)[i] = q[i]
      /\ Append(q, x)[Len(q) + 1] = x
      /\ DOMAIN Append(q, x) = 1 .. Len(q) + 1
  BY AppendProperties
<1>2. DOMAIN q = 1 .. Len(q)
  OBVIOUS
<1>3. NoDup(Append(q, x))
  BY <1>1, <1>2 DEF NoDup, Rng
<1>4. Rng(Append(q, x)) = Rng(q) \cup {x}
  BY <1>1, <1>2 DEF Rng
<1>. QED
  BY <1>3, <1>4

(* Removing the head of a fifo without repeats removes exactly that slot. *)
LEMMA NoDupTail ==
  ASSUME NEW S, NEW q \in Seq(S), q # <<>>, NoDup(q)
  PROVE  /\ NoDup(Tail(q))
         /\ Rng(Tail(q)) = Rng(q) \ {Head(q)}
<1>1. /\ Len(Tail(q)) = Len(q) - 1
      /\ \A i \in 1 .. Len(Tail(q)) : Tail(q)[i] = q[i + 1]
      /\ Tail(q) \in Seq(S)
  BY HeadTailProperties
<1>2. DOMAIN Tail(q) = 1 .. Len(q) - 1 /\ DOMAIN q = 1 .. Len(q)
      /\ Len(q) \in Nat /\ Len(q) > 0
  BY <1>1, EmptySeq
<1>3. Head(q) = q[1]
  OBVIOUS
<1>4. NoDup(Tail(q))
  BY <1>1, <1>2 DEF NoDup
<1>5. Rng(Tail(q)) = Rng(q) \ {Head(q)}
  <2>1. ASSUME NEW i \in 1 .. Len(q) - 1
        PROVE  Tail(q)[i] \in Rng(q) \ {Head(q)}
    <3>1. Tail(q)[i] = q[i + 1] /\ i + 1 \in DOMAIN q /\ i + 1 # 1
      BY <1>1, <1>2
    <3>2. q[i + 1] # q[1]
      BY <3>1, <1>2 DEF NoDup
    <3>. QED
      BY <3>1, <3>2, <1>3 DEF Rng
  <2>2. ASSUME NEW j \in 1 .. Len(q), q[j] # Head(q)
        PROVE  q[j] \in Rng(Tail(q))
    <3>1. j # 1 /\ j - 1 \in 1 .. Len(q) - 1
      BY <2>2, <1>2, <1>3
    <3>2. Tail(q)[j - 1] = q[j]
      BY <3>1, <1>1
    <3>. QED
      BY <3>1, <3>2, <1>2 DEF Rng
  <2>. QED
    BY <2>1, <2>2, <1>2 DEF Rng
<1>. QED
  BY <1>4, <1>5

(* Every slot of a non-empty fifo is its head or a slot of its tail.      *)
LEMMA TailRange ==
  ASSUME NEW S, NEW q \in Seq(S), q # <<>>
  PROVE  Rng(q) \subseteq Rng(Tail(q)) \cup {Head(q)}
<1>1. /\ Len(Tail(q)) = Len(q) - 1
      /\ \A i \in 1 .. Len(Tail(q)) : Tail(q)[i] = q[i + 1]
  BY HeadTailProperties
<1>2. DOMAIN Tail(q) = 1 .. Len(q) - 1 /\ DOMAIN q = 1 .. Len(q)
      /\ Len(q) \in Nat /\ Len(q) > 0
  BY <1>1, EmptySeq
<1>3. ASSUME NEW j \in 1 .. Len(q), j # 1 PROVE q[j] \in Rng(Tail(q))
  <2>1. j - 1 \in 1 .. Len(Tail(q)) /\ Tail(q)[j - 1] = q[j]
    BY <1>1, <1>2, <1>3
  <2>. QED
    BY <2>1, <1>1, <1>2, Zenon DEF Rng
<1>. QED
  BY <1>2, <1>3 DEF Rng

(* An appended slot is in the fifo, and so is every slot that was.       *)
LEMMA AppendRange ==
  ASSUME NEW S, NEW q \in Seq(S), NEW x \in S
  PROVE  Rng(Append(q, x)) = Rng(q) \cup {x}
<1>1. /\ \A i \in 1 .. Len(q) : Append(q, x)[i] = q[i]
      /\ Append(q, x)[Len(q) + 1] = x
      /\ DOMAIN Append(q, x) = 1 .. Len(q) + 1
  BY AppendProperties
<1>. QED
  BY <1>1 DEF Rng

(* The walk of ccat_eth_fifo_reset arms every rx slot exactly once.       *)
LEMMA ArmAllNoDup == NoDup(ArmAll) /\ Rng(ArmAll) = RxSlots
<1>1. LastSlot(RxEnd) \in Nat
  BY EndAssumption DEF LastSlot, FrameSize
<1>. QED
  BY <1>1 DEF ArmAll, NoDup, Rng, RxSlots

(***************************************************************************)
(* Type correctness.                                                      *)
(***************************************************************************)
(* Every state of the driver model is well typed: cursors stay inside     *)
(* their rings (ccat_eth_fifo_inc, ccat_eth_fifo_reset), the CCAT fifos   *)
(* hold slots of their rings, and the counters are naturals.              *)
THEOREM TypeCorrect == Spec => []TypeOK
<1>. USE EndAssumption, LengthAssumption, BoundAssumption
<1>1. Init => TypeOK
  <2>. SUFFICES ASSUME Init PROVE TypeOK
    OBVIOUS
  <2>1. 0 \in RxSlots /\ 0 \in TxSlots
    BY ZeroInSlots DEF RxSlots, TxSlots
  <2>2. ArmAll \in Seq(RxSlots)
    BY ArmAllType
  <2>. QED
    BY <2>1, <2>2 DEF Init, TypeOK, Ctx
<1>2. TypeOK /\ [Next]_vars => TypeOK'
  <2>. SUFFICES ASSUME TypeOK, [Next]_vars PROVE TypeOK'
    OBVIOUS
  <2>. USE DEF hwVars, netVars, rxVars, txVars
  <2>. rxNext \in RxSlots /\ txNext \in TxSlots
    BY DEF TypeOK
  <2>a. ccat_eth_fifo_inc(rxNext, RxEnd) \in RxSlots
    BY FifoIncInSlots DEF RxSlots
  <2>b. ccat_eth_fifo_inc(txNext, TxEnd) \in TxSlots
    BY FifoIncInSlots DEF TxSlots
  <2>c. 0 \in RxSlots /\ 0 \in TxSlots
    BY ZeroInSlots DEF RxSlots, TxSlots
  <2>d. Append(hwRxQ, rxNext) \in Seq(RxSlots)
        /\ Append(hwTxQ, txNext) \in Seq(TxSlots)
    BY AppendProperties DEF TypeOK
  <2>1. CASE poll_link
    <3>1. /\ hwRxQ' \in Seq(RxSlots) /\ rxRecv' \in [RxSlots -> BOOLEAN]
          /\ rxNext' \in RxSlots
          /\ hwTxQ' \in Seq(TxSlots) /\ txSent' \in [TxSlots -> BOOLEAN]
          /\ txNext' \in TxSlots
          /\ pollPc' \in {"timer", "raw", "xmit", "up", "rx", "tx", "wake"}
          /\ carrier' \in BOOLEAN /\ queueAwake' \in BOOLEAN
          /\ rxLen' \in [RxSlots -> Nat]
      <4>1. CASE link /\ ~carrier
        <5>1. /\ ResetRx /\ ResetTx
              /\ pollPc' = "raw" /\ UNCHANGED <<carrier, queueAwake>>
          BY <2>1, <4>1 DEF poll_link
        <5>2. /\ hwRxQ' \in Seq(RxSlots) /\ rxRecv' \in [RxSlots -> BOOLEAN]
              /\ rxNext' \in RxSlots /\ rxLen' \in [RxSlots -> Nat]
          BY <5>1, <2>c, ArmAllType DEF ResetRx, TypeOK
        <5>3. /\ hwTxQ' \in Seq(TxSlots) /\ txSent' \in [TxSlots -> BOOLEAN]
              /\ txNext' \in TxSlots
          BY <5>1, <2>c, EmptySeq DEF ResetTx, TypeOK
        <5>. QED
          BY <5>1, <5>2, <5>3 DEF TypeOK
      <4>2. CASE ~(link /\ ~carrier)
        BY <2>1, <4>2 DEF poll_link, TypeOK
      <4>. QED
        BY <4>1, <4>2
    <3>2. UNCHANGED <<hwVars, ifUp, timer, xpc, xlen, rxData,
                      rxFrames, rxDelivered, rxBytes, rxDropped, txData,
                      txId, wire, txBytes, txDropped, stackCalls, rawLeaked>>
      BY <2>1 DEF poll_link
    <3>. QED
      BY <3>1, <3>2, Zenon DEF TypeOK
  <2>2. CASE XmitRaw
    BY <2>2, XmitCheckType DEF XmitRaw, TypeOK, RawLen, Ctx
  <2>3. CASE LinkUpDone
    BY <2>3 DEF LinkUpDone, TypeOK
  <2>4. CASE poll_rx
    <3>0. rx_ready \in Nat /\ rxData[rxNext] \in Nat
      <4>1. rxLen[rxNext] \in Nat /\ rxData[rxNext] \in Nat
        BY DEF TypeOK
      <4>2. fifo_dma_rx_ready \in Nat /\ fifo_iomem_rx_ready \in Nat
        BY <4>1 DEF fifo_dma_rx_ready, fifo_iomem_rx_ready, RxOverhead,
                    RxOverheadNodma
      <4>. QED
        BY <4>1, <4>2 DEF rx_ready
    <3>1. /\ rxDelivered' \in Seq(Nat) /\ rxBytes' \in Nat
          /\ rxDropped' \in Nat /\ rxLen' \in [RxSlots -> Nat]
          /\ rxRecv' \in [RxSlots -> BOOLEAN] /\ hwRxQ' \in Seq(RxSlots)
          /\ rxNext' \in RxSlots
          /\ pollPc' \in {"timer", "raw", "xmit", "up", "rx", "tx", "wake"}
      <4>1. CASE rx_ready = 0
        BY <2>4, <4>1 DEF poll_rx, ccat_eth_receive, TypeOK
      <4>2. CASE rx_ready # 0
        <5>0. /\ \/ /\ rxDelivered' = Append(rxDelivered, rxData[rxNext])
                    /\ rxBytes' = rxBytes + rx_ready
                    /\ rxDropped' = rxDropped
                 \/ /\ rxDropped' = rxDropped + 1
                    /\ rxDelivered' = rxDelivered /\ rxBytes' = rxBytes
              /\ rxRecv' = [rxRecv EXCEPT ![rxNext] = FALSE]
              /\ hwRxQ' = Append(hwRxQ, rxNext)
              /\ rxNext' = ccat_eth_fifo_inc(rxNext, RxEnd)
              /\ rxLen' = RxAddLen(rxNext)
              /\ pollPc' = pollPc
          BY <2>4, <4>2 DEF poll_rx, ccat_eth_receive
        <5>1. Append(rxDelivered, rxData[rxNext]) \in Seq(Nat)
          BY <3>0, AppendProperties DEF TypeOK
        <5>2. rxDelivered' \in Seq(Nat) /\ rxBytes' \in Nat
              /\ rxDropped' \in Nat
          <6>1. CASE rxDelivered' = Append(rxDelivered, rxData[rxNext])
                     /\ rxBytes' = rxBytes + rx_ready
                     /\ rxDropped' = rxDropped
            BY <6>1, <3>0, <5>1 DEF TypeOK
          <6>2. CASE rxDropped' = rxDropped + 1
                     /\ rxDelivered' = rxDelivered /\ rxBytes' = rxBytes
            BY <6>2 DEF TypeOK
          <6>. QED
            BY <5>0, <6>1, <6>2
        <5>3. rxRecv' \in [RxSlots -> BOOLEAN]
          BY <5>0 DEF TypeOK
        <5>4. RxAddLen(rxNext) \in [RxSlots -> Nat]
          BY DEF RxAddLen, TypeOK
        <5>. QED
          BY <5>0, <5>2, <5>3, <5>4, <2>a, <2>d DEF TypeOK
      <4>. QED
        BY <4>1, <4>2
    <3>2. UNCHANGED <<hwVars, carrier, queueAwake, ifUp, timer, xpc, xlen,
                      rxData, rxFrames, txVars>>
      BY <2>4 DEF poll_rx, ccat_eth_receive
    <3>. QED
      BY <3>1, <3>2, Zenon DEF TypeOK
  <2>5. CASE poll_tx \/ poll_tx_wake
    BY <2>5 DEF poll_tx, poll_tx_wake, TypeOK
  <2>6. CASE StackXmit
    <3>1. PICK len \in TxLengths, nonlinear \in BOOLEAN :
            \/ /\ nonlinear \/ len > MaxPayloadSize
               /\ txDropped' = txDropped + 1
               /\ UNCHANGED <<queueAwake, xpc, xlen, pollPc, rawLeaked>>
            \/ /\ ~nonlinear /\ len <= MaxPayloadSize
               /\ XmitCheck("stack", len)
      BY <2>6 DEF StackXmit
    <3>2. /\ xpc' \in [Ctx -> {"idle", "queue", "inc", "stop"}]
          /\ xlen' \in [Ctx -> Nat]
          /\ pollPc' \in {"timer", "raw", "xmit", "up", "rx", "tx", "wake"}
          /\ queueAwake' \in BOOLEAN /\ rawLeaked' \in Nat
          /\ txDropped' \in Nat
      <4>1. "stack" \in Ctx /\ len \in Nat
        BY DEF Ctx
      <4>2. CASE nonlinear \/ len > MaxPayloadSize
        <5>1. /\ txDropped' = txDropped + 1
              /\ UNCHANGED <<queueAwake, xpc, xlen, pollPc, rawLeaked>>
          BY <3>1, <4>1, <4>2 DEF MaxPayloadSize
        <5>. QED
          BY <5>1 DEF TypeOK
      <4>3. CASE ~(nonlinear \/ len > MaxPayloadSize)
        BY <3>1, <4>1, <4>3, XmitCheckType
      <4>. QED
        BY <4>2, <4>3
    <3>3. stackCalls' \in Nat
      BY <2>6 DEF StackXmit, TypeOK
    <3>4. UNCHANGED <<hwVars, carrier, ifUp, timer, rxVars, txNext, txSent,
                      txData, hwTxQ, txId, wire, txBytes>>
      BY <2>6 DEF StackXmit
    <3>. QED
      BY <3>2, <3>3, <3>4, Zenon DEF TypeOK
  <2>7. ASSUME NEW c \in Ctx, XmitStep(c) PROVE TypeOK'
    <3>1. CASE XmitQueue(c)
      <4>a. txSent' \in [TxSlots -> BOOLEAN] /\ txData' \in [TxSlots -> Nat]
        BY <3>1 DEF XmitQueue, queue_skb, TypeOK
      <4>b. hwTxQ' \in Seq(TxSlots)
        BY <3>1, <2>d DEF XmitQueue, queue_skb
      <4>c. txId' \in Nat \ {0} /\ txBytes' \in Nat
        BY <3>1 DEF XmitQueue, TypeOK
      <4>d. xpc' \in [Ctx -> {"idle", "queue", "inc", "stop"}]
        BY <3>1 DEF XmitQueue, TypeOK
      <4>1. /\ txSent' \in [TxSlots -> BOOLEAN] /\ txData' \in [TxSlots -> Nat]
            /\ hwTxQ' \in Seq(TxSlots) /\ txId' \in Nat \ {0}
            /\ txBytes' \in Nat /\ xpc' \in [Ctx -> {"idle", "queue", "inc", "stop"}]
        BY <4>a, <4>b, <4>c, <4>d
      <4>2. UNCHANGED <<hwVars, carrier, queueAwake, ifUp, timer, pollPc,
                        xlen, rxVars, txNext, wire, txDropped, stackCalls,
                        rawLeaked>>
        BY <3>1 DEF XmitQueue, queue_skb
      <4>. QED
        BY <4>1, <4>2, Zenon DEF TypeOK
    <3>2. CASE XmitInc(c)
      BY <3>2, <2>b DEF XmitInc, TypeOK, Ctx
    <3>3. CASE XmitStop(c)
      BY <3>3 DEF XmitStop, Return, TypeOK, Ctx
    <3>. QED
      BY <2>7, <3>1, <3>2, <3>3 DEF XmitStep
  <2>8. CASE ccat_eth_open \/ ccat_eth_stop \/ CancelDone
    BY <2>8 DEF ccat_eth_open, ccat_eth_stop, CancelDone, TypeOK
  <2>9. CASE HwLinkChange
    BY <2>9 DEF HwLinkChange, TypeOK
  <2>10. CASE HwReceive
    <3>1. hwRxQ # <<>> /\ hwRxQ \in Seq(RxSlots)
      BY <2>10 DEF HwReceive, TypeOK
    <3>2. Head(hwRxQ) \in RxSlots /\ Tail(hwRxQ) \in Seq(RxSlots)
      BY <3>1, HeadTailProperties
    <3>3. PICK len \in RxLengths :
            /\ rxRecv' = [rxRecv EXCEPT ![Head(hwRxQ)] = TRUE]
            /\ rxLen' = [rxLen EXCEPT ![Head(hwRxQ)] = len]
            /\ rxData' = [rxData EXCEPT ![Head(hwRxQ)] = rxFrames + 1]
            /\ hwRxQ' = Tail(hwRxQ)
            /\ rxFrames' = rxFrames + 1
      BY <2>10 DEF HwReceive
    <3>4. /\ rxRecv' \in [RxSlots -> BOOLEAN]
          /\ rxLen' \in [RxSlots -> Nat]
          /\ rxData' \in [RxSlots -> Nat]
          /\ rxFrames' \in Nat
      BY <3>2, <3>3 DEF TypeOK
    <3>5. UNCHANGED <<hwVars, netVars, rxNext, rxDelivered, rxBytes,
                      rxDropped, txVars>>
      BY <2>10 DEF HwReceive
    <3>. QED
      BY <3>2, <3>3, <3>4, <3>5, Zenon DEF TypeOK
  <2>11. CASE HwTransmit
    <3>1. hwTxQ # <<>> /\ hwTxQ \in Seq(TxSlots)
      BY <2>11 DEF HwTransmit, TypeOK
    <3>2. Head(hwTxQ) \in TxSlots /\ Tail(hwTxQ) \in Seq(TxSlots)
      BY <3>1, HeadTailProperties
    <3>3. txData[Head(hwTxQ)] \in Nat
      BY <3>2 DEF TypeOK
    <3>4. wire' \in Seq(Nat)
      BY <2>11, <3>3, AppendProperties DEF HwTransmit, TypeOK
    <3>. QED
      BY <2>11, <3>2, <3>4 DEF HwTransmit, TypeOK
  <2>12. CASE UNCHANGED vars
    BY <2>12 DEF vars, hwVars, netVars, rxVars, txVars, TypeOK
  <2>. QED
    BY <2>1, <2>2, <2>3, <2>4, <2>5, <2>6, <2>7, <2>8, <2>9, <2>10,
       <2>11, <2>12 DEF Next, PollStep
<1>. QED
  BY <1>1, <1>2, PTL DEF Spec

(***************************************************************************)
(* RX ownership.                                                          *)
(***************************************************************************)
(* fifo_iomem_rx_ready reads hdr.length alone, so under iomem ownership   *)
(* also rests on the length: fifo_iomem_rx_add and the reset zero it, and *)
(* only the CCAT's reception makes it non-zero.                           *)
RxLenOwned ==
  Backend = "iomem" => \A s \in RxSlots : rxLen[s] # 0 => rxRecv[s]

RxInv == RxOwnership /\ RxLenOwned

(* The slot poll_rx takes has CCAT_FRAME_RECEIVED, with either backend:  *)
(* fifo_dma_rx_ready tests the flag, fifo_iomem_rx_ready a non-zero       *)
(* length, which RxLenOwned ties to the flag.                             *)
LEMMA RxReadyReceived ==
  ASSUME TypeOK, RxLenOwned, rx_ready # 0
  PROVE  rxRecv[rxNext]
<1>1. rxNext \in RxSlots /\ rxLen[rxNext] \in Nat
  BY DEF TypeOK
<1>2. CASE Backend = "dma"
  BY <1>2 DEF rx_ready, fifo_dma_rx_ready
<1>3. CASE Backend = "iomem"
  <2>1. rxLen[rxNext] # 0
    BY <1>1, <1>3 DEF rx_ready, fifo_iomem_rx_ready, RxOverheadNodma
  <2>. QED
    BY <2>1, <1>1, <1>3 DEF RxLenOwned
<1>. QED
  BY <1>2, <1>3, BackendAssumption

(* The ownership invariant with its iomem strengthening is inductive      *)
(* relative to TypeOK.                                                    *)
THEOREM RxInvariant == Spec => []RxInv
<1>. USE EndAssumption, LengthAssumption, BoundAssumption, BackendAssumption
<1>1. Init => RxInv
  <2>. SUFFICES ASSUME Init PROVE RxInv
    OBVIOUS
  <2>1. RxOwnership
    BY ArmAllNoDup DEF Init, RxOwnership
  <2>2. RxLenOwned
    BY DEF Init, RxLenOwned
  <2>. QED
    BY <2>1, <2>2 DEF RxInv
<1>2. TypeOK /\ RxInv /\ [Next]_vars => RxInv'
  <2>. SUFFICES ASSUME TypeOK, RxInv, [Next]_vars
                PROVE  RxInv'
    OBVIOUS
  <2>. USE DEF hwVars, netVars, rxVars, txVars
  <2>0. CASE UNCHANGED <<hwRxQ, rxRecv, rxLen>>
    BY <2>0 DEF RxInv, RxOwnership, RxLenOwned
  <2>1. CASE poll_link
    <3>1. CASE link /\ ~carrier
      <4>1. /\ hwRxQ' = ArmAll /\ rxRecv' = [s \in RxSlots |-> FALSE]
            /\ rxLen' = IF Backend = "iomem" THEN [s \in RxSlots |-> 0]
                                             ELSE rxLen
        BY <2>1, <3>1 DEF poll_link, ResetRx
      <4>2. RxOwnership'
        BY <4>1, ArmAllNoDup DEF RxOwnership
      <4>3. RxLenOwned'
        BY <4>1 DEF RxLenOwned
      <4>. QED
        BY <4>2, <4>3 DEF RxInv
    <3>2. CASE ~(link /\ ~carrier)
      BY <2>0, <2>1, <3>2 DEF poll_link
    <3>. QED
      BY <3>1, <3>2
  <2>2. CASE poll_rx
    <3>1. CASE rx_ready = 0
      BY <2>0, <2>2, <3>1 DEF poll_rx, ccat_eth_receive
    <3>2. CASE rx_ready # 0
      <4>1. /\ rxRecv' = [rxRecv EXCEPT ![rxNext] = FALSE]
            /\ hwRxQ' = Append(hwRxQ, rxNext)
            /\ rxLen' = RxAddLen(rxNext)
        BY <2>2, <3>2 DEF poll_rx, ccat_eth_receive
      <4>2. rxRecv[rxNext] /\ rxNext \in RxSlots
        BY <3>2, RxReadyReceived DEF RxInv, TypeOK
      <4>3. rxNext \notin Rng(hwRxQ) /\ NoDup(hwRxQ)
        BY <4>2 DEF RxInv, RxOwnership
      <4>4. NoDup(hwRxQ') /\ Rng(hwRxQ') = Rng(hwRxQ) \cup {rxNext}
        BY <4>1, <4>2, <4>3, NoDupAppend DEF TypeOK
      <4>5. \A s \in RxSlots : (s \in Rng(hwRxQ')) = ~rxRecv'[s]
        BY <4>1, <4>4, <4>2 DEF RxInv, RxOwnership, TypeOK
      <4>6. RxLenOwned'
        BY <4>1, <4>2 DEF RxInv, RxLenOwned, RxAddLen, TypeOK
      <4>. QED
        BY <4>4, <4>5, <4>6 DEF RxInv, RxOwnership
    <3>. QED
      BY <3>1, <3>2
  <2>3. CASE HwReceive
    <3>1. hwRxQ # <<>> /\ hwRxQ \in Seq(RxSlots) /\ NoDup(hwRxQ)
      BY <2>3 DEF HwReceive, TypeOK, RxInv, RxOwnership
    <3>2. Head(hwRxQ) \in RxSlots
      BY <3>1, HeadTailProperties
    <3>3. PICK len \in RxLengths :
            /\ rxRecv' = [rxRecv EXCEPT ![Head(hwRxQ)] = TRUE]
            /\ rxLen' = [rxLen EXCEPT ![Head(hwRxQ)] = len]
            /\ hwRxQ' = Tail(hwRxQ)
      BY <2>3 DEF HwReceive
    <3>4. NoDup(hwRxQ') /\ Rng(hwRxQ') = Rng(hwRxQ) \ {Head(hwRxQ)}
      BY <3>1, <3>3, NoDupTail
    <3>5. \A s \in RxSlots : (s \in Rng(hwRxQ')) = ~rxRecv'[s]
      BY <3>2, <3>3, <3>4 DEF RxInv, RxOwnership, TypeOK
    <3>6. RxLenOwned'
      BY <3>2, <3>3 DEF RxInv, RxLenOwned, TypeOK
    <3>. QED
      BY <3>4, <3>5, <3>6 DEF RxInv, RxOwnership
  <2>4. CASE XmitRaw \/ LinkUpDone \/ poll_tx \/ poll_tx_wake \/ StackXmit
    BY <2>0, <2>4 DEF XmitRaw, LinkUpDone, poll_tx, poll_tx_wake, StackXmit
  <2>5. CASE \E c \in Ctx : XmitStep(c)
    BY <2>0, <2>5 DEF XmitStep, XmitQueue, queue_skb, XmitInc, XmitStop
  <2>6. CASE ccat_eth_open \/ ccat_eth_stop \/ CancelDone \/ HwLinkChange
             \/ HwTransmit
    BY <2>0, <2>6
       DEF ccat_eth_open, ccat_eth_stop, CancelDone, HwLinkChange, HwTransmit
  <2>7. CASE UNCHANGED vars
    BY <2>0, <2>7 DEF vars
  <2>. QED
    BY <2>1, <2>2, <2>3, <2>4, <2>5, <2>6, <2>7 DEF Next, PollStep
<1>. QED
  BY <1>1, <1>2, TypeCorrect, PTL DEF Spec

(* Every rx slot is owned either by the CCAT (armed once in its rx fifo)  *)
(* or by the driver (CCAT_FRAME_RECEIVED set), across ccat_eth_fifo_reset *)
(* on link up, the poll_rx loop and the CCAT's receptions, with either    *)
(* backend.  The induction carries RxLenOwned: poll_rx of the iomem       *)
(* backend takes a slot whose length is non-zero.                         *)
THEOREM RxOwnershipInvariant == Spec => []RxOwnership
<1>1. RxInv => RxOwnership
  BY DEF RxInv
<1>. QED
  BY <1>1, RxInvariant, PTL

(* poll_rx hands to netif_rx or counts as dropped only a frame whose slot *)
(* the CCAT has marked CCAT_FRAME_RECEIVED, with either backend and for   *)
(* every ring size: only an iteration of the poll_rx loop touches the     *)
(* delivered and dropped counts, and it runs only while rx_ready is       *)
(* non-zero, which RxLenOwned ties to the flag under iomem.               *)
THEOREM RxTakesCompletedProved == Spec => RxTakesCompleted
<1>1. TypeOK /\ RxInv /\ [Next]_vars
        => ((rxDelivered' # rxDelivered \/ rxDropped' # rxDropped)
              => rxRecv[rxNext])
  <2>. SUFFICES ASSUME TypeOK, RxInv, [Next]_vars,
                       rxDelivered' # rxDelivered \/ rxDropped' # rxDropped
                PROVE  rxRecv[rxNext]
    OBVIOUS
  <2>. USE DEF hwVars, netVars, rxVars, txVars
  <2>1. CASE poll_rx
    <3>1. rx_ready # 0
      BY <2>1 DEF poll_rx
    <3>. QED
      BY <3>1, RxReadyReceived DEF RxInv
  <2>2. CASE poll_link \/ XmitRaw \/ LinkUpDone \/ poll_tx \/ poll_tx_wake \/ StackXmit
    BY <2>2 DEF poll_link, XmitRaw, LinkUpDone, poll_tx, poll_tx_wake, StackXmit
  <2>3. CASE \E c \in Ctx : XmitStep(c)
    BY <2>3 DEF XmitStep, XmitQueue, XmitInc, XmitStop
  <2>4. CASE ccat_eth_open \/ ccat_eth_stop \/ CancelDone \/ HwLinkChange
             \/ HwReceive \/ HwTransmit
    BY <2>4 DEF ccat_eth_open, ccat_eth_stop, CancelDone, HwLinkChange,
                HwReceive, HwTransmit
  <2>5. CASE UNCHANGED vars
    BY <2>5 DEF vars
  <2>. QED
    BY <2>1, <2>2, <2>3, <2>4, <2>5 DEF Next, PollStep
<1>. QED
  BY <1>1, TypeCorrect, RxInvariant, PTL DEF RxTakesCompleted, Spec

(***************************************************************************)
(* TX ownership.                                                          *)
(***************************************************************************)
(* The iomem backend never clears tx_flags: fifo_iomem_queue_skb leaves   *)
(* them and fifo_iomem_tx_add is empty, so every slot keeps SENT.         *)
TxIomemSent == Backend = "iomem" => \A s \in TxSlots : txSent[s]

(* Half of the tx ownership protocol, which holds for any number of link *)
(* changes: a slot whose CCAT_FRAME_SENT flag is clear is queued in the   *)
(* CCAT tx fifo.                                                          *)
TxSentOrQueued == \A s \in TxSlots : txSent[s] \/ s \in Rng(hwTxQ)

TxInv == TxSentOrQueued /\ TxIomemSent

(* A tx slot whose CCAT_FRAME_SENT flag is clear is queued in the CCAT tx *)
(* fifo, across fifo_dma_queue_skb, the tx fifo reset on link up and the  *)
(* CCAT's transmissions: fifo_dma_tx_ready can only be false on a slot    *)
(* the CCAT will still drain.  Under iomem the reset leaves the flags     *)
(* alone, so the induction carries TxIomemSent.                           *)
LEMMA TxSentOrQueuedInvariant == Spec => []TxSentOrQueued
<1>. USE EndAssumption, LengthAssumption, BoundAssumption, BackendAssumption
<1>1. Init => TxInv
  BY DEF Init, TxInv, TxSentOrQueued, TxIomemSent
<1>2. TypeOK /\ TxInv /\ [Next]_vars => TxInv'
  <2>. SUFFICES ASSUME TypeOK, TxInv, [Next]_vars
                PROVE  TxInv'
    OBVIOUS
  <2>. USE DEF hwVars, netVars, rxVars, txVars
  <2>0. CASE UNCHANGED <<hwTxQ, txSent>>
    BY <2>0 DEF TxInv, TxSentOrQueued, TxIomemSent
  <2>1. CASE poll_link
    <3>1. CASE link /\ ~carrier
      <4>1. /\ hwTxQ' = <<>>
            /\ txSent' = IF Backend = "dma" THEN [s \in TxSlots |-> TRUE]
                                            ELSE txSent
        BY <2>1, <3>1 DEF poll_link, ResetTx
      <4>2. \A s \in TxSlots : txSent'[s]
        BY <4>1 DEF TxInv, TxIomemSent
      <4>. QED
        BY <4>2 DEF TxInv, TxSentOrQueued, TxIomemSent
    <3>2. CASE ~(link /\ ~carrier)
      BY <2>0, <2>1, <3>2 DEF poll_link
    <3>. QED
      BY <3>1, <3>2
  <2>2. ASSUME NEW c \in Ctx, XmitQueue(c) PROVE TxInv'
    <3>1. /\ txSent' = IF Backend = "dma"
                       THEN [txSent EXCEPT ![txNext] = FALSE] ELSE txSent
          /\ hwTxQ' = Append(hwTxQ, txNext)
      BY <2>2 DEF XmitQueue, queue_skb
    <3>2. Rng(hwTxQ') = Rng(hwTxQ) \cup {txNext}
      BY <3>1, AppendRange DEF TypeOK
    <3>3. CASE Backend = "dma"
      BY <3>1, <3>2, <3>3 DEF TxInv, TxSentOrQueued, TxIomemSent, TypeOK
    <3>4. CASE Backend = "iomem"
      BY <3>1, <3>2, <3>4 DEF TxInv, TxSentOrQueued, TxIomemSent
    <3>. QED
      BY <3>3, <3>4
  <2>3. CASE HwTransmit
    <3>1. hwTxQ # <<>> /\ hwTxQ \in Seq(TxSlots)
      BY <2>3 DEF HwTransmit, TypeOK
    <3>2. /\ txSent' = [txSent EXCEPT ![Head(hwTxQ)] = TRUE]
          /\ hwTxQ' = Tail(hwTxQ)
      BY <2>3 DEF HwTransmit
    <3>3. Rng(hwTxQ) \subseteq Rng(hwTxQ') \cup {Head(hwTxQ)}
      BY <3>1, <3>2, TailRange
    <3>4. TxSentOrQueued'
      BY <3>2, <3>3 DEF TxInv, TxSentOrQueued, TypeOK
    <3>5. TxIomemSent'
      BY <3>2 DEF TxInv, TxIomemSent, TypeOK
    <3>. QED
      BY <3>4, <3>5 DEF TxInv
  <2>4. CASE XmitRaw \/ StackXmit
    BY <2>0, <2>4 DEF XmitRaw, StackXmit
  <2>5. CASE LinkUpDone \/ poll_rx \/ poll_tx \/ poll_tx_wake
    BY <2>0, <2>5 DEF LinkUpDone, poll_rx, poll_tx, poll_tx_wake
  <2>6. ASSUME NEW c \in Ctx, XmitInc(c) \/ XmitStop(c) PROVE TxInv'
    BY <2>0, <2>6 DEF XmitInc, XmitStop
  <2>7. CASE ccat_eth_open \/ ccat_eth_stop \/ CancelDone \/ HwLinkChange
             \/ HwReceive
    BY <2>0, <2>7
       DEF ccat_eth_open, ccat_eth_stop, CancelDone, HwLinkChange, HwReceive
  <2>8. CASE UNCHANGED vars
    BY <2>0, <2>8 DEF vars
  <2>. QED
    BY <2>1, <2>2, <2>3, <2>4, <2>5, <2>6, <2>7, <2>8
    DEF Next, PollStep, XmitStep
<1>3. TxInv => TxSentOrQueued
  BY DEF TxInv
<1>. QED
  BY <1>1, <1>2, <1>3, TypeCorrect, PTL DEF Spec

=============================================================================
