---------------------- MODULE CCATEthRefinementProofs ----------------------
(***************************************************************************)
(* Proof that the rx ring of the driver model implements a FrameChannel   *)
(* (RxRefinesChannel), for every ring size and either backend.            *)
(*                                                                         *)
(* The argument rests on the shape of the ring: the slots the CCAT holds   *)
(* (hwRxQ) are the ring read on from the last received slot after next,   *)
(* so the received slots are the RxRingSize - Len(hwRxQ) slots from next  *)
(* on.  poll_rx moves the slot at next to the back of hwRxQ and advances  *)
(* next; the CCAT fills the slot at the front; the reset re-arms all.     *)
(***************************************************************************)
EXTENDS CCATEthRefinement, CCATEthProofs

(* hwRxQ lists the ring in order, starting RxRingSize - Len(hwRxQ) slots  *)
(* after rx_fifo.next.                                                    *)
RxShape ==
  /\ Len(hwRxQ) \in 0 .. RxRingSize
  /\ \A j \in 1 .. Len(hwRxQ) :
       hwRxQ[j] = RxRingPos(rxNext + RxRingSize - Len(hwRxQ) + j - 1)

(***************************************************************************)
(* Ring arithmetic.                                                       *)
(***************************************************************************)

(* The rx ring has at least one slot.                                     *)
LEMMA RingSizePositive ==
  /\ RxRingSize \in Nat \ {0}
  /\ RxSlots = 0 .. RxRingSize - 1
BY EndAssumption DEF RxRingSize, RxSlots, LastSlot, FrameSize

(* Within one turn of the ring, RxRingPos names a slot of the ring.       *)
LEMMA RingPosInSlots ==
  ASSUME NEW k \in 0 .. 2 * RxRingSize - 1
  PROVE  RxRingPos(k) \in RxSlots
BY RingSizePositive DEF RxRingPos

(* Two positions less than a turn apart name different slots.            *)
LEMMA RingPosInjective ==
  ASSUME NEW a \in 0 .. 2 * RxRingSize - 1, NEW b \in 0 .. 2 * RxRingSize - 1,
         a < b, b - a < RxRingSize
  PROVE  RxRingPos(a) # RxRingPos(b)
BY RingSizePositive DEF RxRingPos

(* The wrap test of ccat_eth_fifo_inc fires exactly on the last slot of  *)
(* a ring whose end lies in slot L.                                       *)
LEMMA WrapTest ==
  ASSUME NEW E \in Int, NEW L \in Nat, L * 2048 <= E, E < (L + 1) * 2048,
         NEW k \in 0 .. L
  PROVE  ((k + 1) * 2048 > E) <=> (k = L)
<1>1. CASE k = L
  BY <1>1
<1>2. CASE k < L
  <2>1. (k + 1) * 2048 <= L * 2048
    BY <1>2
  <2>. QED
    BY <1>2, <2>1
<1>. QED
  BY <1>1, <1>2

(* ccat_eth_fifo_inc steps the cursor to the next position of the ring.   *)
LEMMA FifoIncRingPos ==
  ASSUME NEW k \in RxSlots
  PROVE  ccat_eth_fifo_inc(k, RxEnd) = RxRingPos(k + 1)
<1>1. CASE RxEnd < 0
  BY <1>1, EndAssumption
  DEF ccat_eth_fifo_inc, RxRingPos, RxRingSize, RxSlots, LastSlot, FrameSize
<1>2. CASE RxEnd >= 0
  <2>1. /\ LastSlot(RxEnd) = RxEnd \div 2048
        /\ RxEnd \div 2048 \in Nat
        /\ (RxEnd \div 2048) * 2048 <= RxEnd
        /\ RxEnd < (RxEnd \div 2048 + 1) * 2048
    BY <1>2, EndAssumption DEF LastSlot, FrameSize
  <2>2. k \in 0 .. RxEnd \div 2048
    BY <2>1 DEF RxSlots
  <2>3. ((k + 1) * 2048 > RxEnd) <=> (k = RxEnd \div 2048)
    <3>1. RxEnd \in Int
      BY EndAssumption
    <3>. QED
      BY <3>1, <2>1, <2>2, WrapTest
  <2>. QED
    BY <2>1, <2>2, <2>3 DEF ccat_eth_fifo_inc, RxRingPos, RxRingSize, FrameSize
<1>. QED
  BY <1>1, <1>2, EndAssumption

(* The walk of ccat_eth_fifo_reset arms the whole ring, slot 0 first.     *)
LEMMA ArmAllShape ==
  /\ Len(ArmAll) = RxRingSize
  /\ \A j \in 1 .. RxRingSize : ArmAll[j] = j - 1
BY RingSizePositive DEF ArmAll, RxRingSize

(* When the slot at next is not armed, the CCAT does not hold the whole  *)
(* ring: a full hwRxQ starts at next.                                     *)
LEMMA RxRingNotFull ==
  ASSUME TypeOK, RxShape, rxNext \notin Rng(hwRxQ)
  PROVE  Len(hwRxQ) < RxRingSize
<1>. SUFFICES ASSUME Len(hwRxQ) = RxRingSize PROVE FALSE
  BY RingSizePositive DEF RxShape
<1>1. RxRingSize \in Nat \ {0} /\ rxNext \in 0 .. RxRingSize - 1
  BY RingSizePositive DEF TypeOK
<1>2. hwRxQ[1] = rxNext
  BY <1>1 DEF RxShape, RxRingPos
<1>3. 1 \in DOMAIN hwRxQ
  BY <1>1 DEF TypeOK
<1>. QED
  BY <1>2, <1>3 DEF Rng

(* The channel contents for a cursor nx, an armed fifo q and payloads d; *)
(* RxPending is PendingOf(rxNext, hwRxQ, rxData).                         *)
PendingOf(nx, q, d) ==
  [i \in 1 .. RxRingSize - Len(q) |-> d[RxRingPos(nx + i - 1)]]

(* For any cursor, armed fifo and payloads of the ring, the channel holds *)
(* a sequence of RxRingSize - Len(q) frames.                              *)
LEMMA PendingIsSeq ==
  ASSUME NEW nx \in RxSlots, NEW q \in Seq(RxSlots), Len(q) <= RxRingSize,
         NEW d \in [RxSlots -> Nat]
  PROVE  /\ PendingOf(nx, q, d) \in Seq(Nat)
         /\ Len(PendingOf(nx, q, d)) = RxRingSize - Len(q)
<1>. DEFINE p == PendingOf(nx, q, d)
<1>1. RxRingSize - Len(q) \in Nat
  BY RingSizePositive, LenProperties
<1>2. \A i \in 1 .. RxRingSize - Len(q) : RxRingPos(nx + i - 1) \in RxSlots
  BY RingSizePositive, LenProperties DEF RxRingPos
<1>3. p \in [1 .. RxRingSize - Len(q) -> Nat]
  BY <1>2 DEF PendingOf
<1>4. p \in Seq(Nat)
  <2>1. p \in UNION {[1 .. n -> Nat] : n \in Nat}
    BY <1>1, <1>3, Zenon
  <2>. QED
    BY <2>1, SeqDef, Zenon
<1>5. Len(p) = RxRingSize - Len(q)
  BY <1>1, <1>3, <1>4, LenProperties
<1>. QED
  BY <1>4, <1>5

(***************************************************************************)
(* The shape of the rx ring.                                              *)
(***************************************************************************)
(* The slots the CCAT holds follow the received ones around the ring:     *)
(* ccat_eth_fifo_reset arms the ring from virt, poll_rx re-arms the slot  *)
(* at next behind the others before ccat_eth_fifo_inc, and the CCAT fills *)
(* the slot it has held longest.  Inductive relative to TypeOK and RxInv. *)
THEOREM RxShapeInvariant == Spec => []RxShape
<1>. USE EndAssumption, LengthAssumption, BoundAssumption, BackendAssumption
<1>1. Init => RxShape
  BY ArmAllShape, RingSizePositive DEF Init, RxShape, RxRingPos
<1>2. TypeOK /\ RxInv /\ RxShape /\ [Next]_vars => RxShape'
  <2>. SUFFICES ASSUME TypeOK, RxInv, RxShape, [Next]_vars
                PROVE  RxShape'
    OBVIOUS
  <2>. USE DEF hwVars, netVars, rxVars, txVars
  <2>. DEFINE N == RxRingSize
  <2>. N \in Nat \ {0} /\ RxSlots = 0 .. N - 1
    BY RingSizePositive
  <2>. rxNext \in 0 .. N - 1 /\ hwRxQ \in Seq(RxSlots)
    BY RingSizePositive DEF TypeOK
  <2>0. CASE UNCHANGED <<hwRxQ, rxNext>>
    BY <2>0 DEF RxShape
  <2>1. CASE poll_link
    <3>1. CASE link /\ ~carrier
      <4>1. hwRxQ' = ArmAll /\ rxNext' = 0
        BY <2>1, <3>1 DEF poll_link, ResetRx
      <4>. QED
        BY <4>1, ArmAllShape DEF RxShape, RxRingPos
    <3>2. CASE ~(link /\ ~carrier)
      BY <2>0, <2>1, <3>2 DEF poll_link
    <3>. QED
      BY <3>1, <3>2
  <2>2. CASE poll_rx
    <3>1. CASE rx_ready = 0
      BY <2>0, <2>2, <3>1 DEF poll_rx
    <3>2. CASE rx_ready # 0
      <4>1. /\ hwRxQ' = Append(hwRxQ, rxNext)
            /\ rxNext' = ccat_eth_fifo_inc(rxNext, RxEnd)
        BY <2>2, <3>2 DEF poll_rx, ccat_eth_receive
      <4>2. rxNext \notin Rng(hwRxQ)
        BY <3>2, RxReadyReceived DEF RxInv, RxOwnership, TypeOK
      <4>3. Len(hwRxQ) < N
        BY <4>2, RxRingNotFull
      <4>4. rxNext' = RxRingPos(rxNext + 1)
        BY <4>1, FifoIncRingPos
      <4>5. /\ Len(hwRxQ') = Len(hwRxQ) + 1
            /\ \A j \in 1 .. Len(hwRxQ) : hwRxQ'[j] = hwRxQ[j]
            /\ hwRxQ'[Len(hwRxQ) + 1] = rxNext
        BY <4>1, AppendProperties
      <4>6. Len(hwRxQ') \in 0 .. N
        BY <4>3, <4>5
      <4>7. ASSUME NEW j \in 1 .. Len(hwRxQ)
            PROVE  hwRxQ'[j] = RxRingPos(rxNext' + N - Len(hwRxQ') + j - 1)
        <5>1. hwRxQ'[j] = RxRingPos(rxNext + N - Len(hwRxQ) + j - 1)
          BY <4>5 DEF RxShape
        <5>. QED
          BY <5>1, <4>3, <4>4, <4>5 DEF RxRingPos
      <4>8. hwRxQ'[Len(hwRxQ')] = RxRingPos(rxNext' + N - 1)
        BY <4>4, <4>5 DEF RxRingPos
      <4>9. \A j \in 1 .. Len(hwRxQ') :
              hwRxQ'[j] = RxRingPos(rxNext' + N - Len(hwRxQ') + j - 1)
        <5>. TAKE j \in 1 .. Len(hwRxQ')
        <5>1. Len(hwRxQ) \in Nat
          BY LenProperties
        <5>2. CASE j \in 1 .. Len(hwRxQ)
          BY <5>2, <4>7
        <5>3. CASE j = Len(hwRxQ')
          BY <5>1, <5>3, <4>4, <4>5, <4>8 DEF RxRingPos
        <5>. QED
          BY <5>1, <5>2, <5>3, <4>5
      <4>. QED
        BY <4>6, <4>9 DEF RxShape
    <3>. QED
      BY <3>1, <3>2
  <2>3. CASE HwReceive
    <3>1. hwRxQ # <<>> /\ hwRxQ' = Tail(hwRxQ) /\ rxNext' = rxNext
      BY <2>3 DEF HwReceive
    <3>2. /\ Len(hwRxQ') = Len(hwRxQ) - 1
          /\ \A j \in 1 .. Len(hwRxQ') : hwRxQ'[j] = hwRxQ[j + 1]
      BY <3>1, HeadTailProperties
    <3>3. Len(hwRxQ) \in 1 .. N
      BY <3>1, EmptySeq DEF RxShape
    <3>. QED
      BY <3>1, <3>2, <3>3 DEF RxShape
  <2>4. CASE XmitRaw \/ LinkUpDone \/ poll_tx \/ poll_tx_wake \/ StackXmit
    BY <2>0, <2>4 DEF XmitRaw, LinkUpDone, poll_tx, poll_tx_wake, StackXmit
  <2>5. CASE \E c \in Ctx : XmitStep(c)
    BY <2>0, <2>5 DEF XmitStep, XmitQueue, queue_skb, XmitInc, XmitStop
  <2>6. CASE ccat_eth_open \/ ccat_eth_stop \/ CancelDone \/ HwLinkChange
             \/ HwTransmit
    BY <2>0, <2>6
       DEF ccat_eth_open, ccat_eth_stop, CancelDone, HwLinkChange, HwTransmit
  <2>7. CASE UNCHANGED vars
    BY <2>0, <2>7 DEF vars
  <2>. QED
    BY <2>1, <2>2, <2>3, <2>4, <2>5, <2>6, <2>7 DEF Next, PollStep
<1>. QED
  BY <1>1, <1>2, TypeCorrect, RxInvariant, PTL DEF Spec

(***************************************************************************)
(* The refinement.                                                        *)
(***************************************************************************)
(* The rx ring implements a FIFO channel from the CCAT to netif_rx: every *)
(* step of the driver model is a step of FrameChannel under the mapping   *)
(* RxPending, or leaves the channel unchanged.  The CCAT's reception is   *)
(* Arrive, poll_rx's netif_rx and rx_dropped are Deliver and Discard, and *)
(* the link-up ccat_eth_fifo_reset is Flush.                              *)
THEOREM RxRefinement == Spec => RxRefinesChannel
<1>. USE EndAssumption, LengthAssumption, BoundAssumption, BackendAssumption
<1>. DEFINE N == RxRingSize
<1>0. N \in Nat \ {0} /\ RxSlots = 0 .. N - 1
  BY RingSizePositive
<1>1. Init => RxChannel!Init
  <2>. SUFFICES ASSUME Init PROVE RxChannel!Init
    OBVIOUS
  <2>1. Len(hwRxQ) = N
    BY ArmAllShape DEF Init
  <2>2. RxPending = <<>>
    BY <1>0, <2>1 DEF RxPending
  <2>. QED
    BY <2>2 DEF Init, RxChannel!Init
<1>2. TypeOK /\ RxInv /\ RxShape /\ TypeOK' /\ RxShape' /\ [Next]_vars
        => [RxChannel!Next]_RxChannel!vars
  <2>. SUFFICES ASSUME TypeOK, RxInv, RxShape, TypeOK', RxShape', [Next]_vars
                PROVE  [RxChannel!Next]_RxChannel!vars
    OBVIOUS
  <2>. USE DEF hwVars, netVars, rxVars, txVars
  <2>a. /\ rxNext \in RxSlots /\ hwRxQ \in Seq(RxSlots)
        /\ rxData \in [RxSlots -> Nat] /\ Len(hwRxQ) \in 0 .. N
        /\ rxNext' \in RxSlots /\ hwRxQ' \in Seq(RxSlots)
        /\ rxData' \in [RxSlots -> Nat] /\ Len(hwRxQ') \in 0 .. N
    <3>1. rxNext \in RxSlots /\ hwRxQ \in Seq(RxSlots)
          /\ rxData \in [RxSlots -> Nat]
      BY DEF TypeOK
    <3>2. rxNext' \in RxSlots /\ hwRxQ' \in Seq(RxSlots)
          /\ rxData' \in [RxSlots -> Nat]
      BY DEF TypeOK
    <3>3. Len(hwRxQ) \in 0 .. N /\ Len(hwRxQ') \in 0 .. N
      BY DEF RxShape
    <3>. QED
      BY <3>1, <3>2, <3>3
  <2>n. /\ N \in Nat \ {0} /\ rxNext \in 0 .. N - 1
        /\ Len(hwRxQ) \in 0 .. N /\ Len(hwRxQ') \in 0 .. N
    BY <1>0, <2>a
  <2>b. RxPending \in Seq(Nat) /\ Len(RxPending) = N - Len(hwRxQ)
    <3>1. RxPending = PendingOf(rxNext, hwRxQ, rxData)
      BY DEF RxPending, RxSlotAfter, PendingOf
    <3>. QED
      BY <2>a, <3>1, PendingIsSeq
  <2>c. RxPending' \in Seq(Nat) /\ Len(RxPending') = N - Len(hwRxQ')
    <3>1. RxPending' = PendingOf(rxNext', hwRxQ', rxData')
      BY DEF RxPending, RxSlotAfter, PendingOf
    <3>. QED
      BY <2>a, <3>1, PendingIsSeq
  <2>0. CASE UNCHANGED <<rxNext, rxData, hwRxQ, rxFrames, rxDelivered,
                         rxDropped>>
    <3>1. RxPending' = RxPending
      BY <2>0 DEF RxPending, RxSlotAfter
    <3>. QED
      BY <2>0, <3>1 DEF RxChannel!vars
  <2>1. CASE poll_link
    <3>1. CASE link /\ ~carrier
      <4>1. /\ hwRxQ' = ArmAll
            /\ UNCHANGED <<rxFrames, rxDelivered, rxDropped>>
        BY <2>1, <3>1 DEF poll_link, ResetRx
      <4>2. RxPending' = <<>>
        <5>1. Len(RxPending') = 0
          BY <2>c, <4>1, ArmAllShape
        <5>. QED
          BY <2>c, <5>1, EmptySeq, SeqEqual
      <4>. QED
        BY <4>1, <4>2 DEF RxChannel!Next, RxChannel!Flush
    <3>2. CASE ~(link /\ ~carrier)
      BY <2>0, <2>1, <3>2 DEF poll_link
    <3>. QED
      BY <3>1, <3>2
  <2>2. CASE poll_rx
    <3>1. CASE rx_ready = 0
      BY <2>0, <2>2, <3>1 DEF poll_rx
    <3>2. CASE rx_ready # 0
      <4>1. /\ ccat_eth_receive(rx_ready)
            /\ hwRxQ' = Append(hwRxQ, rxNext)
            /\ rxNext' = ccat_eth_fifo_inc(rxNext, RxEnd)
            /\ UNCHANGED <<rxData, rxFrames>>
        BY <2>2, <3>2 DEF poll_rx
      <4>2. Len(hwRxQ) < N
        BY <3>2, RxReadyReceived, RxRingNotFull
        DEF RxInv, RxOwnership, TypeOK
      <4>3. rxNext' = RxRingPos(rxNext + 1)
        BY <2>a, <4>1, FifoIncRingPos
      <4>4. Len(hwRxQ') = Len(hwRxQ) + 1
        BY <2>a, <4>1, AppendProperties
      <4>5. RxPending # <<>> /\ Head(RxPending) = rxData[rxNext]
        <5>1. Len(RxPending) >= 1
          BY <2>n, <2>b, <4>2
        <5>2. RxPending[1] = rxData[rxNext]
          BY <1>0, <2>a, <5>1 DEF RxPending, RxSlotAfter, RxRingPos
        <5>. QED
          BY <2>b, <5>1, <5>2
      <4>6. RxPending' = Tail(RxPending)
        <5>1. /\ Tail(RxPending) \in Seq(Nat)
              /\ Len(Tail(RxPending)) = Len(RxPending) - 1
              /\ \A i \in 1 .. Len(Tail(RxPending)) :
                   Tail(RxPending)[i] = RxPending[i + 1]
          BY <2>b, <4>5, HeadTailProperties
        <5>2. Len(RxPending') = Len(Tail(RxPending))
          BY <2>n, <2>b, <2>c, <4>4, <5>1
        <5>3. \A i \in 1 .. Len(RxPending') : RxPending'[i] = Tail(RxPending)[i]
          <6>. TAKE i \in 1 .. Len(RxPending')
          <6>1. i \in 1 .. N - Len(hwRxQ) - 1
            BY <2>n, <2>c, <4>4
          <6>2. i \in 1 .. N - Len(hwRxQ')
            BY <2>n, <4>4, <6>1
          <6>3. RxPending'[i] = rxData[RxRingPos(rxNext' + i - 1)]
            BY <4>1, <6>2 DEF RxPending, RxSlotAfter
          <6>4. RxRingPos(rxNext' + i - 1) = RxRingPos(rxNext + i)
            BY <2>n, <4>3, <6>1 DEF RxRingPos
          <6>5. Tail(RxPending)[i] = RxPending[i + 1]
            BY <5>1, <5>2
          <6>6. RxPending[i + 1] = rxData[RxRingPos(rxNext + i)]
            BY <2>n, <6>1 DEF RxPending, RxSlotAfter
          <6>. QED
            BY <6>3, <6>4, <6>5, <6>6
        <5>. QED
          BY <2>c, <5>1, <5>2, <5>3, SeqEqual
      <4>7. CASE /\ rxDelivered' = Append(rxDelivered, rxData[rxNext])
                 /\ UNCHANGED rxDropped
        BY <4>1, <4>5, <4>6, <4>7 DEF RxChannel!Next, RxChannel!Deliver
      <4>8. CASE /\ rxDropped' = rxDropped + 1
                 /\ UNCHANGED rxDelivered
        BY <4>1, <4>5, <4>6, <4>8 DEF RxChannel!Next, RxChannel!Discard
      <4>. QED
        BY <4>1, <4>7, <4>8 DEF ccat_eth_receive
    <3>. QED
      BY <3>1, <3>2
  <2>3. CASE HwReceive
    <3>1. hwRxQ # <<>>
      BY <2>3 DEF HwReceive
    <3>2. PICK len \in RxLengths :
            /\ rxData' = [rxData EXCEPT ![Head(hwRxQ)] = rxFrames + 1]
            /\ hwRxQ' = Tail(hwRxQ)
            /\ rxFrames' = rxFrames + 1
      BY <2>3 DEF HwReceive
    <3>3. UNCHANGED <<rxNext, rxDelivered, rxDropped>>
      BY <2>3 DEF HwReceive
    <3>4. /\ Len(hwRxQ) \in 1 .. N
          /\ Len(hwRxQ') = Len(hwRxQ) - 1
          /\ Head(hwRxQ) = RxRingPos(rxNext + N - Len(hwRxQ))
          /\ Head(hwRxQ) \in RxSlots
      <4>1. Len(hwRxQ) \in Nat \ {0}
        BY <2>a, <3>1, EmptySeq
      <4>2. Len(hwRxQ') = Len(hwRxQ) - 1 /\ Head(hwRxQ) \in RxSlots
        BY <2>a, <3>1, <3>2, HeadTailProperties
      <4>3. hwRxQ[1] = RxRingPos(rxNext + N - Len(hwRxQ))
        BY <1>0, <2>a, <4>1 DEF RxShape
      <4>4. Head(hwRxQ) = hwRxQ[1]
        OBVIOUS
      <4>. QED
        BY <2>a, <4>1, <4>2, <4>3, <4>4
    <3>L. Len(hwRxQ) \in 1 .. N /\ Len(hwRxQ') = Len(hwRxQ) - 1
      BY <3>4
    <3>5. /\ Append(RxPending, rxFrames + 1) \in Seq(Nat)
          /\ Len(Append(RxPending, rxFrames + 1)) = Len(RxPending) + 1
          /\ \A i \in 1 .. Len(RxPending) :
               Append(RxPending, rxFrames + 1)[i] = RxPending[i]
          /\ Append(RxPending, rxFrames + 1)[Len(RxPending) + 1] = rxFrames + 1
      <4>1. rxFrames \in Nat
        BY DEF TypeOK
      <4>. QED
        BY <2>b, <4>1, AppendProperties
    <3>6. \A i \in 1 .. Len(RxPending') :
            RxPending'[i] = Append(RxPending, rxFrames + 1)[i]
      <4>. TAKE i \in 1 .. Len(RxPending')
      <4>r. i \in 1 .. N - Len(hwRxQ')
        BY <2>c
      <4>i. i \in 1 .. N - Len(hwRxQ) + 1
        BY <1>0, <2>a, <3>L, <4>r
      <4>0. RxPending'[i] = rxData'[RxRingPos(rxNext + i - 1)]
        <5>1. RxPending'[i] = rxData'[RxRingPos(rxNext' + i - 1)]
          BY <4>r DEF RxPending, RxSlotAfter
        <5>. QED
          BY <3>3, <5>1
      <4>1. CASE i \in 1 .. N - Len(hwRxQ)
        <5>1. rxNext + i - 1 \in 0 .. 2 * N - 1
          BY <1>0, <2>a, <4>1
        <5>2. RxRingPos(rxNext + i - 1) \in RxSlots
          BY <5>1, RingPosInSlots
        <5>3. RxRingPos(rxNext + i - 1) # Head(hwRxQ)
          <6>1. rxNext + N - Len(hwRxQ) \in 0 .. 2 * N - 1
            BY <2>n, <3>L
          <6>2. /\ rxNext + i - 1 < rxNext + N - Len(hwRxQ)
                /\ (rxNext + N - Len(hwRxQ)) - (rxNext + i - 1) < N
            BY <2>n, <3>L, <4>1
          <6>. QED
            BY <3>4, <5>1, <6>1, <6>2, RingPosInjective
        <5>4. rxData'[RxRingPos(rxNext + i - 1)] = rxData[RxRingPos(rxNext + i - 1)]
          BY <2>a, <3>2, <5>2, <5>3
        <5>5. RxPending[i] = rxData[RxRingPos(rxNext + i - 1)]
          BY <4>1 DEF RxPending, RxSlotAfter
        <5>6. Append(RxPending, rxFrames + 1)[i] = RxPending[i]
          BY <2>b, <3>5, <4>1
        <5>. QED
          BY <4>0, <5>4, <5>5, <5>6
      <4>2. CASE i = N - Len(hwRxQ) + 1
        <5>1. RxRingPos(rxNext + i - 1) = Head(hwRxQ)
          <6>1. rxNext + i - 1 = rxNext + N - Len(hwRxQ)
            BY <1>0, <2>a, <3>L, <4>2
          <6>. QED
            BY <3>4, <6>1
        <5>2. rxData'[Head(hwRxQ)] = rxFrames + 1
          BY <2>a, <3>2, <3>4
        <5>3. Append(RxPending, rxFrames + 1)[i] = rxFrames + 1
          BY <2>b, <3>5, <4>2
        <5>. QED
          BY <4>0, <5>1, <5>2, <5>3
      <4>3. i \in 1 .. N - Len(hwRxQ) \/ i = N - Len(hwRxQ) + 1
        BY <2>n, <3>L, <4>i
      <4>. QED
        BY <4>1, <4>2, <4>3
    <3>7. RxPending' = Append(RxPending, rxFrames + 1)
      <4>1. Len(RxPending') = Len(Append(RxPending, rxFrames + 1))
        BY <1>0, <2>a, <2>b, <2>c, <3>L, <3>5
      <4>. QED
        BY <2>c, <3>5, <3>6, <4>1, SeqEqual
    <3>. QED
      BY <3>2, <3>3, <3>7 DEF RxChannel!Next, RxChannel!Arrive
  <2>4. CASE XmitRaw \/ LinkUpDone \/ poll_tx \/ poll_tx_wake \/ StackXmit
    BY <2>0, <2>4 DEF XmitRaw, LinkUpDone, poll_tx, poll_tx_wake, StackXmit
  <2>5. CASE \E c \in Ctx : XmitStep(c)
    BY <2>0, <2>5 DEF XmitStep, XmitQueue, queue_skb, XmitInc, XmitStop
  <2>6. CASE ccat_eth_open \/ ccat_eth_stop \/ CancelDone \/ HwLinkChange
             \/ HwTransmit
    BY <2>0, <2>6
       DEF ccat_eth_open, ccat_eth_stop, CancelDone, HwLinkChange, HwTransmit
  <2>7. CASE UNCHANGED vars
    BY <2>0, <2>7 DEF vars
  <2>. QED
    BY <2>1, <2>2, <2>3, <2>4, <2>5, <2>6, <2>7 DEF Next, PollStep
<1>. QED
  BY <1>1, <1>2, TypeCorrect, RxInvariant, RxShapeInvariant, PTL
  DEF Spec, RxRefinesChannel, RxChannel!Spec

(***************************************************************************)
(* Where received frames may be lost.                                     *)
(***************************************************************************)
(* A frame leaves the rx ring without reaching netif_rx or rx_dropped     *)
(* only at the link-up reset of poll_link (RxLostOnlyAtReset), for every  *)
(* ring size and either backend: poll_rx counts every frame it takes in   *)
(* one of the two, the CCAT's reception lengthens RxPending, and every    *)
(* other step leaves the ring alone.                                      *)
THEOREM RxLostOnlyAtResetProved == Spec => RxLostOnlyAtReset
<1>. USE EndAssumption, LengthAssumption, BoundAssumption, BackendAssumption
<1>. DEFINE N == RxRingSize
<1>0. N \in Nat \ {0} /\ RxSlots = 0 .. N - 1
  BY RingSizePositive
<1>1. TypeOK /\ RxShape /\ TypeOK' /\ RxShape' /\ [Next]_vars
        => [(/\ RxPending' # RxPending
             /\ Len(RxPending') <= Len(RxPending)
             /\ rxDelivered' = rxDelivered /\ rxDropped' = rxDropped)
            => (pollPc = "timer" /\ pollPc' = "raw")]_vars
  <2>. SUFFICES ASSUME TypeOK, RxShape, TypeOK', RxShape', [Next]_vars,
                       RxPending' # RxPending,
                       Len(RxPending') <= Len(RxPending),
                       rxDelivered' = rxDelivered, rxDropped' = rxDropped
                PROVE  pollPc = "timer" /\ pollPc' = "raw"
    OBVIOUS
  <2>. USE DEF hwVars, netVars, rxVars, txVars
  <2>a. /\ rxNext \in RxSlots /\ hwRxQ \in Seq(RxSlots)
        /\ rxData \in [RxSlots -> Nat]
        /\ rxNext' \in RxSlots /\ hwRxQ' \in Seq(RxSlots)
        /\ rxData' \in [RxSlots -> Nat]
        /\ Len(hwRxQ) \in 0 .. N /\ Len(hwRxQ') \in 0 .. N
        /\ rxDelivered \in Seq(Nat) /\ rxDropped \in Nat
    BY DEF TypeOK, RxShape
  <2>b. Len(RxPending) = N - Len(hwRxQ) /\ Len(RxPending') = N - Len(hwRxQ')
    <3>1. /\ RxPending = PendingOf(rxNext, hwRxQ, rxData)
          /\ RxPending' = PendingOf(rxNext', hwRxQ', rxData')
      BY DEF RxPending, RxSlotAfter, PendingOf
    <3>. QED
      BY <2>a, <3>1, PendingIsSeq
  <2>0. ~UNCHANGED <<rxNext, rxData, hwRxQ>>
    <3>. SUFFICES ASSUME UNCHANGED <<rxNext, rxData, hwRxQ>> PROVE FALSE
      OBVIOUS
    <3>. RxPending' = RxPending
      BY DEF RxPending, RxSlotAfter
    <3>. QED
      OBVIOUS
  <2>1. CASE poll_link
    <3>1. CASE link /\ ~carrier
      BY <2>1, <3>1 DEF poll_link
    <3>2. CASE ~(link /\ ~carrier)
      BY <2>0, <2>1, <3>2 DEF poll_link
    <3>. QED
      BY <3>1, <3>2
  <2>2. CASE poll_rx
    <3>1. CASE rx_ready = 0
      BY <2>0, <2>2, <3>1 DEF poll_rx
    <3>2. CASE rx_ready # 0
      <4>1. ccat_eth_receive(rx_ready)
        BY <2>2, <3>2 DEF poll_rx
      <4>2. Append(rxDelivered, rxData[rxNext]) # rxDelivered
        <5>1. Len(Append(rxDelivered, rxData[rxNext])) = Len(rxDelivered) + 1
          BY <2>a, AppendProperties
        <5>2. Len(rxDelivered) \in Nat
          BY <2>a, LenProperties
        <5>. QED
          BY <5>1, <5>2
      <4>3. rxDropped + 1 # rxDropped
        BY <2>a
      <4>. QED
        BY <4>1, <4>2, <4>3 DEF ccat_eth_receive
    <3>. QED
      BY <3>1, <3>2
  <2>3. CASE HwReceive
    <3>1. hwRxQ # <<>> /\ hwRxQ' = Tail(hwRxQ)
      BY <2>3 DEF HwReceive
    <3>2. Len(hwRxQ) \in Nat \ {0} /\ Len(hwRxQ') = Len(hwRxQ) - 1
      BY <2>a, <3>1, EmptySeq, HeadTailProperties
    <3>. QED
      BY <1>0, <2>a, <2>b, <3>2
  <2>4. CASE XmitRaw \/ LinkUpDone \/ poll_tx \/ poll_tx_wake \/ StackXmit
    BY <2>0, <2>4 DEF XmitRaw, LinkUpDone, poll_tx, poll_tx_wake, StackXmit
  <2>5. CASE \E c \in Ctx : XmitStep(c)
    BY <2>0, <2>5 DEF XmitStep, XmitQueue, queue_skb, XmitInc, XmitStop
  <2>6. CASE ccat_eth_open \/ ccat_eth_stop \/ CancelDone \/ HwLinkChange
             \/ HwTransmit
    BY <2>0, <2>6
       DEF ccat_eth_open, ccat_eth_stop, CancelDone, HwLinkChange, HwTransmit
  <2>7. CASE UNCHANGED vars
    BY <2>0, <2>7 DEF vars
  <2>. QED
    BY <2>1, <2>2, <2>3, <2>4, <2>5, <2>6, <2>7 DEF Next, PollStep
<1>. QED
  BY <1>1, TypeCorrect, RxShapeInvariant, PTL DEF Spec, RxLostOnlyAtReset

(***************************************************************************)
(* Order of reception, from the channel.                                  *)
(***************************************************************************)
RxChannelProofs == INSTANCE FrameChannelProofs
                     WITH arrived <- rxFrames, queue <- RxPending,
                          out <- rxDelivered, lost <- rxDropped

(* poll_rx hands received payloads to netif_rx once each and in arrival  *)
(* order (RxInOrder), for every ring size and either backend: the rx ring *)
(* is a FrameChannel, and a FrameChannel hands frames on in order.        *)
THEOREM RxDeliveryOrdered == Spec => []RxInOrder
<1>1. RxRefinesChannel => RxChannelProofs!Spec
  BY DEF RxRefinesChannel, RxChannel!Spec, RxChannelProofs!Spec,
         RxChannel!Init, RxChannelProofs!Init, RxChannel!Next,
         RxChannelProofs!Next, RxChannel!vars, RxChannelProofs!vars,
         RxChannel!Arrive, RxChannelProofs!Arrive, RxChannel!Deliver,
         RxChannelProofs!Deliver, RxChannel!Discard, RxChannelProofs!Discard,
         RxChannel!Flush, RxChannelProofs!Flush
<1>2. RxChannelProofs!OutInOrder <=> RxInOrder
  BY DEF RxChannelProofs!OutInOrder, RxInOrder, Increasing
<1>. QED
  BY RxRefinement, RxChannelProofs!ChannelInOrder, <1>1, <1>2, PTL

=============================================================================
