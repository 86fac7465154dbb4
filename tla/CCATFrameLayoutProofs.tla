----------------------- MODULE CCATFrameLayoutProofs -----------------------
(***************************************************************************)
(* Proofs about the reset walk of ccat_eth_fifo_reset, for every ring the *)
(* init functions can build: every window size the iomem function block   *)
(* may report and the DMA ring.                                           *)
(***************************************************************************)
EXTENDS CCATFrameLayout, FiniteSetTheorems, TLAPS

(* The last slot of the ring being reset.                                 *)
Last == LastSlot(ring.end)

(* The inductive invariant of the do-while loop: after steps iterations   *)
(* add has been called on slots 0 .. steps - 1, and the cursor is on slot *)
(* steps, or back on virt once every slot has been visited.               *)
WalkInv ==
  /\ TypeOK
  /\ steps \in 0 .. Last + 1
  /\ added = 0 .. steps - 1
  /\ next = IF steps = Last + 1 THEN 0 ELSE steps

(***************************************************************************)
(* Ring arithmetic.                                                       *)
(***************************************************************************)
(* Every ring the init functions build ends at an integer byte offset.   *)
LEMMA RingEndInt ==
  ASSUME NEW r \in Rings
  PROVE  r.end \in Int
BY LayoutAssumption DEF Rings, DmaEnd, FIFO_LENGTH, NodmaRxEnd, NodmaTxEnd,
                        FrameSize

(* Every ring has a last slot, at or after slot 0.                        *)
LEMMA LastSlotNat ==
  ASSUME NEW e \in Int
  PROVE  LastSlot(e) \in Nat
BY DEF LastSlot, FrameSize

(* ccat_eth_fifo_inc moves the cursor to the next slot, and from the last *)
(* slot back to virt.                                                     *)
LEMMA FifoIncStep ==
  ASSUME NEW e \in Int, NEW k \in 0 .. LastSlot(e)
  PROVE  ccat_eth_fifo_inc(k, e) = IF k = LastSlot(e) THEN 0 ELSE k + 1
<1>1. CASE e < 0
  BY <1>1 DEF ccat_eth_fifo_inc, LastSlot, FrameSize
<1>2. CASE e >= 0
  <2>1. /\ LastSlot(e) = e \div 2048
        /\ e \div 2048 \in Nat
        /\ (e \div 2048) * 2048 <= e
        /\ e < (e \div 2048 + 1) * 2048
    BY <1>2 DEF LastSlot, FrameSize
  <2>2. CASE k = e \div 2048
    BY <2>1, <2>2 DEF ccat_eth_fifo_inc, FrameSize
  <2>3. CASE k < e \div 2048
    <3>1. (k + 1) * 2048 <= (e \div 2048) * 2048
      BY <2>1, <2>3
    <3>. QED
      BY <2>1, <2>3, <3>1 DEF ccat_eth_fifo_inc, FrameSize
  <2>. QED
    BY <2>1, <2>2, <2>3
<1>. QED
  BY <1>1, <1>2

(***************************************************************************)
(* The walk.                                                              *)
(***************************************************************************)
LEMMA WalkInvariant == Spec => []WalkInv
<1>1. Init => WalkInv
  <2>. SUFFICES ASSUME Init PROVE WalkInv
    OBVIOUS
  <2>1. ring.end \in Int
    BY RingEndInt DEF Init
  <2>2. Last \in Nat
    BY <2>1, LastSlotNat DEF Last
  <2>. QED
    BY <2>2 DEF Init, WalkInv, TypeOK, Last
<1>2. WalkInv /\ [Next]_vars => WalkInv'
  <2>. SUFFICES ASSUME WalkInv, [Next]_vars PROVE WalkInv'
    OBVIOUS
  <2>1. ring.end \in Int /\ Last \in Nat
    BY RingEndInt, LastSlotNat DEF WalkInv, TypeOK, Last
  <2>2. CASE ResetIteration
    <3>1. steps \in 0 .. Last /\ next = steps
      BY <2>1, <2>2 DEF ResetIteration, WalkInv
    <3>2. next' = IF steps = Last THEN 0 ELSE steps + 1
      BY <2>1, <2>2, <3>1, FifoIncStep DEF ResetIteration, WalkInv, TypeOK,
                                          Last
    <3>3. /\ steps' = steps + 1 /\ added' = added \cup {steps}
          /\ ring' = ring /\ len' = len
      BY <2>2, <3>1 DEF ResetIteration
    <3>4. added' = 0 .. steps
      BY <3>1, <3>3 DEF WalkInv
    <3>. QED
      BY <2>1, <3>1, <3>2, <3>3, <3>4 DEF WalkInv, TypeOK, Last
  <2>3. CASE UNCHANGED vars
    BY <2>3 DEF vars, WalkInv, TypeOK, Last
  <2>. QED
    BY <2>2, <2>3 DEF Next
<1>. QED
  BY <1>1, <1>2, PTL DEF Spec

(* Every state of the reset walk is well typed, for every ring.           *)
THEOREM LayoutTypeCorrect == Spec => []TypeOK
<1>1. WalkInv => TypeOK
  BY DEF WalkInv
<1>. QED
  BY <1>1, WalkInvariant, PTL

(* ccat_eth_fifo_reset calls fifo->add exactly once on every slot of the  *)
(* ring, whatever window size the iomem function block reports and for    *)
(* the DMA ring: when the do-while loop returns to virt, the slots added  *)
(* are 0 .. LastSlot(end) and the loop ran once per slot.                 *)
THEOREM ResetArmsEachSlotOnceProved == Spec => []ResetArmsEachSlotOnce
<1>1. WalkInv => ResetArmsEachSlotOnce
  <2>. SUFFICES ASSUME WalkInv, LoopReturned
                PROVE  /\ added = 0 .. LastSlot(ring.end)
                       /\ steps = Cardinality(added)
    BY DEF ResetArmsEachSlotOnce
  <2>1. Last \in Nat
    BY RingEndInt, LastSlotNat DEF WalkInv, TypeOK, Last
  <2>2. steps = Last + 1
    BY <2>1 DEF WalkInv, LoopReturned
  <2>3. added = 0 .. Last
    BY <2>1, <2>2 DEF WalkInv
  <2>4. Cardinality(0 .. Last) = Last + 1
    BY <2>1, FS_Interval
  <2>. QED
    BY <2>2, <2>3, <2>4 DEF Last
<1>. QED
  BY <1>1, WalkInvariant, PTL

=============================================================================
