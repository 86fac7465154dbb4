-------------------------- MODULE CCATEthTxProofs --------------------------
(***************************************************************************)
(* Proofs about the transmit path of the driver model: the level of the   *)
(* iomem CCAT tx fifo stays below the 0x3F mask of fifo_iomem_tx_ready,   *)
(* for every ring size and every bound on the stack, the link and the     *)
(* CCAT.                                                                  *)
(***************************************************************************)
EXTENDS CCATEthProofs, CCATEthRefinement

(* Context c is between its tx_ready check and fifo->queue_skb: it has    *)
(* seen an empty fifo and will publish one frame.                         *)
Queued(c) == xpc[c] = "queue"

(* The inductive strengthening of TxFifoLevelBounded.  Each context that  *)
(* passed fifo_iomem_tx_ready saw a level of zero and owes one frame; a   *)
(* context only passes the check while the level reads zero, so the level *)
(* plus the frames owed never exceeds the number of contexts.             *)
TxLevelInv ==
  Backend = "iomem" =>
    /\ Len(hwTxQ) <= 2
    /\ \A c \in Ctx : Queued(c) => Len(hwTxQ) <= 1
    /\ (\A c \in Ctx : Queued(c)) => Len(hwTxQ) = 0

(***************************************************************************)
(* One writer at a time.  The stack enters ccat_eth_start_xmit only with  *)
(* the carrier on, and xmit_raw runs only inside ccat_eth_link_up, before *)
(* netif_carrier_on.  With at most one link change there is at most one   *)
(* link-up, so the two never overlap (dma_flap_double_publish shows the   *)
(* overlap a second link-up allows).                                      *)
(***************************************************************************)
(* The poll callback is inside ccat_eth_link_up.                          *)
LinkUpPcs == {"raw", "xmit", "up"}

(* Context c is inside ccat_eth_start_xmit.                               *)
Busy(c) == xpc[c] # "idle"

(* No further link-up can come: the link is up and the carrier on, or the *)
(* link is down for good.                                                 *)
LinkSettled ==
  /\ carrier \/ ~link
  /\ ~link => linkChanges = MaxLinkChanges

(* The invariant that keeps the writers apart.                            *)
WriterInv ==
  /\ pollPc \in LinkUpPcs => ~carrier
  /\ (carrier \/ pollPc \in LinkUpPcs) => (link \/ linkChanges = MaxLinkChanges)
  /\ Busy("poll") <=> pollPc = "xmit"
  /\ Busy("stack") => LinkSettled /\ pollPc \notin LinkUpPcs

(* A slot queued in the CCAT tx fifo is queued once and, with the DMA     *)
(* backend, has CCAT_FRAME_SENT clear; a context about to call            *)
(* fifo->queue_skb writes a slot the CCAT does not hold.                  *)
TxSlotInv ==
  /\ NoDup(hwTxQ)
  /\ Backend = "dma" => \A s \in Rng(hwTxQ) : ~txSent[s]
  /\ \A c \in Ctx : Queued(c) => txNext \notin Rng(hwTxQ)

(***************************************************************************)
(* Lemmas about the level.                                                *)
(***************************************************************************)
(* Arithmetic on levels, stated over naturals so that the provers need    *)
(* not reason about Len.                                                   *)
LEMMA LevelBelow ==
  ASSUME NEW n \in Nat, NEW m \in Nat, m <= n
  PROVE  /\ n <= 2 => m <= 2
         /\ n <= 1 => m <= 1
         /\ n = 0 => m = 0
OBVIOUS

(* Below the mask, a level reads as zero only when it is zero.            *)
LEMMA LevelMask ==
  ASSUME NEW n \in Nat, n <= 2
  PROVE  n % 64 = 0 <=> n = 0
OBVIOUS

(* One more frame in the fifo.                                            *)
LEMMA LevelAppend ==
  ASSUME NEW n \in Nat
  PROVE  /\ n <= 1 => n + 1 <= 2
         /\ n = 0 => n + 1 <= 1
OBVIOUS

(* A step that does not raise the level and lets no context newly pass    *)
(* the tx_ready check keeps the strengthening.                            *)
LEMMA LevelMonotone ==
  ASSUME TypeOK, TypeOK', TxLevelInv,
         Len(hwTxQ') <= Len(hwTxQ),
         \A c \in Ctx : Queued(c)' => Queued(c)
  PROVE  TxLevelInv'
<1>1. Len(hwTxQ) \in Nat /\ Len(hwTxQ') \in Nat
  BY LenProperties DEF TypeOK
<1>2. /\ Len(hwTxQ) <= 2 => Len(hwTxQ') <= 2
      /\ Len(hwTxQ) <= 1 => Len(hwTxQ') <= 1
      /\ Len(hwTxQ) = 0 => Len(hwTxQ') = 0
  BY <1>1, LevelBelow
<1>. QED
  BY <1>2 DEF TxLevelInv

(* With the fifo empty the strengthening holds whatever the contexts do.  *)
LEMMA LevelEmpty ==
  ASSUME hwTxQ' = <<>>
  PROVE  TxLevelInv'
BY DEF TxLevelInv

(* Under iomem, tx_ready holds exactly when the fifo is empty, as long as *)
(* the level stays below the 0x3F mask.                                    *)
LEMMA ReadyIsEmpty ==
  ASSUME TypeOK, TxLevelInv, Backend = "iomem"
  PROVE  tx_ready <=> hwTxQ = <<>>
<1>1. Len(hwTxQ) \in Nat /\ Len(hwTxQ) <= 2
  <2>1. Len(hwTxQ) \in Nat
    BY LenProperties DEF TypeOK
  <2>2. Len(hwTxQ) <= 2
    BY Zenon DEF TxLevelInv
  <2>. QED
    BY <2>1, <2>2
<1>2. tx_ready <=> Len(hwTxQ) % 64 = 0
  BY DEF tx_ready, fifo_iomem_tx_ready
<1>3. Len(hwTxQ) % 64 = 0 <=> Len(hwTxQ) = 0
  BY <1>1, LevelMask
<1>4. Len(hwTxQ) = 0 <=> hwTxQ = <<>>
  BY EmptySeq DEF TypeOK
<1>. QED
  BY <1>2, <1>3, <1>4

(* The tx_ready check, from the stack or from xmit_raw, keeps the         *)
(* strengthening: the BUSY path only sends the context back to idle, and  *)
(* a context passes only while the fifo is empty.                          *)
LEMMA XmitCheckLevel ==
  ASSUME TypeOK, TypeOK', TxLevelInv, Backend = "iomem",
         NEW c \in Ctx, NEW len, XmitCheck(c, len), hwTxQ' = hwTxQ
  PROVE  TxLevelInv'
<1>1. CASE ~tx_ready
  <2>1. xpc' = [xpc EXCEPT ![c] = "idle"]
    BY <1>1 DEF XmitCheck, Return
  <2>2. \A d \in Ctx : Queued(d)' => Queued(d)
    BY <2>1 DEF Queued, TypeOK
  <2>. QED
    BY <2>2, LevelMonotone
<1>2. CASE tx_ready
  BY <1>2, ReadyIsEmpty, LevelEmpty
<1>. QED
  BY <1>1, <1>2

(***************************************************************************)
(* The level bound.                                                       *)
(***************************************************************************)
LEMMA TxLevelInvariant == Spec => []TxLevelInv
<1>. USE EndAssumption, LengthAssumption, BoundAssumption, BackendAssumption
<1>1. Init => TxLevelInv
  BY DEF Init, TxLevelInv
<1>2. TypeOK /\ TypeOK' /\ TxLevelInv /\ [Next]_vars => TxLevelInv'
  <2>. SUFFICES ASSUME TypeOK, TypeOK', TxLevelInv, [Next]_vars,
                       Backend = "iomem"
                PROVE  TxLevelInv'
    BY DEF TxLevelInv
  <2>. USE DEF hwVars, netVars, rxVars, txVars
  <2>0. CASE UNCHANGED <<hwTxQ, xpc>>
    BY <2>0, LevelMonotone DEF Queued
  <2>1. CASE poll_link
    <3>1. CASE link /\ ~carrier
      BY <2>1, <3>1, LevelEmpty DEF poll_link, ResetTx
    <3>2. CASE ~(link /\ ~carrier)
      BY <2>0, <2>1, <3>2 DEF poll_link
    <3>. QED
      BY <3>1, <3>2
  <2>2. CASE XmitRaw
    BY <2>2, XmitCheckLevel DEF XmitRaw, Ctx
  <2>3. CASE StackXmit
    <3>1. PICK len \in TxLengths, nonlinear \in BOOLEAN :
            \/ /\ nonlinear \/ len > MaxPayloadSize
               /\ UNCHANGED xpc
            \/ XmitCheck("stack", len)
      BY <2>3 DEF StackXmit
    <3>2. hwTxQ' = hwTxQ
      BY <2>3 DEF StackXmit
    <3>. QED
      BY <3>1, <3>2, <2>0, XmitCheckLevel DEF Ctx
  <2>4. ASSUME NEW c \in Ctx, XmitQueue(c) PROVE TxLevelInv'
    <3>1. Queued(c) /\ hwTxQ' = Append(hwTxQ, txNext)
          /\ xpc' = [xpc EXCEPT ![c] = "inc"]
      BY <2>4 DEF XmitQueue, queue_skb, Queued
    <3>2. Len(hwTxQ') = Len(hwTxQ) + 1 /\ Len(hwTxQ) \in Nat
      BY <3>1, AppendProperties, LenProperties DEF TypeOK
    <3>3. ~Queued(c)' /\ \A d \in Ctx \ {c} : Queued(d)' = Queued(d)
      BY <3>1 DEF Queued, TypeOK
    <3>4. Len(hwTxQ) <= 1
      BY <3>1 DEF TxLevelInv
    <3>5. (\E d \in Ctx \ {c} : Queued(d)) => Len(hwTxQ) = 0
      BY <3>1 DEF TxLevelInv, Ctx
    <3>6. Len(hwTxQ') <= 2 /\ ((\E d \in Ctx \ {c} : Queued(d)) => Len(hwTxQ') <= 1)
      BY <3>2, <3>4, <3>5, LevelAppend
    <3>. QED
      BY <3>3, <3>6 DEF TxLevelInv, Ctx
  <2>5. ASSUME NEW c \in Ctx, XmitInc(c) \/ XmitStop(c) PROVE TxLevelInv'
    <3>1. hwTxQ' = hwTxQ /\ xpc' = [xpc EXCEPT ![c] = IF XmitInc(c) THEN "stop"
                                                        ELSE "idle"]
      BY <2>5 DEF XmitInc, XmitStop, Return
    <3>2. \A d \in Ctx : Queued(d)' => Queued(d)
      BY <3>1 DEF Queued, TypeOK
    <3>. QED
      BY <3>1, <3>2, LevelMonotone
  <2>6. CASE HwTransmit
    <3>1. hwTxQ # <<>> /\ hwTxQ' = Tail(hwTxQ) /\ UNCHANGED xpc
      BY <2>6 DEF HwTransmit
    <3>2. Len(hwTxQ') <= Len(hwTxQ)
      BY <3>1, HeadTailProperties DEF TypeOK
    <3>. QED
      BY <3>1, <3>2, LevelMonotone DEF Queued
  <2>7. CASE LinkUpDone \/ poll_rx \/ poll_tx \/ poll_tx_wake \/ ccat_eth_open
             \/ ccat_eth_stop \/ CancelDone \/ HwLinkChange \/ HwReceive
    BY <2>0, <2>7 DEF LinkUpDone, poll_rx, poll_tx, poll_tx_wake, ccat_eth_open,
                      ccat_eth_stop, CancelDone, HwLinkChange, HwReceive
  <2>8. CASE UNCHANGED vars
    BY <2>0, <2>8 DEF vars
  <2>. QED
    BY <2>1, <2>2, <2>3, <2>4, <2>5, <2>6, <2>7, <2>8
    DEF Next, PollStep, XmitStep
<1>. QED
  BY <1>1, <1>2, TypeCorrect, PTL DEF Spec

(* With the iomem backend the CCAT tx fifo never holds more than two      *)
(* frames, one per context that can call ccat_eth_start_xmit (the stack   *)
(* and xmit_raw from the poll timer), whatever the ring size, the link    *)
(* flaps and the stack's calls: the level that fifo_iomem_tx_ready masks  *)
(* with 0x3F never reaches 64 and never wraps to read as empty.           *)
THEOREM TxFifoLevel == Backend = "iomem" => (Spec => []TxFifoLevelBounded)
<1>. SUFFICES ASSUME Backend = "iomem" PROVE Spec => []TxFifoLevelBounded
  OBVIOUS
<1>1. TxLevelInv => TxFifoLevelBounded
  BY DEF TxLevelInv, TxFifoLevelBounded
<1>. QED
  BY <1>1, TxLevelInvariant, PTL

(***************************************************************************)
(* One writer at a time, with at most one link change.                    *)
(***************************************************************************)
LEMMA WriterInvariant == MaxLinkChanges <= 1 => (Spec => []WriterInv)
<1>. SUFFICES ASSUME MaxLinkChanges <= 1 PROVE Spec => []WriterInv
  OBVIOUS
<1>. USE EndAssumption, LengthAssumption, BoundAssumption, BackendAssumption
<1>1. Init => WriterInv
  BY DEF Init, WriterInv, Busy, LinkUpPcs, Ctx
<1>2. TypeOK /\ WriterInv /\ [Next]_vars => WriterInv'
  <2>. SUFFICES ASSUME TypeOK, WriterInv, [Next]_vars PROVE WriterInv'
    OBVIOUS
  <2>. USE DEF hwVars, netVars, rxVars, txVars
  <2>t. link \in BOOLEAN /\ carrier \in BOOLEAN
    BY DEF TypeOK
  <2>0. CASE UNCHANGED <<link, linkChanges, carrier, pollPc, xpc>>
    BY <2>0 DEF WriterInv, LinkSettled, Busy
  <2>1. CASE poll_link
    <3>1. pollPc = "timer" /\ UNCHANGED <<link, linkChanges, xpc>>
      BY <2>1 DEF poll_link
    <3>2. ~Busy("poll")
      BY <3>1 DEF WriterInv
    <3>3. CASE link /\ ~carrier
      <4>0. pollPc' = "raw" /\ carrier' = carrier
        BY <2>1, <2>t, <3>3 DEF poll_link
      <4>1. pollPc' = "raw" /\ ~carrier'
        BY <4>0, <3>3
      <4>2. ~Busy("stack")
        BY <3>3 DEF WriterInv, LinkSettled
      <4>. QED
        BY <3>1, <3>2, <3>3, <4>1, <4>2 DEF WriterInv, Busy, LinkUpPcs
    <3>4. CASE ~link /\ carrier
      <4>1. pollPc' = "rx" /\ ~carrier'
        BY <2>1, <2>t, <3>4 DEF poll_link
      <4>. QED
        BY <3>1, <3>2, <3>4, <4>1 DEF WriterInv, Busy, LinkUpPcs, LinkSettled
    <3>5. CASE link = carrier
      <4>1. pollPc' = "rx" /\ carrier' = carrier
        BY <2>1, <2>t, <3>5 DEF poll_link
      <4>. QED
        BY <3>1, <3>2, <4>1 DEF WriterInv, Busy, LinkUpPcs, LinkSettled
    <3>. QED
      BY <3>3, <3>4, <3>5 DEF TypeOK
  <2>2. CASE XmitRaw
    <3>1. pollPc = "raw" /\ XmitCheck("poll", RawLen)
          /\ UNCHANGED <<link, linkChanges, carrier>>
      BY <2>2 DEF XmitRaw
    <3>2. ~Busy("stack") /\ ~carrier
      BY <3>1 DEF WriterInv, LinkUpPcs
    <3>3. xpc'["stack"] = xpc["stack"]
      BY <3>1 DEF XmitCheck, Return, TypeOK, Ctx
    <3>4. \/ pollPc' = "up" /\ xpc'["poll"] = "idle"
          \/ pollPc' = "xmit" /\ xpc'["poll"] = "queue"
      BY <3>1 DEF XmitCheck, Return, TypeOK, Ctx
    <3>. QED
      BY <3>1, <3>2, <3>3, <3>4 DEF WriterInv, Busy, LinkUpPcs
  <2>3. CASE LinkUpDone
    <3>1. pollPc = "up" /\ pollPc' = "rx" /\ carrier' = TRUE
          /\ UNCHANGED <<link, linkChanges, xpc>>
      BY <2>3 DEF LinkUpDone
    <3>2. ~Busy("stack") /\ ~Busy("poll") /\ (link \/ linkChanges = MaxLinkChanges)
      BY <3>1 DEF WriterInv, LinkUpPcs
    <3>. QED
      BY <3>1, <3>2 DEF WriterInv, Busy, LinkUpPcs
  <2>4. CASE poll_rx \/ poll_tx \/ poll_tx_wake
    <3>1. pollPc \in {"rx", "tx", "wake"} /\ pollPc' \in {"rx", "tx", "wake", "timer"}
          /\ UNCHANGED <<link, linkChanges, carrier, xpc>>
      BY <2>4 DEF poll_rx, poll_tx, poll_tx_wake
    <3>. QED
      BY <3>1 DEF WriterInv, Busy, LinkUpPcs, LinkSettled
  <2>5. CASE StackXmit
    <3>1. carrier /\ xpc["stack"] = "idle"
          /\ UNCHANGED <<link, linkChanges, carrier>>
      BY <2>5 DEF StackXmit
    <3>2. pollPc \notin LinkUpPcs /\ ~Busy("poll") /\ LinkSettled
      BY <3>1 DEF WriterInv, LinkSettled, LinkUpPcs
    <3>3. /\ pollPc' = pollPc
          /\ xpc'["poll"] = xpc["poll"]
      BY <2>5 DEF StackXmit, XmitCheck, Return, TypeOK, Ctx
    <3>. QED
      BY <3>1, <3>2, <3>3 DEF WriterInv, Busy, LinkSettled
  <2>6. ASSUME NEW c \in Ctx, XmitQueue(c) \/ XmitInc(c) PROVE WriterInv'
    <3>1. xpc[c] # "idle" /\ xpc'[c] # "idle"
          /\ \A d \in Ctx \ {c} : xpc'[d] = xpc[d]
      BY <2>6 DEF XmitQueue, XmitInc, TypeOK
    <3>2. UNCHANGED <<link, linkChanges, carrier, pollPc>>
      BY <2>6 DEF XmitQueue, XmitInc
    <3>. QED
      BY <3>1, <3>2 DEF WriterInv, Busy, LinkSettled, Ctx
  <2>7. ASSUME NEW c \in Ctx, XmitStop(c) PROVE WriterInv'
    <3>1. /\ xpc[c] = "stop" /\ xpc' = [xpc EXCEPT ![c] = "idle"]
          /\ pollPc' = IF c = "poll" THEN "up" ELSE pollPc
          /\ UNCHANGED <<link, linkChanges, carrier>>
      BY <2>7 DEF XmitStop, Return
    <3>2. CASE c = "poll"
      <4>1. pollPc = "xmit" /\ ~Busy("stack") /\ ~carrier
            /\ (link \/ linkChanges = MaxLinkChanges)
        BY <3>1, <3>2 DEF WriterInv, Busy, LinkUpPcs
      <4>. QED
        BY <3>1, <3>2, <4>1 DEF WriterInv, Busy, LinkUpPcs, TypeOK, Ctx
    <3>3. CASE c = "stack"
      BY <3>1, <3>3 DEF WriterInv, Busy, LinkSettled, TypeOK, Ctx
    <3>. QED
      BY <3>2, <3>3 DEF Ctx
  <2>8. CASE HwLinkChange
    <3>1. linkChanges < MaxLinkChanges /\ link' = ~link
          /\ linkChanges' = linkChanges + 1
          /\ UNCHANGED <<carrier, pollPc, xpc>>
      BY <2>8 DEF HwLinkChange
    <3>2. linkChanges' = MaxLinkChanges
      BY <3>1 DEF TypeOK
    <3>. QED
      BY <3>1, <3>2 DEF WriterInv, LinkSettled, Busy
  <2>9. CASE ccat_eth_open \/ ccat_eth_stop \/ CancelDone \/ HwReceive
             \/ HwTransmit \/ UNCHANGED vars
    BY <2>0, <2>9 DEF ccat_eth_open, ccat_eth_stop, CancelDone, HwReceive,
                      HwTransmit, vars
  <2>. QED
    BY <2>1, <2>2, <2>3, <2>4, <2>5, <2>6, <2>7, <2>8, <2>9
    DEF Next, PollStep, XmitStep
<1>. QED
  BY <1>1, <1>2, TypeCorrect, PTL DEF Spec

(* The two contexts are never inside ccat_eth_start_xmit together.       *)
LEMMA SingleWriter ==
  ASSUME WriterInv
  PROVE  ~(Busy("stack") /\ Busy("poll"))
BY DEF WriterInv, LinkUpPcs

(* A context that passes the tx_ready check writes a slot the CCAT does   *)
(* not hold: with DMA the slot has CCAT_FRAME_SENT, so it is not queued;  *)
(* with iomem the whole fifo is empty.                                    *)
LEMMA ReadySlotFree ==
  ASSUME TypeOK, TxLevelInv, TxSlotInv, tx_ready
  PROVE  txNext \notin Rng(hwTxQ)
<1>1. CASE Backend = "dma"
  BY <1>1 DEF tx_ready, fifo_dma_tx_ready, TxSlotInv
<1>2. CASE Backend = "iomem"
  <2>1. hwTxQ = <<>>
    BY <1>2, ReadyIsEmpty
  <2>. QED
    BY <2>1 DEF Rng
<1>. QED
  BY <1>1, <1>2, BackendAssumption

LEMMA TxSlotInvariant == MaxLinkChanges <= 1 => (Spec => []TxSlotInv)
<1>. SUFFICES ASSUME MaxLinkChanges <= 1 PROVE Spec => []TxSlotInv
  OBVIOUS
<1>. USE EndAssumption, LengthAssumption, BoundAssumption, BackendAssumption
<1>1. Init => TxSlotInv
  BY DEF Init, TxSlotInv, NoDup, Rng, Queued
<1>2. TypeOK /\ WriterInv /\ TxLevelInv /\ TxSlotInv /\ [Next]_vars
        => TxSlotInv'
  <2>. SUFFICES ASSUME TypeOK, WriterInv, TxLevelInv, TxSlotInv, [Next]_vars
                PROVE  TxSlotInv'
    OBVIOUS
  <2>. USE DEF hwVars, netVars, rxVars, txVars
  <2>s. ~(Busy("stack") /\ Busy("poll"))
    BY SingleWriter
  <2>0. ASSUME UNCHANGED <<hwTxQ, txSent, txNext>>,
               \A c \in Ctx : Queued(c)' => Queued(c)
        PROVE  TxSlotInv'
    BY <2>0 DEF TxSlotInv
  <2>e. ASSUME hwTxQ' = <<>> PROVE TxSlotInv'
    BY <2>e DEF TxSlotInv, NoDup, Rng
  <2>1. CASE poll_link
    <3>1. CASE link /\ ~carrier
      BY <2>1, <3>1, <2>e DEF poll_link, ResetTx
    <3>2. CASE ~(link /\ ~carrier)
      BY <2>1, <3>2, <2>0 DEF poll_link, Queued
    <3>. QED
      BY <3>1, <3>2
  <2>x. ASSUME NEW c \in Ctx, NEW len, XmitCheck(c, len),
               UNCHANGED <<hwTxQ, txSent, txNext>>
        PROVE  TxSlotInv'
    <3>1. CASE ~tx_ready
      <4>1. xpc' = [xpc EXCEPT ![c] = "idle"]
        BY <2>x, <3>1 DEF XmitCheck, Return
      <4>. QED
        BY <2>x, <4>1, <2>0 DEF Queued, TypeOK
    <3>2. CASE tx_ready
      <4>1. xpc' = [xpc EXCEPT ![c] = "queue"]
        BY <2>x, <3>2 DEF XmitCheck
      <4>2. txNext \notin Rng(hwTxQ)
        BY <3>2, ReadySlotFree
      <4>. QED
        BY <2>x, <4>1, <4>2 DEF TxSlotInv, Queued, TypeOK
    <3>. QED
      BY <3>1, <3>2
  <2>2. CASE XmitRaw
    BY <2>2, <2>x DEF XmitRaw, Ctx
  <2>3. CASE StackXmit
    <3>1. PICK len \in TxLengths, nonlinear \in BOOLEAN :
            \/ UNCHANGED xpc
            \/ XmitCheck("stack", len)
      BY <2>3 DEF StackXmit
    <3>2. UNCHANGED <<hwTxQ, txSent, txNext>>
      BY <2>3 DEF StackXmit
    <3>. QED
      BY <3>1, <3>2, <2>0, <2>x DEF Ctx, Queued
  <2>4. ASSUME NEW c \in Ctx, XmitQueue(c) PROVE TxSlotInv'
    <3>1. /\ Queued(c) /\ xpc' = [xpc EXCEPT ![c] = "inc"]
          /\ hwTxQ' = Append(hwTxQ, txNext)
          /\ txSent' = IF Backend = "dma"
                       THEN [txSent EXCEPT ![txNext] = FALSE] ELSE txSent
          /\ txNext' = txNext
      BY <2>4 DEF XmitQueue, queue_skb, Queued
    <3>2. txNext \notin Rng(hwTxQ) /\ hwTxQ \in Seq(TxSlots)
          /\ txNext \in TxSlots
      BY <3>1 DEF TxSlotInv, TypeOK
    <3>3. NoDup(hwTxQ') /\ Rng(hwTxQ') = Rng(hwTxQ) \cup {txNext}
      BY <3>1, <3>2, NoDupAppend DEF TxSlotInv
    <3>4. Backend = "dma" => \A s \in Rng(hwTxQ') : ~txSent'[s]
      BY <3>1, <3>2, <3>3 DEF TxSlotInv, TypeOK
    <3>5. \A d \in Ctx : ~Queued(d)'
      <4>1. ~Queued(c)'
        BY <3>1 DEF Queued, TypeOK
      <4>2. \A d \in Ctx \ {c} : ~Queued(d)
        BY <2>s, <3>1 DEF Busy, Queued, Ctx
      <4>. QED
        BY <3>1, <4>1, <4>2 DEF Queued, TypeOK
    <3>. QED
      BY <3>3, <3>4, <3>5 DEF TxSlotInv
  <2>5. ASSUME NEW c \in Ctx, XmitInc(c) PROVE TxSlotInv'
    <3>1. /\ xpc[c] = "inc" /\ xpc' = [xpc EXCEPT ![c] = "stop"]
          /\ UNCHANGED <<hwTxQ, txSent>>
      BY <2>5 DEF XmitInc
    <3>2. \A d \in Ctx : ~Queued(d)'
      <4>1. \A d \in Ctx \ {c} : ~Queued(d)
        BY <2>s, <3>1 DEF Busy, Queued, Ctx
      <4>. QED
        BY <3>1, <4>1 DEF Queued, TypeOK
    <3>. QED
      BY <3>1, <3>2 DEF TxSlotInv
  <2>6. ASSUME NEW c \in Ctx, XmitStop(c) PROVE TxSlotInv'
    <3>1. xpc' = [xpc EXCEPT ![c] = "idle"] /\ UNCHANGED <<hwTxQ, txSent, txNext>>
      BY <2>6 DEF XmitStop, Return
    <3>. QED
      BY <3>1, <2>0 DEF Queued, TypeOK
  <2>7. CASE HwTransmit
    <3>1. /\ hwTxQ # <<>> /\ hwTxQ \in Seq(TxSlots)
          /\ hwTxQ' = Tail(hwTxQ)
          /\ txSent' = [txSent EXCEPT ![Head(hwTxQ)] = TRUE]
          /\ UNCHANGED <<txNext, xpc>>
      BY <2>7 DEF HwTransmit, TypeOK
    <3>2. NoDup(hwTxQ') /\ Rng(hwTxQ') = Rng(hwTxQ) \ {Head(hwTxQ)}
      BY <3>1, NoDupTail DEF TxSlotInv
    <3>3. Backend = "dma" => \A s \in Rng(hwTxQ') : ~txSent'[s]
      BY <3>1, <3>2 DEF TxSlotInv, TypeOK
    <3>. QED
      BY <3>1, <3>2, <3>3 DEF TxSlotInv, Queued
  <2>8. CASE LinkUpDone \/ poll_rx \/ poll_tx \/ poll_tx_wake \/ ccat_eth_open
             \/ ccat_eth_stop \/ CancelDone \/ HwLinkChange \/ HwReceive
             \/ UNCHANGED vars
    BY <2>8, <2>0 DEF LinkUpDone, poll_rx, poll_tx, poll_tx_wake, ccat_eth_open,
                      ccat_eth_stop, CancelDone, HwLinkChange, HwReceive,
                      vars, Queued
  <2>. QED
    BY <2>1, <2>2, <2>3, <2>4, <2>5, <2>6, <2>7, <2>8
    DEF Next, PollStep, XmitStep
<1>. QED
  BY <1>1, <1>2, TypeCorrect, WriterInvariant, TxLevelInvariant, PTL DEF Spec

(***************************************************************************)
(* Exclusive tx ownership.                                                *)
(***************************************************************************)
(* With at most one link change, every tx slot is owned by exactly one    *)
(* side (TxOwnership): the CCAT's tx fifo holds each slot at most once,   *)
(* and under DMA a slot is SENT exactly when the CCAT does not hold it.   *)
(* "Not SENT means queued" holds for any number of link changes           *)
(* (TxSentOrQueuedInvariant); the rest is TxSlotInv, which needs the      *)
(* single writer.  With more link changes finding 4 queues a slot twice.  *)
THEOREM TxOwnershipProved == MaxLinkChanges <= 1 => (Spec => []TxOwnership)
<1>. SUFFICES ASSUME MaxLinkChanges <= 1 PROVE Spec => []TxOwnership
  OBVIOUS
<1>1. TypeOK /\ TxSentOrQueued /\ TxSlotInv => TxOwnership
  BY DEF TypeOK, TxSentOrQueued, TxSlotInv, TxOwnership
<1>. QED
  BY <1>1, TypeCorrect, TxSentOrQueuedInvariant, TxSlotInvariant, PTL

(***************************************************************************)
(* The tx ring is a FrameChannel, with at most one link change.           *)
(***************************************************************************)
(* The payloads of the slots of fifo q, in fifo order.                    *)
QueuedOf(q, d) == [i \in 1 .. Len(q) |-> d[q[i]]]

(* The payloads queued in a fifo of tx slots form a sequence as long as   *)
(* the fifo.                                                              *)
LEMMA QueuedOfSeq ==
  ASSUME NEW q \in Seq(TxSlots), NEW d \in [TxSlots -> Nat]
  PROVE  /\ QueuedOf(q, d) \in Seq(Nat)
         /\ Len(QueuedOf(q, d)) = Len(q)
         /\ \A i \in 1 .. Len(q) : QueuedOf(q, d)[i] = d[q[i]]
<1>1. Len(q) \in Nat /\ \A i \in 1 .. Len(q) : q[i] \in TxSlots
  BY LenProperties
<1>2. QueuedOf(q, d) \in [1 .. Len(q) -> Nat]
  BY <1>1 DEF QueuedOf
<1>. QED
  BY <1>1, <1>2, LenProperties DEF QueuedOf

(* An empty fifo queues nothing.                                          *)
LEMMA QueuedOfEmpty ==
  ASSUME NEW d \in [TxSlots -> Nat]
  PROVE  QueuedOf(<<>>, d) = <<>>
BY DEF QueuedOf

(* Writing payload v into a free slot s and appending s to the fifo       *)
(* appends v to the payloads queued: the write touches no queued slot.    *)
LEMMA QueuedOfAppend ==
  ASSUME NEW q \in Seq(TxSlots), NEW d \in [TxSlots -> Nat],
         NEW s \in TxSlots, NEW v \in Nat, s \notin Rng(q)
  PROVE  QueuedOf(Append(q, s), [d EXCEPT ![s] = v])
           = Append(QueuedOf(q, d), v)
<1>. DEFINE n == Len(q)
            d2 == [d EXCEPT ![s] = v]
            lhs == QueuedOf(Append(q, s), d2)
            rhs == Append(QueuedOf(q, d), v)
<1>1. n \in Nat /\ \A i \in 1 .. n : q[i] \in TxSlots /\ q[i] # s
  BY LenProperties DEF Rng
<1>2. /\ Append(q, s) \in Seq(TxSlots)
      /\ Len(Append(q, s)) = n + 1
      /\ \A i \in 1 .. n : Append(q, s)[i] = q[i]
      /\ Append(q, s)[n + 1] = s
  BY AppendProperties
<1>3. /\ QueuedOf(q, d) \in Seq(Nat)
      /\ Len(QueuedOf(q, d)) = n
      /\ \A i \in 1 .. n : QueuedOf(q, d)[i] = d[q[i]]
  BY QueuedOfSeq
<1>4. /\ lhs \in Seq(Nat)
      /\ Len(lhs) = n + 1
      /\ \A i \in 1 .. n + 1 : lhs[i] = d2[Append(q, s)[i]]
  <2>1. d2 \in [TxSlots -> Nat]
    OBVIOUS
  <2>2. /\ QueuedOf(Append(q, s), d2) \in Seq(Nat)
        /\ Len(QueuedOf(Append(q, s), d2)) = Len(Append(q, s))
        /\ \A i \in 1 .. Len(Append(q, s)) :
             QueuedOf(Append(q, s), d2)[i] = d2[Append(q, s)[i]]
    <3>. HIDE DEF d2
    <3>. QED
      BY <1>2, <2>1, QueuedOfSeq
  <2>. QED
    BY <1>2, <2>2
<1>5. /\ rhs \in Seq(Nat)
      /\ Len(rhs) = n + 1
      /\ \A i \in 1 .. n : rhs[i] = d[q[i]]
      /\ rhs[n + 1] = v
  BY <1>1, <1>3, AppendProperties
<1>6. /\ d2[s] = v
      /\ \A i \in 1 .. n : d2[q[i]] = d[q[i]]
  BY <1>1
<1>. HIDE DEF lhs, rhs, d2
<1>7. \A i \in 1 .. n + 1 : lhs[i] = rhs[i]
  <2>. SUFFICES ASSUME NEW i \in 1 .. n + 1 PROVE lhs[i] = rhs[i]
    OBVIOUS
  <2>1. CASE i \in 1 .. n
    BY <1>2, <1>4, <1>5, <1>6, <2>1
  <2>2. CASE i = n + 1
    BY <1>2, <1>4, <1>5, <1>6, <2>2
  <2>. QED
    BY <1>1, <2>1, <2>2
<1>. HIDE DEF n
<1>. QED
  BY <1>4, <1>5, <1>7, SeqEqual DEF lhs, rhs, d2

(* Transmitting the head slot of a non-empty fifo removes the head of the *)
(* payloads queued, and sends that head.                                  *)
LEMMA QueuedOfTail ==
  ASSUME NEW q \in Seq(TxSlots), NEW d \in [TxSlots -> Nat], q # <<>>
  PROVE  /\ QueuedOf(q, d) # <<>>
         /\ Head(QueuedOf(q, d)) = d[Head(q)]
         /\ QueuedOf(Tail(q), d) = Tail(QueuedOf(q, d))
<1>. DEFINE n == Len(q)
            lhs == QueuedOf(Tail(q), d)
            rhs == Tail(QueuedOf(q, d))
<1>1. n \in Nat \ {0} /\ \A i \in 1 .. n : q[i] \in TxSlots
  BY LenProperties, EmptySeq
<1>2. /\ Tail(q) \in Seq(TxSlots)
      /\ Len(Tail(q)) = n - 1
      /\ \A i \in 1 .. n - 1 : Tail(q)[i] = q[i + 1]
      /\ Head(q) = q[1]
  BY <1>1, HeadTailProperties
<1>3. /\ QueuedOf(q, d) \in Seq(Nat)
      /\ Len(QueuedOf(q, d)) = n
      /\ \A i \in 1 .. n : QueuedOf(q, d)[i] = d[q[i]]
  BY QueuedOfSeq
<1>4. QueuedOf(q, d) # <<>>
  BY <1>1, <1>3, EmptySeq
<1>5. /\ rhs \in Seq(Nat)
      /\ Len(rhs) = n - 1
      /\ \A i \in 1 .. n - 1 : rhs[i] = d[q[i + 1]]
  BY <1>1, <1>3, <1>4, HeadTailProperties
<1>6. /\ lhs \in Seq(Nat)
      /\ Len(lhs) = n - 1
      /\ \A i \in 1 .. n - 1 : lhs[i] = d[q[i + 1]]
  <2>1. /\ QueuedOf(Tail(q), d) \in Seq(Nat)
        /\ Len(QueuedOf(Tail(q), d)) = Len(Tail(q))
        /\ \A i \in 1 .. Len(Tail(q)) : QueuedOf(Tail(q), d)[i] = d[Tail(q)[i]]
    BY <1>2, QueuedOfSeq
  <2>. QED
    BY <1>2, <2>1
<1>7. Head(QueuedOf(q, d)) = d[Head(q)]
  BY <1>1, <1>2, <1>3
<1>. HIDE DEF n, lhs, rhs
<1>8. lhs = rhs
  BY <1>5, <1>6, SeqEqual
<1>. QED
  BY <1>4, <1>7, <1>8 DEF lhs, rhs

(* With at most one link change, the tx ring is a FrameChannel           *)
(* (TxRefinesChannel): queue_skb appends the frame to the channel, the    *)
(* CCAT's transmission of the head slot delivers the channel's head, the  *)
(* reset of the link-up branch of poll_link flushes it, and every other   *)
(* step of the driver leaves it alone.  The bound is needed: with two     *)
(* link changes the poll task and the stack can write the same slot.      *)
THEOREM TxRefinement == MaxLinkChanges <= 1 => (Spec => TxRefinesChannel)
<1>. SUFFICES ASSUME MaxLinkChanges <= 1 PROVE Spec => TxRefinesChannel
  OBVIOUS
<1>. USE EndAssumption, LengthAssumption, BoundAssumption, BackendAssumption
<1>1. Init => TxChannel!Init
  <2>. SUFFICES ASSUME Init PROVE TxChannel!Init
    OBVIOUS
  <2>1. TxQueued = <<>>
    BY DEF Init, TxQueued
  <2>. QED
    BY <2>1 DEF Init, TxChannel!Init
<1>2. TypeOK /\ TypeOK' /\ TxSlotInv /\ [Next]_vars
        => [TxChannel!Next]_TxChannel!vars
  <2>. SUFFICES ASSUME TypeOK, TypeOK', TxSlotInv, [Next]_vars
                PROVE  [TxChannel!Next]_TxChannel!vars
    OBVIOUS
  <2>. USE DEF hwVars, netVars, rxVars, txVars
  <2>a. /\ hwTxQ \in Seq(TxSlots) /\ txData \in [TxSlots -> Nat]
        /\ hwTxQ' \in Seq(TxSlots) /\ txData' \in [TxSlots -> Nat]
        /\ txNext \in TxSlots /\ txId \in Nat \ {0}
    BY DEF TypeOK
  <2>b. /\ TxQueued = QueuedOf(hwTxQ, txData)
        /\ TxQueued' = QueuedOf(hwTxQ', txData')
    BY DEF TxQueued, QueuedOf
  <2>0. CASE UNCHANGED <<hwTxQ, txData, txId, wire>>
    <3>1. TxQueued' = TxQueued
      BY <2>0 DEF TxQueued
    <3>. QED
      BY <2>0, <3>1 DEF TxChannel!vars
  <2>1. CASE poll_link
    <3>1. CASE link /\ ~carrier
      <4>1. hwTxQ' = <<>> /\ UNCHANGED <<txId, wire>>
        BY <2>1, <3>1 DEF poll_link, ResetTx
      <4>2. TxQueued' = <<>>
        BY <2>a, <2>b, <4>1, QueuedOfEmpty
      <4>. QED
        BY <4>1, <4>2 DEF TxChannel!Next, TxChannel!Flush
    <3>2. CASE ~(link /\ ~carrier)
      BY <2>0, <2>1, <3>2 DEF poll_link
    <3>. QED
      BY <3>1, <3>2
  <2>2. ASSUME NEW c \in Ctx, XmitQueue(c) PROVE [TxChannel!Next]_TxChannel!vars
    <3>1. /\ Queued(c)
          /\ txData' = [txData EXCEPT ![txNext] = txId]
          /\ hwTxQ' = Append(hwTxQ, txNext)
          /\ txId' = txId + 1
          /\ UNCHANGED wire
      BY <2>2 DEF XmitQueue, queue_skb, Queued
    <3>2. txNext \notin Rng(hwTxQ)
      BY <3>1 DEF TxSlotInv
    <3>3. TxQueued' = Append(TxQueued, txId)
      <4>1. TxQueued' = QueuedOf(Append(hwTxQ, txNext),
                                 [txData EXCEPT ![txNext] = txId])
        BY <2>b, <3>1
      <4>2. QueuedOf(Append(hwTxQ, txNext), [txData EXCEPT ![txNext] = txId])
              = Append(QueuedOf(hwTxQ, txData), txId)
        <5>1. /\ hwTxQ \in Seq(TxSlots) /\ txData \in [TxSlots -> Nat]
              /\ txNext \in TxSlots /\ txId \in Nat /\ txNext \notin Rng(hwTxQ)
          BY <2>a, <3>2
        <5>. QED
          BY <5>1, QueuedOfAppend, ZenonT(60)
      <4>. QED
        BY <2>b, <4>1, <4>2
    <3>4. txId' - 1 = (txId - 1) + 1 /\ txId = (txId - 1) + 1
      BY <2>a, <3>1
    <3>. QED
      BY <3>1, <3>3, <3>4 DEF TxChannel!Next, TxChannel!Arrive
  <2>3. CASE HwTransmit
    <3>1. /\ hwTxQ # <<>>
          /\ wire' = Append(wire, txData[Head(hwTxQ)])
          /\ hwTxQ' = Tail(hwTxQ)
          /\ UNCHANGED <<txData, txId>>
      BY <2>3 DEF HwTransmit
    <3>2. /\ TxQueued # <<>>
          /\ Head(TxQueued) = txData[Head(hwTxQ)]
          /\ TxQueued' = Tail(TxQueued)
      BY <2>a, <2>b, <3>1, QueuedOfTail
    <3>. QED
      BY <3>1, <3>2 DEF TxChannel!Next, TxChannel!Deliver
  <2>4. CASE XmitRaw \/ LinkUpDone \/ poll_rx \/ poll_tx \/ poll_tx_wake \/ StackXmit
    BY <2>0, <2>4 DEF XmitRaw, LinkUpDone, poll_rx, poll_tx, poll_tx_wake, StackXmit
  <2>5. ASSUME NEW c \in Ctx, XmitInc(c) \/ XmitStop(c)
        PROVE  [TxChannel!Next]_TxChannel!vars
    BY <2>0, <2>5 DEF XmitInc, XmitStop
  <2>6. CASE ccat_eth_open \/ ccat_eth_stop \/ CancelDone \/ HwLinkChange
             \/ HwReceive \/ UNCHANGED vars
    BY <2>0, <2>6 DEF ccat_eth_open, ccat_eth_stop, CancelDone, HwLinkChange,
                      HwReceive, vars
  <2>. QED
    BY <2>1, <2>2, <2>3, <2>4, <2>5, <2>6 DEF Next, PollStep, XmitStep
<1>. QED
  BY <1>1, <1>2, TypeCorrect, TxSlotInvariant, PTL
  DEF Spec, TxRefinesChannel, TxChannel!Spec


(***************************************************************************)
(* Order of transmission, from the channel.                               *)
(***************************************************************************)
TxChannelProofs == INSTANCE FrameChannelProofs
                     WITH arrived <- txId - 1, queue <- TxQueued,
                          out <- wire, lost <- 0

(* With at most one link change, the frames queued by ccat_eth_start_xmit *)
(* and by the link-up frame of poll_link reach the wire once each and in  *)
(* the order queue_skb took them (TxInOrder): the tx ring is a            *)
(* FrameChannel, and a FrameChannel hands frames on in order.             *)
THEOREM TxDeliveryOrdered == MaxLinkChanges <= 1 => (Spec => []TxInOrder)
<1>. SUFFICES ASSUME MaxLinkChanges <= 1 PROVE Spec => []TxInOrder
  OBVIOUS
<1>1. TxRefinesChannel => TxChannelProofs!Spec
  BY DEF TxRefinesChannel, TxChannel!Spec, TxChannelProofs!Spec,
         TxChannel!Init, TxChannelProofs!Init, TxChannel!Next,
         TxChannelProofs!Next, TxChannel!vars, TxChannelProofs!vars,
         TxChannel!Arrive, TxChannelProofs!Arrive, TxChannel!Deliver,
         TxChannelProofs!Deliver, TxChannel!Discard, TxChannelProofs!Discard,
         TxChannel!Flush, TxChannelProofs!Flush
<1>2. TxChannelProofs!OutInOrder <=> TxInOrder
  BY DEF TxChannelProofs!OutInOrder, TxInOrder, Increasing
<1>. QED
  BY TxRefinement, TxChannelProofs!ChannelInOrder, <1>1, <1>2, PTL

=============================================================================
