# Formal model of the CCAT EtherCAT network driver

This directory holds TLA+ models of `src/netdev.c`, the Linux driver for the
Ethernet/EtherCAT function of the Beckhoff CCAT FPGA. It also holds the TLC
configurations that model-check them and TLAPS proofs of their main
invariants. `PROJECT.json` lists every run, mutant, finding and hazard, and maps
each definition to the source lines it models.

## The system

The driver has the following parts. They are listed in the order data flows
through them.

* **Attach and detach.**
  * `ccat_eth_dma_probe` and `ccat_eth_iomem_probe` allocate the `net_device`
    (`ccat_eth_alloc_netdev`) and build the backend.
  * The DMA backend (`ccat_eth_priv_init_dma`) calls `ccat_dma_init` once per
    direction. Each call takes a coherent buffer and an ISA DMA channel.
  * `ccat_eth_init_netdev` then registers the device. Every failure releases
    what was acquired.
  * The `*_remove` hooks unregister the device, then free it.
* **Frame ring.** Each direction has one ring of 2048-byte slots
  (`struct ccat_eth_frame`).
  * `fifo->next` is the cursor. `ccat_eth_fifo_inc` advances it and wraps it
    past `fifo->end`.
  * `ccat_eth_fifo_reset` clears the hardware fifo. It then calls `fifo->add`
    on every slot, from `virt` until the cursor is back at `virt`.
* **Backends.** They provide `tx_ready`, `rx_ready`, `add` and `queue_skb`.
  * DMA backend:
    * slot ownership is the `rx_flags` RECEIVED bit and the `tx_flags` SENT bit
      in each slot header;
    * writing a slot offset to the rx fifo register arms that slot;
    * writing an offset and a word count to the tx fifo register publishes a
      frame.
  * iomem backend: the slots live in an I/O window. `tx_ready` reads a fifo
    level register.
* **Poll loop.** `poll_timer_callback` runs every 100us on an hrtimer and runs
  three steps in order:
  1. `poll_link`. When the link comes up it calls `ccat_eth_link_up`, which
     resets both rings, sends the 30-byte forwarding frame through
     `ccat_eth_xmit_raw` → `ccat_eth_start_xmit`, turns the carrier on and
     starts the queue. When the link goes down, `ccat_eth_link_down` stops the
     queue and turns the carrier off.
  2. `poll_rx` drains received slots, re-arming each one.
  3. `poll_tx` wakes the queue when the next tx slot is free.
* **Submission path.** The stack calls `ccat_eth_start_xmit` on another CPU,
  concurrently with the timer.
  * It drops nonlinear or oversized frames.
  * If the next slot is not free, it reports `NETDEV_TX_BUSY`. This is the
    "BUG! Tx Ring full when queue awake!" path.
  * Otherwise it publishes the frame, advances the cursor, and stops the queue
    if the new slot is not free.
* **Statistics.** There are four atomic64 counters, and `ccat_eth_get_stats64`
  reads them.
* **Not in the driver core.** `src/unnamed/part_000` is the FPGA flash update
  character device. spec.md places it out of scope.

The two contexts share no lock. The timer and `start_xmit` interact through:

* the tx ring (slot flags and the cursor);
* the queue's stopped bit;
* the carrier.

The timer also calls `start_xmit` itself, through `xmit_raw`.

## Modules

| module | models | state | actions |
|---|---|---|---|
| `CCATFrame` | slot layout, `ccat_eth_fifo_inc`, the ring ends both init functions compute, the tx descriptor fields of `fifo_dma_queue_skb` | none (operators only) | – |
| `CCATFrameLayout` | the `ccat_eth_fifo_reset` walk over every ring the driver builds, and the descriptor for each accepted frame length | ring, cursor, iteration count, slots added, frame length | `ResetIteration` (one loop iteration) |
| `CCATEth` | the driver at run time with either backend (constant `Backend` = `"dma"` or `"iomem"`): poll timer, start_xmit from both contexts, open/stop, the CCAT | link, carrier, queue, interface, timer state, both contexts' program counters, both rings (flags, lengths, payload ids), the CCAT's rx and tx fifos, wire, counters | `poll_link`, `XmitRaw`, `LinkUpDone`, `poll_rx`, `poll_tx`, `poll_tx_wake`, `StackXmit`, `XmitQueue/Inc/Stop(c)`, `ccat_eth_open`, `ccat_eth_stop`, `CancelDone`, `HwLinkChange`, `HwReceive`, `HwTransmit` |
| `CCATEthAttach` | probe/remove of both drivers with `ccat_dma_init`, `ccat_dma_free`, register failure; another driver using DMA channels | backend, probe pc, net_device, coherent buffers per direction, channel owners | `ccat_eth_alloc_netdev`, `ccat_dma_init(d)`, `ccat_eth_init_netdev`, `ccat_eth_remove`, `OtherRequest/OtherFree(ch)` |
| `FrameChannel` | what a ring promises its two ends: a FIFO channel of numbered frames | frames arrived, frames in the channel, frames handed on, frames lost | `Arrive`, `Deliver`, `Discard`, `Flush` |
| `CCATEthRefinement` | the refinement mappings from `CCATEth`'s rings to `FrameChannel` (`RxPending`, `TxQueued`) | – | – |
| `CCATEthProofs` | TLAPS proofs about `CCATEth` | – | – |
| `CCATEthAttachProofs` | TLAPS proofs about `CCATEthAttach` | – | – |
| `FrameChannelProofs` | TLAPS proof that a `FrameChannel` hands frames on in arrival order | – | – |
| `CCATEthRefinementProofs` | TLAPS proof that the rx ring refines `FrameChannel`, and from it `RxInOrder` | – | – |
| `CCATEthTxProofs` | TLAPS proofs about the tx side of `CCATEth`: the iomem fifo level, the single writer of the tx cursor with at most one link change, and from it the tx refinement and `TxInOrder` | – | – |
| `CCATFrameLayoutProofs` | TLAPS proofs about the `ccat_eth_fifo_reset` walk, for every ring | – | – |
| `MC_*` | TLC instances (constant values) | – | – |

### How `CCATEth` corresponds to the code

* **Slots and pointers.** A slot is its index `k`. The pointer `next` is
  `virt + k*2048`. `RxEnd`/`TxEnd` are the byte offsets of `end` from `virt`.
  The MC module uses the real value, `FIFO_LENGTH - 1 = 63`, so the rings have
  the one slot the code gives them (see findings).
* **Splitting the timer callback.** The callback is cut at every point where
  `start_xmit` on the other CPU can observe or change shared state:
  * `poll_link` does the link read and, on link up, the two fifo resets;
  * `XmitRaw` is the tx_ready check of xmit_raw's `start_xmit`;
  * the queue, increment and stop steps are shared with the stack (`XmitStep`);
  * `LinkUpDone` is `netif_carrier_on` plus `netif_start_queue`;
  * `poll_rx` is one loop iteration or the loop exit;
  * `poll_tx` is the `tx_ready` test of `poll_timer_callback` (netdev.c:694),
    and `poll_tx_wake` is the `netif_wake_queue` it guards plus
    `hrtimer_forward_now` (695-714). They are two steps because the stack's
    `start_xmit` on the other CPU can fill the ring between the test and the
    wake (finding 7).
* **Splitting `start_xmit`.** It is likewise three steps after its check:
  1. `XmitQueue` is `queue_skb`, the byte count and the free;
  2. `XmitInc` is `ccat_eth_fifo_inc`;
  3. `XmitStop` is the re-check and `netif_stop_queue`.
* **Drops and the ready check.** `StackXmit` makes the drop decisions (over
  lengths and linearity) and then the ready check, `XmitCheck`.
* **The CCAT.**
  * It fills the slot at the head of its rx fifo (`HwReceive`).
  * It drains the head of its tx fifo onto `wire` and sets SENT (`HwTransmit`).
  * Its link bit flips (`HwLinkChange`).
* **The two backends.** `tx_ready` and `rx_ready` are the function pointers
  the init functions install (netdev.c:440-443, 480-482):
  * DMA: `tx_ready` is the slot's SENT bit, `rx_ready` the slot's RECEIVED bit;
  * iomem: `tx_ready` is `!(level & 0x3F)`, where the level is the number of
    frames in the CCAT's tx fifo (`Len(hwTxQ) % 64 = 0`); `rx_ready` is the
    slot's length field, 0 below 16 bytes (`RxAddLen`);
  * iomem `add` on an rx slot zeroes its length, on a tx slot does nothing,
    and iomem `queue_skb` never touches `tx_flags` (`queue_skb`).

  The iomem rx ring also has one slot (its `end` is `virt`); the iomem tx
  ring in the runs has 3 slots (a 3-frame window), so `tx_ready` is the only
  thing that keeps a queued frame from being overwritten.
* **Atomic steps that the hardware may split.** The link-up fifo resets
  (`ResetRx`, `ResetTx` inside `poll_link`) and the CCAT's fill of an rx slot
  (`HwReceive`) are each one step. A DMA fill that is in flight while the
  driver re-arms the ring, and lands in a slot after the reset, is therefore
  not represented. The runs say nothing about that case.
* **Payloads** are identifiers: `txId` counts frames published, and `wire`
  records the order the CCAT sent them in.

## Runs

| run | cfg | result | what it shows |
|---|---|---|---|
| `dma_ownership_flaps` | `MC_CCATEth_flaps.cfg` | pass, 467,854 distinct states | Under 3 link changes, 3 stack transmits, 2 received frames, open/stop and every interleaving: an rx slot is held by the CCAT or by the driver, never both, and the CCAT's rx fifo holds each slot once (`RxOwnership`); rx frames reach the stack in arrival order (`RxInOrder`); the rx ring refines `FrameChannel` (`RxRefinesChannel`); a received frame is lost without being counted only at the link-up reset (`RxLostOnlyAtReset`); a stopped queue is woken while the carrier is on and the interface is up (`QueueWakes`); every rx slot the CCAT fills goes back to it while the interface is up (`RxSlotsReturn`) |
| `dma_tx_order_steady` | `MC_CCATEth_txorder.cfg` | pass, 36,414 distinct states | With one link change: the wire carries every published frame once, in submission order (`TxInOrder`); the tx ring refines `FrameChannel` (`TxRefinesChannel`); the CCAT's tx fifo never holds a slot twice, and a slot's SENT flag is clear exactly while the CCAT holds it (`TxOwnership`) |
| `iomem_ownership_flaps` | `MC_CCATEth_iomem.cfg` | pass, 770,130 distinct states | The same scenario with the iomem backend (1 rx slot, 3 tx slots): rx ownership and order, `RxRefinesChannel`, `RxLostOnlyAtReset`, `QueueWakes`, `RxSlotsReturn`; `poll_rx` only takes slots the CCAT has completed (`RxTakesCompleted`, which rests on the iomem `add` zeroing the length, since iomem's `rx_ready` reads the length and not the flag); and the CCAT's tx fifo never holds more than two frames, one per context that passed its `tx_ready` check, far from the 64 that the 0x3F mask would read as empty (`TxFifoLevelBounded`) |
| `dma_flap_double_publish` | `MC_CCATEth_flapdup.cfg` | violation of `TxInOrder` | finding 4 below |
| `dma_linkup_busy` | `MC_CCATEth_busy.cfg` | violation of `StackNeverBusy` | finding 3 below |
| `dma_rx_short_stall` | `MC_CCATEth_rxshort.cfg` | violation of `RxSlotsReturn` | finding 6 below |
| `dma_stale_wake` | `MC_CCATEth_stalewake.cfg` | violation of `PollTxWakesOnFreeSlot` | finding 7 below |
| `layout_reset_walk` | `MC_CCATFrameLayout_reset.cfg` | pass | `ccat_eth_fifo_reset` adds each slot exactly once on the DMA rings and on iomem rings of 1–8 slots and one odd size (`ResetArmsEachSlotOnce`) |
| `layout_ring_length` | `MC_CCATFrameLayout_length.cfg` | violation of `RingLengthAsSpecified` | finding 1 |
| `layout_tx_descriptor` | `MC_CCATFrameLayout_descriptor.cfg` | violation of `DescriptorFields` | finding 2 |
| `attach_detach` | `MC_CCATEthAttach_detach.cfg` | pass | Every failed probe (at any of its steps) and every remove leaves no net_device, coherent buffer or channel held (`ReleasedWhenDetached`) |
| `attach_foreign_channel` | `MC_CCATEthAttach_foreign.cfg` | violation of `ForeignChannelsKept` | finding 5 |

Each property of a passing run has a mutant in `PROJECT.json`: a plausible bug
in the definition that models the code, which TLC then catches. The mutants:

* `ccat_eth_fifo_inc` tests the old cursor;
* the rx reset does not clear the hardware fifo;
* `poll_rx` does not clear `rx_flags`;
* the iomem rx `add` does not zero the length field (for `RxOwnership` and
  `RxTakesCompleted` under iomem: `poll_rx` takes a slot the CCAT has not
  filled);
* `poll_rx` drops a frame without counting it in `rx_dropped`;
* the wake branch of the timer callback does not call `netif_wake_queue`;
* `ccat_eth_open` does not start the poll timer;
* `start_xmit` skips its ready check;
* the tx init failure path frees both buffers;
* `ccat_dma_free` keeps the channel.

**Refinement.** `CCATEthRefinement` maps each ring onto `FrameChannel`:
* rx: the channel holds the payloads of the received slots, read from
  `rx_fifo.next` on around the ring (`RxPending`). The CCAT's reception is
  `Arrive`, `poll_rx`'s `netif_rx` is `Deliver`, a `dev_alloc_skb` failure
  (counted in `rx_dropped`) is `Discard`, and the link-up reset is `Flush`.
  `FrameChannel` lets `Flush` happen at any step, so the refinement alone
  does not say which driver step discards frames. `RxLostOnlyAtReset` says
  it: a step that shortens the channel without counting a frame is the
  link-up branch of `poll_link`;
* tx: the channel holds the payloads of the slots queued in the CCAT's tx
  fifo (`TxQueued`), `queue_skb` is `Arrive` and `HwTransmit` is `Deliver`.

`TxRefinesChannel` fails in the flapping runs, by finding 4: the stack
overwrites the slot `xmit_raw` has just queued. It holds, and is proved,
with at most one link change. The tx order, refinement and ownership
properties are model-checked with one link change on the DMA backend
(`dma_tx_order_steady`); for the iomem backend, where the fifo level test
is what keeps a queued frame from being overwritten, they rest on the
TLAPS theorems below, which cover both backends. The tx side has no counterpart of
`RxLostOnlyAtReset`. The driver counts no loss of a frame it has queued,
so there is no counter to relate a shortened `TxQueued` to. A step
outside the reset that emptied the CCAT's fifo would still refine
`FrameChannel` (as a `Flush`), and `TxInOrder` forbids reordering and
repeats on the wire, not gaps. In the model only the link-up
`ResetTx` empties that fifo other than `HwTransmit`, but no property checks
this.

**Bounds.**
* The rings have the code's geometry: one slot per direction, except the
  iomem tx ring, which is given a 3-slot window so that the level test
  decides.
* `MaxLinkChanges = 3` reaches up→down→up from either initial link value.
* `MaxTxFrames = 3` lets a stack transmit be in flight across a whole link
  cycle.
* `MaxRxFrames = 2` refills the single rx slot after a reset.
* Rx lengths are 64 bytes (80 under iomem, above the 16-byte minimum). Tx lengths are 60 bytes and 2025 bytes (the latter
  exercises the oversize drop).
* The layout run walks the DMA rings, iomem tx windows of 1 to 8 slots and of
  3000 bytes, and iomem rx windows.
* The attach runs use 4 channels, 2 of them the driver's. This lets the other
  driver hold one of the driver's channels, or neither, at any time.
* Deadlock checking is off only in the layout and attach runs. There the modelled
  procedure really ends (the reset loop returns, probe fails or the device is
  removed).

**Fairness** (`CCATEth`):
* weak fairness of each timer step, because the hrtimer re-arms every 100us
  and a callback runs to its end;
* weak fairness of each context's started `start_xmit` (it runs to its return);
* weak fairness of `CancelDone`, because `hrtimer_cancel` returns once the
  callback finishes;
* weak fairness of `HwTransmit`, because the CCAT drains published frames.

The stack, the link, reception and open/stop are not fair: nothing in the code
forces them.

## Findings

1. **DMA rings have one slot** (`layout_ring_length`).
   `end = dma.virt + FIFO_LENGTH - 1` (netdev.c:462, 469) does byte arithmetic
   on `void *`. So `end` is 63 bytes past `virt`, and `ccat_eth_fifo_inc` wraps
   after the first slot. spec.md says the DMA ring has 64 slots.
2. **The tx descriptor overflows** (`layout_tx_descriptor`). At
   `skb->len = MAX_PAYLOAD_SIZE = 2024`, which `start_xmit` accepts,
   `((len+24)/8) << 24` shifts 256 out of the u32 (netdev.c:420). The CCAT is
   told to drain 0 words.
3. **Link up starts the queue on a full ring** (`dma_linkup_busy`).
   `ccat_eth_link_up` publishes the forwarding frame, which fills the one-slot
   ring, and then calls `netif_start_queue` (netdev.c:645). Unless the CCAT
   drains that slot first, the stack's next transmit can hit "BUG! Tx Ring full when queue awake!".
4. **Double publish across a link flap** (`dma_flap_double_publish`). The spec
   says only the submission path advances the tx cursor, but the timer does so
   through `xmit_raw` (netdev.c:598). The failing sequence:
   1. a stack `start_xmit` passes its ready check;
   2. the link goes down and up;
   3. `ccat_eth_link_up` resets the ring and `xmit_raw` publishes slot 0;
   4. the stack then copies its frame into slot 0 and publishes it again.

   As a result the forwarding frame is lost and the stack frame is sent twice.
   TLC needs 3 link changes to find this. The passing
   `dma_tx_order_steady` run therefore bounds the link to the first link-up.
5. **ccat_dma_init frees a foreign DMA channel** (`attach_foreign_channel`).
   When `request_dma` fails because the channel is taken, the cleanup
   `ccat_dma_free` calls `free_dma` on it (netdev.c:276). That releases the
   other driver's channel.
6. **A short completion wedges the rx ring** (`dma_rx_short_stall`). When the
   CCAT marks a slot RECEIVED with a length below the overhead,
   `fifo_dma_rx_ready` returns 0 (netdev.c:381; `fifo_iomem_rx_ready` does
   the same at 307). spec.md asks for exactly this: a malformed completion is
   "not ready". But `poll_rx` then stops at that slot on every tick and never
   re-arms it. With the one-slot ring, nothing more is received until a
   link-up resets the ring. spec.md says nothing about the slot being lost.
7. **The timer wakes the queue on a stale test** (`dma_stale_wake`).
   `poll_timer_callback` reads `tx_ready` (netdev.c:694) and then calls
   `netif_wake_queue` (695), with no lock against `start_xmit` on the other
   CPU. After the link-up, the timer reads the slot free; the stack then
   queues a frame into it, advances the cursor and stops the queue because
   the ring is full; the timer then wakes the queue. The queue is awake on a
   full ring, and the next transmit can take the "BUG! Tx Ring full" path,
   as in finding 3. The spec says the timer wakes the queue when the next
   slot is free.

## Proofs (TLAPS)

The theorems hold for every value of the constants and for both backends.
They rest only on `BackendAssumption`, `EndAssumption`, `LengthAssumption`
and `BoundAssumption`: the backend is one of the two, the ends are integers,
the lengths naturals, the bounds naturals.

`CCATEthProofs`:
* `TypeCorrect`: `Spec => []TypeOK`. There is one step per action. The
  non-obvious facts are stated as lemmas:
  * `ccat_eth_fifo_inc` stays in the ring (`FifoIncInSlots`);
  * the reset's arming sequence is typed and free of duplicates (`ArmAllType`,
    `ArmAllNoDup`);
  * `XmitCheck` preserves the type in both of its branches (`XmitCheckType`).
* `RxInvariant`, and from it `RxOwnershipInvariant`: `Spec => []RxOwnership`.
  `RxOwnership` is not inductive under iomem, because `rx_ready` there reads
  the length, not the flag. The inductive invariant adds `RxLenOwned`: a
  non-zero length only in a received slot (the iomem `add` zeroes it on
  arming). Lemma `RxReadyReceived` turns that into "`rx_ready # 0` means
  the slot at next is received". The proof uses lemmas on sequences without
  duplicates (`NoDupAppend`, `NoDupTail`) and on the range of `Tail`/`Append`.
* `TxSentOrQueuedInvariant` (a lemma): every tx slot is SENT or held by
  the CCAT. Its inductive invariant adds `TxIomemSent`: under iomem every
  tx flag stays SENT, since nothing of that backend clears it.

`CCATEthRefinementProofs`:
* `RxShapeInvariant`: `Spec => []RxShape`. The slots the CCAT holds are the
  ring in order, from `RxRingSize - Len(hwRxQ)` slots after `next`. It rests
  on ring lemmas: `ccat_eth_fifo_inc` is `RxRingPos(k + 1)`
  (`FifoIncRingPos`, through the wrap test `WrapTest`), positions less than
  a turn apart are different slots (`RingPosInjective`), and a slot at
  `next` that is not armed means the ring is not full (`RxRingNotFull`).
* `RxDeliveryOrdered`: `Spec => []RxInOrder`. It is not proved on the
  driver's state directly. `FrameChannelProofs` proves `ChannelInOrder`:
  the abstract channel hands frames on in increasing order. Its inductive
  invariant `ChannelInv` says the frames in the channel are increasing,
  newer than the last one handed on, and no newer than the last arrival.
  That lemma, instantiated with the rx mapping, and `RxRefinement` give
  `RxInOrder`, since `RxInOrder` is `OutInOrder` of the mapped channel.
* `RxRefinement`: `Spec => RxRefinesChannel`. Init maps to the empty
  channel; under `TypeOK`, `RxInv` and `RxShape` in both states, every step
  is a `FrameChannel` step or a stutter. `poll_rx` takes the head of
  `RxPending` (`Tail` plus `Deliver`/`Discard`), `HwReceive` appends the new
  frame at the back (the slot it fills is the one after the last received),
  and the link-up reset re-arms all slots (`Flush`). `PendingIsSeq` shows the
  mapping is a sequence of the right length.
* `RxLostOnlyAtResetProved`: `Spec => RxLostOnlyAtReset`. Under `TypeOK`
  and `RxShape` in both states there is one case per action: `poll_rx`
  changes a counter whenever it takes a frame (`Append` lengthens
  `rxDelivered`), `HwReceive` shortens the CCAT's fifo and so lengthens
  `RxPending` (its length is `RxRingSize - Len(hwRxQ)`), the link-up branch
  of `poll_link` is the reset itself, and every other action leaves the rx
  ring alone.

`CCATEthAttachProofs` (from `ChanAssumption` only, so also when the rx and
tx channels are the same):
* `AttachTypeCorrect` (`Spec => []TypeOK`) and `AttachReleases`
  (`Spec => []ReleasedWhenDetached`). `ReleasedWhenDetached` talks about
  the end states only, so it is not inductive. The inductive invariant
  `AttachInv` states what probe holds at each of its steps:
  * nothing before `init_rx`;
  * the rx buffer and channel at `init_tx`;
  * both buffers and channels at `register` and `up` under DMA, nothing
    under iomem.

  It also states `OtherConsistent` until probe fails: the other driver's
  channels are exactly those marked "other". This is what makes
  `request_dma` take only a free channel, and keeps the other driver's
  `free_dma` off ours. Lemmas `DmaFreeOwner` and `FreeAllEth` say what
  `ccat_dma_free` releases.

* `RxTakesCompletedProved`: `Spec => RxTakesCompleted`, the action
  property that every `poll_rx` iteration which delivers or drops a frame
  reads a slot marked received. Under `TypeOK` and `RxInv`, a `poll_rx` step
  that changes the counters has `rx_ready # 0`, and `RxReadyReceived` turns
  that into `rxRecv[rxNext]`; every other action leaves both counters alone.

`CCATEthTxProofs`. These are the tx results. With two contexts writing one
ring and no lock, they need more state than `TypeOK`:
* `TxFifoLevel`: under iomem, `Spec => []TxFifoLevelBounded`. The inductive
  invariant `TxLevelInv` says the CCAT's tx fifo holds at most two frames,
  at most one while a context is about to queue, and none while both are.
  It holds because a context queues only after its `tx_ready` has read the
  fifo empty (`ReadyIsEmpty`). The arithmetic on the fifo level
  (`% 64`) is stated over naturals (`LevelBelow`, `LevelMask`,
  `LevelAppend`), since the provers cannot do arithmetic on `Len` of a
  variable directly.
* `WriterInvariant`: with `MaxLinkChanges <= 1`, `Spec => []WriterInv`.
  While the poll task is in its link-up branch the carrier is off. The stack
  is past its check only while the link is settled and no link-up is
  running, so the two contexts are never both between their check and their
  return (`SingleWriter`). With two link changes this fails: that is
  finding 4, and TLC finds `WriterInv` violated there too.
* `TxSlotInvariant`: with `MaxLinkChanges <= 1`, `Spec => []TxSlotInv`. The
  CCAT's tx fifo has no duplicate slot, under DMA its slots are not SENT,
  and a context about to queue writes a slot the fifo does not hold. The
  last part follows from `SingleWriter`, and from `ReadySlotFree`
  (`tx_ready` means the slot at `next` is free, under both backends).
* `TxRefinement`: with `MaxLinkChanges <= 1`, `Spec => TxRefinesChannel`.
  `queue_skb` is `Arrive`, `HwTransmit` is `Deliver`, and the link-up reset
  is `Flush`. The mapping lemmas are `QueuedOfAppend` (writing a free slot and
  appending it appends the payload) and `QueuedOfTail`.
* `TxDeliveryOrdered`: with `MaxLinkChanges <= 1`, `Spec => []TxInOrder`,
  from `TxRefinement` and `ChannelInOrder`, as for rx.
* `TxOwnershipProved`: with `MaxLinkChanges <= 1`, `Spec => []TxOwnership`.
  No duplicate slot comes from `TxSlotInv`, and the DMA equivalence from
  `TxSlotInv` (a queued slot is not SENT) with `TxSentOrQueued` (a slot
  that is not SENT is queued). With more link changes the second writer of
  finding 4 can queue a slot twice, so the bound is needed.

`CCATFrameLayoutProofs`:
* `LayoutTypeCorrect` and `ResetArmsEachSlotOnceProved`:
  `Spec => []ResetArmsEachSlotOnce` for every ring the init functions
  build, whatever window size the iomem function block reports. The
  do-while loop's invariant `WalkInv` says that after `steps` iterations
  slots `0 .. steps-1` have been added and the cursor is on slot `steps`,
  or on `virt` once all are done. `FifoIncStep` gives `ccat_eth_fifo_inc`
  in closed form; `FS_Interval` gives the count.

**Only model-checked:**
* liveness (`QueueWakes`, `RxSlotsReturn`), because TLAPS does not handle
  fairness or ENABLED;
* `TxInOrder` and `TxRefinesChannel` with more than one link change. They
  fail there (finding 4), so nothing stronger than the bounded theorems can
  be proved;
* `ForeignChannelsKept` (violated, finding 5).

## Not modelled, and the plan for the next sittings

* **Allocation failure in `xmit_raw`** (netdev.c:593, NULL dereference). It
  is one unchecked return on the link-up path and needs no interleaving to
  reach, so a model would add nothing to reading the line.
* **Unbounded `poll_rx`** (livelock, netdev.c:681). Every run bounds the
  CCAT's receptions (`MaxRxFrames`), so no run has an unbounded callback.
* **Zero bus address leak** in `ccat_dma_init` (netdev.c:269).
* **`xmit_raw` skb leak on BUSY.** It is counted (`rawLeaked`) but no
  property reads the count. The leak happens only when `xmit_raw` meets a
  full ring, which is the second writer of finding 4. The byte counters
  (`rxBytes`, `txBytes`) are kept for the same reason and are not checked
  either.
* **Proofs.** Every safety property a passing run checks is proved for
  every value of the constants (the tx order, ownership and refinement for
  the bound of one link change that their runs use). What stays with TLC is listed
  under "Only model-checked".
* **Register map resolver** (`ccat_eth_priv_init_reg`). Pure address
  arithmetic.
* **Flash update device** (`src/unnamed/part_000`). Out of scope per spec.md.
