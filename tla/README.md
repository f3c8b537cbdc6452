# Verification of the Xilinx UltraScale+ GEM network driver

This directory holds TLA+ models of the FreeRTOS+TCP network driver in
`src/source/portable/NetworkInterface/xilinx_ultrascale/x_emacpsif_dma.c`.
It also holds the TLC configurations that model-check them and TLAPS proofs
about the transmit path, the receive path, the accept filter and `init_dma`. `PROJECT.json` has these lists:

- components and runs;
- the mutants that show each checked property can fail;
- the map from every definition to the source lines it models;
- the findings, the hazards and the theorems.

## The system

The driver moves Ethernet frames between the FreeRTOS+TCP stack and the
GEM MAC's DMA engine through two rings of buffer descriptors in uncached
memory. Four actors share the rings:

| Actor | Code it runs | What it touches |
|---|---|---|
| IP task | `emacps_send_message` | Puts a frame into the TX ring. |
| EMAC task | `emacps_check_tx`, `emacps_check_rx` | Reclaims sent TX slots; drains the RX ring. |
| GEM DMA | (hardware) | Sends TX descriptors whose USED bit is clear; writes received frames into RX descriptors whose NEW bit is clear. |
| Interrupts | `emacps_send_handler`, `emacps_recv_handler` | Set a bit in `isr_events` and notify the EMAC task. |

**TX.** The pieces are:

- `txSegments`: the descriptors.
- `pxDMA_tx_buffers`: the buffer each slot owns.
- `txHead`: the next slot to fill.
- `txTail`: the next slot to reclaim.
- The counting semaphore `xTXDescriptorSemaphore`: one credit per free slot.

`emacps_send_message` takes a credit (waiting up to 5 s), stores the buffer,
writes the descriptor (clearing USED), advances `txHead`, and writes STARTTX.
`emacps_check_tx` walks from `txTail` over descriptors the DMA has marked
USED. It releases their buffers and gives back their credits.

**RX.** `init_dma` posts a buffer in every slot. The DMA writes a frame, sets
NEW and raises the interrupt. `emacps_check_rx` then loops over NEW slots:

- If `xMayAcceptPacket` accepts the frame and a fresh buffer is free, the old
  buffer goes onto a linked batch and the fresh one is posted in its place.
- Otherwise the frame is dropped and the same buffer is re-posted.

At the end, `prvPassEthMessages` queues the batch for the IP task, or
releases every buffer of it if the queue stays full for 1000 ticks.

## Modules

| Module | Models | Lines of source |
|---|---|---|
| `EmacTx` | The TX path: the ring, the semaphore, the IP task in `emacps_send_message`, the EMAC task in `emacps_check_tx`, the TX DMA, the TX interrupt, and an IP stack that takes buffers from the pool. | 126–323, 605–619, 675–679 |
| `EmacTxInv` | Invariants used by the proofs: the ring's shape, buffer separation, the checker's snapshot. | — |
| `EmacTxProofs` | TLAPS proofs about `EmacTx`. | — |
| `EmacTxOwnershipProofs` | TLAPS proofs of TX buffer ownership and of the credit count. | — |
| `EmacTxQueue` | What the TX path promises the stack: a FIFO of frames, each sent once, a buffer released only after its frame was sent, at most NTx in the ring. | — |
| `EmacTxRefinement` | The refinement mapping from `EmacTx` onto `EmacTxQueue`. | — |
| `EmacRx` | The RX path: the ring, the RX DMA, `emacps_recv_handler`, `emacps_check_rx`, `prvPassEthMessages`, the IP task consuming batches, and the SI# 692601 stall with its workaround `resetrx_on_no_rxdata`. | 326–377, 452–603, 684–731, 821–841 |
| `EmacRxInv` | The inductive invariants of `EmacRx`: `RxIInv` (shape, separation, coverage of the buffers) and `RxOrderInv` (the order of frames through five stages). | — |
| `EmacRxProofs`, `EmacRxOrderProofs` | TLAPS proofs about `EmacRx`: typing, descriptors, ownership, and delivery order. | — |
| `EmacInit` | `init_dma` slot by slot across repeated calls: ring clone, semaphore creation, buffer reuse or allocation, the -1 return, WRAP and `clean_dma_txdescs`. | 85–100, 621–806 |
| `EmacInitInv`, `EmacInitProofs` | The inductive invariant of `EmacInit` and its TLAPS proofs. | — |
| `AcceptFilter` | `xMayAcceptPacket` on header fields, and the design's filter (section 4.3.1) as a reference. | 379–450 |
| `AcceptFilterProofs` | The TLAPS proof that `xMayAcceptPacket` matches the design for every header. | — |
| `MCEmacTx`, `MCEmacRx`, `MCEmacInit`, `MCAcceptFilter` | Constants for TLC. | — |

**EmacTx.** `emacps_send_message` is split at each access to shared state,
because the DMA, the interrupt and (by priority) the EMAC task can run in
between:

| Action | What it models |
|---|---|
| `SendStart` | The length check. |
| `SendTake` / `SendTimeout` | The semaphore take, or its 5 s timeout followed by the release of the buffer. |
| `SendFill` | Storing the buffer at line 265. |
| `SendPublish` | The descriptor write at lines 286–287, which clears USED. |
| `SendAdvance` | The head update at lines 291–298. |
| `SendKick` | The STARTTX write and `txBusy`. |

`emacps_check_tx` is split into four actions:

| Action | What it models |
|---|---|
| `CheckTxStart` | Reading `txTail` and `txHead`. |
| `CheckTxCount` | Reading the semaphore count. |
| `CheckTxReclaim` | One loop iteration: release the buffer, rewrite the flags, give the credit, advance the tail. |
| `CheckTxDone` | The loop exit. |

The constant `SenderPreempts` says whether the IP task may run while
`emacps_check_tx` is between steps. The priorities are set outside this file.
FALSE is the usual configuration, where the EMAC task has the higher
priority.

The DMA is modelled by three actions:

| Action | What it models |
|---|---|
| `DmaFetch` | Reading a descriptor with USED clear. |
| `DmaComplete` | Setting USED, following WRAP and raising TXCOMPL. |
| `DmaHalt` | Stopping at a USED descriptor. |

**EmacRx.** Each iteration of `emacps_check_rx` is one step:

- `CheckRxHandOff` hands the frame on.
- `CheckRxRecycle` re-posts the same buffer: the frame was refused, or the
  pool is empty.

One step per iteration is faithful because the iteration's last write to the
descriptor is its address word (line 579), which returns the slot to the DMA.
Before that write the DMA cannot touch the slot.

The other RX actions are:

| Action | What it models |
|---|---|
| `CheckRxStart` | The EMAC task clearing `EMAC_IF_RX_EVENT` and entering `emacps_check_rx`. The clearing is in `NetworkInterface.c`, outside `src/`. |
| `CheckRxBreak` | The loop exit. |
| `PassEthMessages` / `PassEthMessagesTimeout` | The two outcomes of `xSendEventStructToIPTask`. |
| `RxDmaReceive(k)` | A frame of kind k arriving. If the slot at the DMA pointer has NEW set, the frame is dropped. |
| `IpTaskReceive` | The IP task taking the oldest batch and releasing its buffers after processing. |

Frames are records of an arrival number and a kind. The kind stands for the
accept filter's verdict.

**The RX erratum (SI# 692601).** `RxStall` is the GEM's RX path hanging:
from then on `RxDmaReceive` ignores frames. `resetrx_on_no_rxdata` reads the
clear-on-read frame counter RXCNT and toggles RXEN when it and the value
remembered from the previous call are both zero. It runs at the start of
every `emacps_check_rx` (inside `CheckRxStart`) and from the interface
layer's periodic probe (`PeriodicResetRx`). The code only compares the
counts with zero, so the model keeps them as Booleans: `rxCnt` (frames since
the last read) and `lastRxCnt`. The toggle ends a stall. What it does to the
receive queue pointer is not stated by the source; the model leaves the
pointer where it is.

**EmacInit.** `init_dma` is one action per RX slot between `InitStart` and
`InitFinish`:

| Action | What it models |
|---|---|
| `InitStart` | The ring creation and clone (every descriptor cleared, WRAP on the last), and the semaphore created with NTx credits only if it does not exist (line 675). |
| `InitReuse` | A slot for which `pxDMA_rx_buffers` still holds a buffer from an earlier call: the buffer is posted again. |
| `InitAlloc` | An empty slot and a free buffer: the buffer is taken and posted. |
| `InitAllocFail` | An empty slot and no free buffer: `init_dma` returns -1 (line 696). |
| `InitFinish` | WRAP on the last slot, `clean_dma_txdescs`, the register set-up (not followed) and return 0. |

`StackTake`, `StackRelease` and `TxInFlight` are the rest of the system
between calls: the stack holding buffers, and `emacps_send_message` having
put a frame in the TX ring. The constant `ReinitAfterRun` says whether the
interface layer may call `init_dma` again after it returned 0.

**The TX refinement.** `EmacTxRefinement` maps the ring onto `EmacTxQueue`:
the frame `emacps_send_message` holds between its length check and the
descriptor write is `held`; the descriptors with USED clear, read from the
DMA pointer round the ring, are `queue`; the buffers still in
`pxDMA_tx_buffers` whose descriptor is USED again are `sent`. `SendStart`
maps to `Submit` or `Reject`, `SendTimeout` to `Drop`, `SendPublish` to
`Enqueue`, `DmaComplete` to `Transmit`, and the reclaim of a slot holding a
buffer to `Release`. Every other step is a stutter.

**AcceptFilter.** A frame is reduced to the fields `xMayAcceptPacket` reads:

- the EtherType;
- the IPv4 flags/offset word;
- the version/IHL byte;
- the protocol;
- the UDP ports.

They are held as host-order numbers. The byte-order argument is in the
module header.

## Runs

| Run | Expect | Instance | Shows |
|---|---|---|---|
| `tx_safety` | pass | NTx = 3, 4 buffers, lengths 41/42/1522/1523, EMAC task has priority | `TypeOK`, `TxDmaReadsOwned`, `TxBufferOwnership`, `TxCreditsMatch`, and the refinement `TxQueueSpec`. |
| `tx_one_slot` | pass | NTx = 1 | The four properties of `tx_safety` other than `TypeOK`, which `tx_safety` already checks. With one slot, head = tail both when the ring is empty and when it is full. |
| `tx_liveness` | pass | NTx = 3, fair | `TxEventuallyTransmitted`. |
| `tx_stranded` | violation | NTx = 3, fair | `TxEventuallyReclaimed` fails. See the findings. |
| `tx_preempt_race` | violation | NTx = 2, SenderPreempts | `TxDmaReadsOwned` fails. See the findings. |
| `rx_safety` | pass | NRx = 3, 5 buffers, 7 frames, queue of 1 | `RxTypeOK`, `RxBufferOwnership`, `RxDescriptorsMatch`, `RxDeliveredInOrder`. |
| `rx_liveness` | pass | NRx = 3, 4 buffers, 4 frames, fair | `RxEventuallyHandled`. |
| `rx_stall_recovery` | pass | NRx = 3, 4 buffers, 3 frames, 2 stalls, fair | `RxStallRecovered`. |
| `init_retry` | pass | NRx = 3, NTx = 2, 5 buffers any of them free, 3 calls | `InitNoLeak`, `InitReady`. |
| `init_after_run` | violation | The same, with `init_dma` called again after it succeeded | `InitReady` fails. See the findings. |
| `accept_filter` | pass | 3200 headers, DNS off | `AcceptMatchesDesign`. |
| `accept_filter_dns` | violation | All options on | `AcceptMatchesDesign` fails on a UDP frame to port 53. |

**Properties.**

- `TxDmaReadsOwned`: every descriptor with USED clear, and the one the DMA is
  reading, points at the buffer its slot owns. That buffer is neither free nor
  back with the stack.
- `TxBufferOwnership`: every buffer has exactly one holder.
- `TxCreditsMatch`: the semaphore count, plus the slots holding a buffer, plus
  a credit taken and not yet used, equals NTx.
- `RxBufferOwnership`: every RX buffer is in exactly one of these places, and
  only once:
  - a slot;
  - the batch being built;
  - a queued batch;
  - the pool.
- `RxDescriptorsMatch`: every RX descriptor points at the buffer
  `pxDMA_rx_buffers` holds for its slot.
- `RxDeliveredInOrder`: the IP task gets only accepted frames, in arrival
  order.
- `TxQueueSpec`: the TX ring, the sender, the checker, the DMA and the
  interrupt together implement `EmacTxQueue`. Frames leave in publication
  order, each once, across wrap-around; a buffer goes back to the pool only
  after its frame was sent; a timed-out frame is dropped without being sent.
- `RxStallRecovered`: every stall of the RX path ends. It needs the memo
  `last_rx_frms_cntr` refreshed on every call (line 840): a stall that
  follows traffic is seen only on the second call after it.
- `InitNoLeak`: across any number of `init_dma` calls that fail for want of
  a buffer, and the retries after them, every buffer has exactly one holder.
- `InitReady`: the call that returns 0 leaves every RX slot with its own
  buffer, NEW clear and WRAP on the last slot only, every TX descriptor USED
  and empty, and NTx credits.

**Why the bounds are enough.**

- **TX.** Three descriptors and four buffers reach every combination: a full
  ring, a wrap of head and tail, the DMA at any slot while the sender is
  between any two steps, and the semaphore at 0 and at NTx. The lengths are
  the two limits of `xValidLength` and one past each.
- **RX.** Three slots with two spare buffers and a queue of one batch reach
  these cases:
  - a full ring, where the DMA drops frames;
  - an empty pool, where the frame is recycled;
  - a full event queue, where the timeout releases the batch;
  - batches of more than one frame;
  - wrap-around.

  Seven frames are enough to wrap the ring twice.
- **Stall.** Two stalls and three frames reach a stall on an idle link (the
  memo already zero) and a stall right after a frame (the memo nonzero, so a
  second probe is needed). The other RX runs set `MaxStalls = 0`.
- **Init.** Three RX slots and five buffers, any subset of them free at the
  first call, with three calls, reach a failure at every slot, a retry after
  a failure with some buffers freed in between, and a second failure.
- **Coverage.** TLC's coverage shows every action of every passing
  configuration firing.
- **Deadlock.** The RX runs set `CHECK_DEADLOCK FALSE`. Once the bounded
  supply of frames is used up, the driver really does wait for the wire.
  The init runs set it too: once every buffer is in a ring and no further
  call is made, only the other modules' steps remain.
- **Symmetry.** It is used on buffers in the safety runs only. Buffers are
  interchangeable model values, and symmetry is unsound for liveness.

**Fairness.**

- **TX.** The DMA, the interrupt and every step of `emacps_check_tx` are
  weakly fair. So is the IP task once it is inside `emacps_send_message`: it
  is a task that has been scheduled and does not block forever. The stack is
  not required to send, and the wire is not required to deliver.
- **RX.** The interrupt, the EMAC task and the IP task are weakly fair. The
  wire is not. The periodic probe `PeriodicResetRx` is weakly fair: the
  interface layer calls `xemacpsif_resetrx_on_no_rxdata` on a timer, so a
  probe that stays possible is eventually made. The stall itself is not
  fair: the hardware need not hang.

**Mutants.** Each property of a passing run has a mutant: a plausible bug in
the code that TLC finds the property violated under. Examples:

- a timeout that forgets to release the buffer;
- a reclaim that does not test USED;
- a re-post with the old buffer;
- prepending to the batch instead of appending;
- an interrupt handler that notifies without setting the event bit;
- a fragment test without its mask.

## Findings

1. **`tx_preempt_race`: the IP task can break `emacps_check_tx`.** This
   happens only if the IP task can preempt `emacps_check_tx`.
   - `emacps_check_tx` reads `txHead` at line 129 and the credit count at
     line 131.
   - A send in between makes the ring look full at a stale head, so the test
     `tail == head && uxCount != N` at line 138 does not stop the loop.
   - The loop then releases the buffer `emacps_send_message` is filling and
     NULLs its slot.
   - The sender then publishes a descriptor with a NULL address.

   With the EMAC task at the higher priority this cannot happen. The theorem
   below proves it for every ring size of at least 2.
2. **`tx_stranded`: a completed frame can stay unreclaimed.**
   - USED is cleared (line 287) before `txHead` moves (line 298).
   - If the DMA completes the frame in that window and `emacps_check_tx` runs,
     the loop breaks at line 138.
   - The buffer then stays in the ring until some later frame completes.
     This contradicts the design's round-trip law in section 8.
3. **`accept_filter_dns`: the DNS rule differs from the design.** The code
   accepts DNS by source port only (line 438). The design accepts either port.
4. **`init_after_run`: a second `init_dma` after frames were sent breaks the
   credit count.**
   - `init_dma` keeps a semaphore that exists (line 675), with the credits
     the frames in flight took.
   - `clean_dma_txdescs` marks every descriptor USED and sets every
     `pxDMA_tx_buffers` entry to NULL without releasing the buffer (line 614).
   - `init_dma` returns 0 with every TX slot free but fewer than NTx credits,
     and the buffers of those frames are lost.

   The design (section 8) says the credits always equal the free
   descriptors. Whether the interface layer ever re-initialises after a link
   loss is decided outside this file; after failed calls only, `init_retry`
   and the theorems below show `init_dma` is correct.

## Proofs

Six modules hold proofs: `EmacTxProofs`, `EmacTxOwnershipProofs`,
`EmacInitProofs`, `EmacRxProofs`, `EmacRxOrderProofs` and
`AcceptFilterProofs`. `tlapm` checks each of them with no step left
unproved. Every safety invariant that a passing run checks is also a
theorem, except the TX refinement (see below). `EmacTxProofs` has two
theorems.

**`TypeCorrect`: `Spec => []TypeOK`.** It holds for all NTx > 0 and any set
of buffers that does not contain NULL. It rests on `TypeInv`, which is
`TypeOK` strengthened with two conjuncts:

- WRAP is set exactly on the last descriptor. The DMA pointer stays in the
  ring only because of it.
- A sender past its first step holds a buffer.

**`TxDmaReadsOwnedThm`: `Spec => []TxDmaReadsOwned`.** It assumes NTx >= 2
and `SenderPreempts = FALSE`. The property is not inductive, so the proof
goes through `IInv` (in `EmacTxInv`). Its parts are:

- **Distances.** Each slot's distance forward from `txTail` places it in one
  of three consecutive segments: sent, still to send, free.
- **Credit count.** The credits that are neither free nor held by the sender
  give the number of slots in flight. `txHead` ends that stretch.
- **DMA position.** The DMA pointer sits at the boundary between sent and
  unsent published slots. Every unsent published slot has USED clear and
  points at its own buffer.
- **Buffer separation.** Ring buffers are distinct, and are neither free nor
  with the stack.
- **The checker's snapshot.** While `emacps_check_tx` runs, its head snapshot
  and `uxCount` are current.

The proof has these steps:

1. `Init => IInv`.
2. `IInv /\ [Next]_vars => IInv'`. This has one step per action, and one
   sub-step per conjunct the action can disturb.
3. `IInv => TxDmaReadsOwned`.
4. The temporal step, by PTL.

The reclaim step carries the real argument:

- `emacps_check_tx` can only reach a slot that is either sent or free.
- The break at line 138 stops it at an empty ring.
- The exception `uxCount = N` is sound because the snapshot is current.

The last point is where `SenderPreempts = FALSE` is needed.

NTx >= 2 is needed because `IInv` is false for a single slot. With one slot
the sender can be between publishing and advancing `txHead` while uxCount
already equals N. `emacps_check_tx` then reclaims the sent slot before the
head moves. Ownership survives this, but the ring shape `IInv` describes does
not. `tx_one_slot` checks the one-slot case with TLC.

`IInv` was checked with TLC as a reachable-state invariant on a
four-descriptor ring before it was proved. The proof now covers every ring
size, so no run repeats that check.

**`EmacInitProofs`.** Three theorems, for all NRx, NTx > 0, every set of
buffers not containing NULL, and any number of calls:

- `InitTypeCorrect`: `InitSpec => []InitTypeOK`. `InitTypeOK` is inductive
  as it stands; the record lemmas `DescUpdate` state what
  `XEmacPs_BdSetAddressRx` and the WRAP write leave in a descriptor.
- `InitNoLeakThm`: with `ReinitAfterRun = FALSE`, `InitSpec => []InitNoLeak`.
- `InitReadyThm`: with the same assumption, `InitSpec => InitReady`.

Both rest on `InitIInv` (in `EmacInitInv`), checked by TLC first. It is
`InitTypeOK` and three parts:

- `Partition`: the free buffers, the stack's, the RX slots' and the TX
  slots' are disjoint, no buffer is in two slots, and every buffer is in one
  of them. `InitNoLeak` follows (lemma `PartitionNoLeak`). The counting form
  is not inductive by itself; the disjointness is what the `InitAlloc` step
  needs, since the buffer it takes must be in no slot.
- `BeforeDone`: until a call returns 0, no TX slot holds a buffer and a
  created semaphore holds all NTx credits. This is where the assumption is
  used: after a successful call `TxInFlight` breaks both.
- `InLoop`: inside a call the slots behind the loop index hold a buffer and
  point at it, the ones ahead are as cloned, and NEW is clear and WRAP set on
  the last slot throughout.

`ReadyStep` shows the only step from the loop to "done" is `InitFinish`, and
that it leaves `RingsReady` true; the theorem combines it with
`[]InitIInv` by PTL.

**`EmacTxOwnershipProofs`.** Two theorems, under the same hypotheses as
`TxDmaReadsOwnedThm` (NTx >= 2, `SenderPreempts = FALSE`):

- `TxBufferOwnershipThm`: `Spec => []TxBufferOwnership`. The inductive
  invariant is `OwnInv == IInv /\ BuffersCovered` (in `EmacTxInv`).
  `IInv` already keeps the ring's buffers apart from the pool and the stack.
  `BuffersCovered` adds that no buffer is lost. `CoveredNext` proves it
  step by step: the buffer `emacps_send_message` stores goes into a slot
  that `FillSlotEmpty` shows is empty. `CoveredOwnership` turns
  "somewhere, and in no two places" into `Cardinality(Holders(b)) = 1`.
- `TxCreditsMatchThm`: `Spec => []TxCreditsMatch` follows from `IInv`
  alone (lemma `IInvCredits`). The descriptors holding a buffer are
  exactly the stretch of published slots from `txTail`. `StretchCard`
  counts that stretch by a bijection onto `0 .. n-1`, so the semaphore
  count, the filled slots and the sender's credit add up to NTx.

**`EmacRxProofs`.** Three theorems, for every ring size, buffer set and
bound: `RxTypeCorrect` (`RxSpec => []RxTypeOK`), `RxDescriptorsMatchThm` and
`RxBufferOwnershipThm`. None of these invariants is inductive alone. They
rest on `RxIInv` (in `EmacRxInv`), whose parts are:

- `RxShape`: WRAP sits on the last descriptor only. Between runs of
  `emacps_check_rx` no batch is held. Without this, a step that starts a run
  could find a half-built batch.
- `RxApart`: the slots, the batch being built, each queued batch and the
  pool hold pairwise disjoint buffers, none twice.
- `RxCovered`: together they hold every buffer.
- `RxFramesReal`: a buffer in a NEW slot or past the ring holds a real
  frame. The recycle step needs it to re-post a fresh buffer.

There is one lemma per action. The ownership theorem splits `RxHolders(b)`
into its four parts (`HoldersSplit`) and shows that exactly one is a
singleton.

Writing `HoldersSplit` exposed an operator-precedence mistake in the
property. `RxHolders` used to parse the queue term so that a buffer in the
queue was never counted. It is now parenthesised, and `rx_safety` checks
the corrected property.

**`EmacRxOrderProofs`.** `RxDeliveredInOrderThm`:
`RxSpec => []RxDeliveredInOrder`. It holds for all constants. The invariant
is `RxOrderInv == RxIInv /\ RxOrder`. A frame passes through five stages:

1. delivered;
2. queued for the IP task, older batches first;
3. in the batch `emacps_check_rx` is building;
4. in a NEW slot of the ring;
5. not yet arrived.

`RxOrder` says:

- Each stage is in arrival order and holds only accepted kinds.
- Every frame of an earlier stage arrived before every frame of a later
  one.
- `RxStretch`: the NEW slots are exactly the stretch from `rxHead` to the
  DMA's pointer. Ring order is by distance from `rxHead` (`RxDistFrom`).
  When the two pointers meet, the stretch is either empty or the full ring.

The per-action lemmas are:

- `RxDmaWriteOrder`: the DMA writes the newest frame just past the stretch.
- `RingPop`: `emacps_check_rx` takes the oldest ring frame, which is newer
  than the batch.
- `PassEthMessagesOrder`: the batch goes behind the queue.
- `IpTaskReceiveOrder`: the oldest batch is appended after everything
  already delivered. `ConcatAt` gives the positions in the concatenation.

The stall, the erratum reset and the interrupt handler change none of
these (`QuietStepsOrder`).

**`AcceptFilterProofs`.** `AcceptMatchesDesignThm` proves
`FilterSpec => []AcceptMatchesDesign` for every header and every set of
bound ports, not only the 3200 headers `accept_filter` enumerates. It
assumes a build with `ipconfigETHERNET_DRIVER_FILTERS_PACKETS` and without
`ipconfigUSE_DNS`:

- Without filtering the driver passes every IPv4 frame, which is not the
  design's filter.
- With DNS the two disagree, which is the finding of `accept_filter_dns`.

The proof compares the two filters case by case on the frame type. Lemma
`UdpAgrees` covers the UDP port rule.

**What stays with TLC.**

- Liveness (`TxEventuallyTransmitted`, `RxEventuallyHandled`,
  `RxStallRecovered`) and the violations. TLAPS does not reason about
  fairness or ENABLED here.
- The TX refinement `TxQueueSpec`, which `tx_safety` and `tx_one_slot`
  check. It is not yet proved. Its mapping reads the queue as the
  descriptors with USED clear, counted by a cardinality, from the DMA
  pointer onwards. A proof would show that each step shifts or extends
  that sequence by one. It would reuse `IInv`, plus a counting argument
  like `StretchCard`. This is the open proof target.
- The one-descriptor TX ring and the preempting sender. The TX theorems
  exclude them, and `tx_one_slot` and `tx_preempt_race` cover them.

## Not modelled

- **The RX queue pointer across the RXEN toggle.** `resetrx_on_no_rxdata`
  is modelled (see EmacRx), but what the toggle does to the receive queue
  pointer is hardware behaviour the source does not state. The model takes
  the pointer to stay where it is, as the driver does by not re-writing it
  after the toggle (lines 830-837).
- **Failures of the vendor ring calls in `init_dma`.** `BdRingCreate`,
  `BdRingClone`, `BdRingAlloc` and `BdRingToHw` cannot fail on a ring of
  this size and alignment, so they are not given failure outcomes.
- **Register programming in `init_dma`.** This covers DMACR, NWCFG, the
  terminator descriptors, the queue bases and the interrupt connection. Its
  failure returns and `EmacEnableIntr`/`EmacDisableIntr` are device I/O.
- **Cache maintenance and descriptor lengths.** These are data that no
  property distinguishes.
- **`is_tx_space_available`.** It only reads the semaphore count.
- **The `isr_events` read-modify-write race.** The EMAC task's clearing of
  the bits lives in `NetworkInterface.c`. The model takes each bit as written
  atomically.
