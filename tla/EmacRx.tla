-------------------------------- MODULE EmacRx --------------------------------
(***************************************************************************)
(* The receive path of the Zynq UltraScale+ GEM driver                     *)
(* (x_emacpsif_dma.c): the RX descriptor ring the GEM DMA writes frames    *)
(* into, the RX interrupt handler emacps_recv_handler, emacps_check_rx run *)
(* by the EMAC task, which hands filled buffers to the IP task in one      *)
(* linked batch and re-posts a fresh buffer in each vacated slot, and      *)
(* prvPassEthMessages, which queues the batch or releases it.              *)
(*                                                                         *)
(* A descriptor is a record: the buffer its address word points at, the    *)
(* NEW bit (set by the DMA when it has written a frame, cleared by the     *)
(* driver when it re-posts the slot) and the WRAP bit.  A frame is a       *)
(* record of an arrival number and a kind; xMayAcceptPacket is abstracted  *)
(* to the set of kinds it accepts.  Every loop iteration of               *)
(* emacps_check_rx is one step: it writes the descriptor's address word,   *)
(* which hands the slot back to the DMA, as its last write.                *)
(***************************************************************************)
EXTENDS Naturals, Sequences, FiniteSets

CONSTANTS
  NRx,            \* ipconfigNIC_N_RX_DESC
  RxBufs,         \* the network buffers of the pool
  NoBuf,          \* NULL
  Kinds,          \* the kinds of frame the wire may carry
  AcceptedKinds,  \* those xMayAcceptPacket returns pdTRUE for
  MaxFrames,      \* the number of frames that arrive in one run
  QueueLen,       \* the room in the IP task's event queue
  MaxStalls       \* the number of times the RX path stalls (SI# 692601)

ASSUME NRxAssumption == NRx \in Nat \ {0}
ASSUME RxBufsAssumption == NoBuf \notin RxBufs /\ IsFiniteSet(RxBufs)
ASSUME KindsAssumption == AcceptedKinds \subseteq Kinds
ASSUME BoundsAssumption ==
  MaxFrames \in Nat /\ QueueLen \in Nat \ {0} /\ MaxStalls \in Nat

VARIABLES
  rxSegments,  \* xemacpsif->rxSegments: the descriptors
  rxBuffers,   \* pxDMA_rx_buffers[]: the buffer posted in each slot
  rxHead,      \* xemacpsif->rxHead: the next slot emacps_check_rx reads
  bufFrame,    \* the frame held in each buffer's payload
  rxDmaPtr,    \* the GEM's receive queue pointer
  rxIrq,       \* a frame-received interrupt is pending
  rxIsrEvent,  \* EMAC_IF_RX_EVENT in xemacpsif->isr_events
  chkRxPc,     \* where the EMAC task is in emacps_check_rx
  chain,       \* pxFirstDescriptor ... pxLastDescriptor: the batch built
  ipQueue,     \* the IP task's event queue: the batches it has received
  delivered,   \* the frames the IP task has taken, in order
  pool,        \* the free network buffers
  arrivals,    \* the number of frames that have arrived on the wire
  rxCnt,       \* XEMACPS_RXCNT # 0: a frame was received since it was read
  lastRxCnt,   \* xemacpsif->last_rx_frms_cntr # 0
  rxStalled,   \* the RX path is unresponsive (SI# 692601)
  stalls       \* the number of stalls so far

erratum == <<rxCnt, lastRxCnt, rxStalled, stalls>>

rxVars == <<rxSegments, rxBuffers, rxHead, bufFrame, rxDmaPtr, rxIrq,
            rxIsrEvent, chkRxPc, chain, ipQueue, delivered, pool, arrivals,
            erratum>>

RxSlots == 0 .. NRx - 1

Frames == [seq : 1 .. MaxFrames, kind : Kinds]

NoFrame == [seq |-> 0, kind |-> NoBuf]

RxDescriptor == [address : RxBufs \cup {NoBuf}, new : BOOLEAN, wrap : BOOLEAN]

\* The buffers of a batch.
ChainBufs(c) == {c[i] : i \in DOMAIN c}

\* The descriptor emacps_check_rx writes when it re-posts buffer b in
\* slot i: flags cleared, the address with NEW clear and WRAP on the last.
Posted(i, b) == [address |-> b, new |-> FALSE, wrap |-> i = NRx - 1]

(* init_dma: every slot gets a buffer from the pool, its descriptor points *)
(* at it with NEW clear, and the last slot gets WRAP.                      *)
Init ==
  /\ \E alloc \in [RxSlots -> RxBufs] :
       /\ \A i, j \in RxSlots : i # j => alloc[i] # alloc[j]
       /\ rxBuffers = alloc
       /\ rxSegments = [i \in RxSlots |-> Posted(i, alloc[i])]
       /\ pool = RxBufs \ {alloc[i] : i \in RxSlots}
  /\ rxHead = 0
  /\ bufFrame = [b \in RxBufs |-> NoFrame]
  /\ rxDmaPtr = 0
  /\ rxIrq = FALSE /\ rxIsrEvent = FALSE
  /\ chkRxPc = "idle"
  /\ chain = <<>> /\ ipQueue = <<>> /\ delivered = <<>>
  /\ arrivals = 0
  /\ rxCnt = FALSE /\ lastRxCnt = FALSE /\ rxStalled = FALSE /\ stalls = 0

-----------------------------------------------------------------------------
(* The GEM DMA.                                                            *)

(* A frame arrives.  A stalled RX path ignores it.  Otherwise, if the     *)
(* descriptor at the queue pointer is the DMA's (NEW clear) the frame goes *)
(* into its buffer, NEW is set, the pointer moves on (to slot 0 after      *)
(* WRAP), RXCNT counts it and a frame-received interrupt is raised; if NEW *)
(* is set no buffer is available and the frame is dropped.                 *)
RxDmaReceive(k) ==
  /\ arrivals < MaxFrames
  /\ arrivals' = arrivals + 1
  /\ LET d == rxSegments[rxDmaPtr] IN
     IF ~rxStalled /\ ~d.new
       THEN /\ bufFrame' = [bufFrame EXCEPT ![d.address] =
                              [seq |-> arrivals + 1, kind |-> k]]
            /\ rxSegments' = [rxSegments EXCEPT ![rxDmaPtr].new = TRUE]
            /\ rxDmaPtr' = IF d.wrap THEN 0 ELSE rxDmaPtr + 1
            /\ rxIrq' = TRUE
            /\ rxCnt' = TRUE
       ELSE UNCHANGED <<bufFrame, rxSegments, rxDmaPtr, rxIrq, rxCnt>>
  /\ UNCHANGED <<rxBuffers, rxHead, rxIsrEvent, chkRxPc, chain, ipQueue,
                 delivered, pool, lastRxCnt, rxStalled, stalls>>

(* Under heavy traffic the GEM's RX path can become unresponsive.          *)
RxStall ==
  /\ ~rxStalled /\ stalls < MaxStalls
  /\ rxStalled' = TRUE /\ stalls' = stalls + 1
  /\ UNCHANGED <<rxSegments, rxBuffers, rxHead, bufFrame, rxDmaPtr, rxIrq,
                 rxIsrEvent, chkRxPc, chain, ipQueue, delivered, pool,
                 arrivals, rxCnt, lastRxCnt>>

\* Mutant: the handler notifies the task but does not set EMAC_IF_RX_EVENT.
RecvHandlerNoEvent ==
  /\ rxIrq
  /\ rxIrq' = FALSE
  /\ UNCHANGED <<rxSegments, rxBuffers, rxHead, bufFrame, rxDmaPtr,
                 rxIsrEvent, chkRxPc, chain, ipQueue, delivered, pool,
                 arrivals, erratum>>

(* emacps_recv_handler: set EMAC_IF_RX_EVENT and notify the EMAC task.     *)
RecvHandler ==
  /\ rxIrq
  /\ rxIrq' = FALSE
  /\ rxIsrEvent' = TRUE
  /\ UNCHANGED <<rxSegments, rxBuffers, rxHead, bufFrame, rxDmaPtr, chkRxPc,
                 chain, ipQueue, delivered, pool, arrivals, erratum>>

-----------------------------------------------------------------------------
(* emacps_check_rx, run by the EMAC task.                                  *)

(* resetrx_on_no_rxdata: RXCNT is read (reading clears it); if it and the *)
(* count remembered from the previous call are both zero, RXEN is cleared  *)
(* and set again, which restarts a stalled RX path.  The count read is     *)
(* remembered in every case.  The code only ever compares the two counts  *)
(* with zero, so each is held as "not zero".                               *)
\* Mutant: the count is remembered only when it is not zero.
ResetRxOnNoRxDataKeepLast ==
  /\ rxCnt' = FALSE
  /\ lastRxCnt' = (rxCnt \/ lastRxCnt)
  /\ rxStalled' = (rxStalled /\ (rxCnt \/ lastRxCnt))

ResetRxOnNoRxData ==
  /\ rxCnt' = FALSE
  /\ lastRxCnt' = rxCnt
  /\ rxStalled' = (rxStalled /\ (rxCnt \/ lastRxCnt))

(* The EMAC task finds EMAC_IF_RX_EVENT set, clears it and calls          *)
(* emacps_check_rx, which runs resetrx_on_no_rxdata and starts with an     *)
(* empty batch at rxHead.                                                  *)
CheckRxStart ==
  /\ chkRxPc = "idle" /\ rxIsrEvent
  /\ rxIsrEvent' = FALSE
  /\ ResetRxOnNoRxData
  /\ chkRxPc' = "loop"
  /\ chain' = <<>>
  /\ UNCHANGED <<rxSegments, rxBuffers, rxHead, bufFrame, rxDmaPtr, rxIrq,
                 ipQueue, delivered, pool, arrivals, stalls>>

(* The periodic call of resetrx_on_no_rxdata made through                  *)
(* xemacpsif_resetrx_on_no_rxdata by the interface layer, from the EMAC    *)
(* task between two runs of emacps_check_rx.                               *)
PeriodicResetRx ==
  /\ chkRxPc = "idle"
  /\ ResetRxOnNoRxData
  /\ UNCHANGED <<rxSegments, rxBuffers, rxHead, bufFrame, rxDmaPtr, rxIrq,
                 rxIsrEvent, chkRxPc, chain, ipQueue, delivered, pool,
                 arrivals, stalls>>

\* The slot at rxHead holds a frame the driver has not yet read.
RxFilled == rxSegments[rxHead].new /\ rxBuffers[rxHead] # NoBuf

\* Mutant: the wrap test compares with the slot count after the increment.
NextRxSlotLate(i) == IF i = NRx THEN 0 ELSE i + 1

NextRxSlot(i) == IF i + 1 = NRx THEN 0 ELSE i + 1

\* Mutant: the slot is re-posted with the old buffer's address.
CheckRxHandOffPostsOld ==
  /\ chkRxPc = "loop" /\ RxFilled
  /\ bufFrame[rxBuffers[rxHead]].kind \in AcceptedKinds
  /\ \E nb \in pool :
       /\ pool' = pool \ {nb}
       /\ rxBuffers' = [rxBuffers EXCEPT ![rxHead] = nb]
       /\ rxSegments' = [rxSegments EXCEPT ![rxHead] =
                           Posted(rxHead, rxBuffers[rxHead])]
  /\ chain' = Append(chain, rxBuffers[rxHead])
  /\ rxHead' = NextRxSlot(rxHead)
  /\ UNCHANGED <<bufFrame, rxDmaPtr, rxIrq, rxIsrEvent, chkRxPc, ipQueue,
                 delivered, arrivals, erratum>>

\* Mutant: each frame is put at the front of the batch.
CheckRxHandOffPrepend ==
  /\ chkRxPc = "loop" /\ RxFilled
  /\ bufFrame[rxBuffers[rxHead]].kind \in AcceptedKinds
  /\ \E nb \in pool :
       /\ pool' = pool \ {nb}
       /\ rxBuffers' = [rxBuffers EXCEPT ![rxHead] = nb]
       /\ rxSegments' = [rxSegments EXCEPT ![rxHead] = Posted(rxHead, nb)]
  /\ chain' = <<rxBuffers[rxHead]>> \o chain
  /\ rxHead' = NextRxSlot(rxHead)
  /\ UNCHANGED <<bufFrame, rxDmaPtr, rxIrq, rxIsrEvent, chkRxPc, ipQueue,
                 delivered, arrivals, erratum>>

(* One iteration that hands the frame on: xMayAcceptPacket accepts it and  *)
(* pxGetNetworkBufferWithDescriptor returns a fresh buffer nb.  The old    *)
(* buffer joins the tail of the batch, nb takes its place in              *)
(* pxDMA_rx_buffers, the slot is re-posted with nb and rxHead moves on.    *)
CheckRxHandOff ==
  /\ chkRxPc = "loop" /\ RxFilled
  /\ bufFrame[rxBuffers[rxHead]].kind \in AcceptedKinds
  /\ \E nb \in pool :
       /\ pool' = pool \ {nb}
       /\ rxBuffers' = [rxBuffers EXCEPT ![rxHead] = nb]
       /\ rxSegments' = [rxSegments EXCEPT ![rxHead] = Posted(rxHead, nb)]
  /\ chain' = Append(chain, rxBuffers[rxHead])
  /\ rxHead' = NextRxSlot(rxHead)
  /\ UNCHANGED <<bufFrame, rxDmaPtr, rxIrq, rxIsrEvent, chkRxPc, ipQueue,
                 delivered, arrivals, erratum>>

(* One iteration that drops the frame: xMayAcceptPacket refuses it, or no  *)
(* buffer is free.  The same buffer is re-posted and rxHead moves on.      *)
CheckRxRecycle ==
  /\ chkRxPc = "loop" /\ RxFilled
  /\ bufFrame[rxBuffers[rxHead]].kind \notin AcceptedKinds \/ pool = {}
  /\ rxSegments' = [rxSegments EXCEPT ![rxHead] =
                      Posted(rxHead, rxBuffers[rxHead])]
  /\ rxHead' = NextRxSlot(rxHead)
  /\ UNCHANGED <<rxBuffers, bufFrame, rxDmaPtr, rxIrq, rxIsrEvent, chkRxPc,
                 chain, ipQueue, delivered, pool, arrivals, erratum>>

(* The loop ends at the first slot without a new frame; a non-empty batch  *)
(* goes to prvPassEthMessages, otherwise emacps_check_rx returns.          *)
CheckRxBreak ==
  /\ chkRxPc = "loop" /\ ~RxFilled
  /\ chkRxPc' = IF chain = <<>> THEN "idle" ELSE "pass"
  /\ UNCHANGED <<rxSegments, rxBuffers, rxHead, bufFrame, rxDmaPtr, rxIrq,
                 rxIsrEvent, chain, ipQueue, delivered, pool, arrivals,
                 erratum>>

(* prvPassEthMessages: xSendEventStructToIPTask queues the batch once the *)
(* event queue has room (it waits up to 1000 ticks for it).               *)
PassEthMessages ==
  /\ chkRxPc = "pass" /\ Len(ipQueue) < QueueLen
  /\ ipQueue' = Append(ipQueue, chain)
  /\ chain' = <<>>
  /\ chkRxPc' = "idle"
  /\ UNCHANGED <<rxSegments, rxBuffers, rxHead, bufFrame, rxDmaPtr, rxIrq,
                 rxIsrEvent, delivered, pool, arrivals, erratum>>

\* Mutant: the batch is dropped on timeout without releasing its buffers.
PassEthMessagesTimeoutNoRelease ==
  /\ chkRxPc = "pass" /\ Len(ipQueue) = QueueLen
  /\ chain' = <<>>
  /\ chkRxPc' = "idle"
  /\ UNCHANGED <<rxSegments, rxBuffers, rxHead, bufFrame, rxDmaPtr, rxIrq,
                 rxIsrEvent, ipQueue, delivered, pool, arrivals, erratum>>

(* The wait times out with the queue still full: every buffer of the      *)
(* batch is released with vReleaseNetworkBufferAndDescriptor.             *)
PassEthMessagesTimeout ==
  /\ chkRxPc = "pass" /\ Len(ipQueue) = QueueLen
  /\ pool' = pool \cup ChainBufs(chain)
  /\ chain' = <<>>
  /\ chkRxPc' = "idle"
  /\ UNCHANGED <<rxSegments, rxBuffers, rxHead, bufFrame, rxDmaPtr, rxIrq,
                 rxIsrEvent, ipQueue, delivered, arrivals, erratum>>

-----------------------------------------------------------------------------
(* The IP task takes the oldest batch, processes its frames in list order *)
(* and releases their buffers.                                             *)
IpTaskReceive ==
  /\ ipQueue # <<>>
  /\ LET c == Head(ipQueue) IN
       /\ delivered' = delivered \o [i \in DOMAIN c |-> bufFrame[c[i]]]
       /\ pool' = pool \cup ChainBufs(c)
  /\ ipQueue' = Tail(ipQueue)
  /\ UNCHANGED <<rxSegments, rxBuffers, rxHead, bufFrame, rxDmaPtr, rxIrq,
                 rxIsrEvent, chkRxPc, chain, arrivals, erratum>>

RxNext ==
  \/ \E k \in Kinds : RxDmaReceive(k)
  \/ RxStall \/ PeriodicResetRx
  \/ RecvHandler
  \/ CheckRxStart \/ CheckRxHandOff \/ CheckRxRecycle \/ CheckRxBreak
  \/ PassEthMessages \/ PassEthMessagesTimeout
  \/ IpTaskReceive

RxSpec == Init /\ [][RxNext]_rxVars

(* The EMAC task, the RX interrupt and the IP task always make progress,   *)
(* and the periodic probe keeps being made; the wire need not deliver      *)
(* frames and the hardware need not stall.                                 *)
RxFairness ==
  /\ WF_rxVars(RecvHandler)
  /\ WF_rxVars(CheckRxStart) /\ WF_rxVars(CheckRxHandOff)
  /\ WF_rxVars(CheckRxRecycle) /\ WF_rxVars(CheckRxBreak)
  /\ WF_rxVars(PassEthMessages \/ PassEthMessagesTimeout)
  /\ WF_rxVars(IpTaskReceive)
  /\ WF_rxVars(PeriodicResetRx)

RxFairSpec == RxSpec /\ RxFairness

-----------------------------------------------------------------------------
(* Properties.                                                             *)

RxTypeOK ==
  /\ rxSegments \in [RxSlots -> RxDescriptor]
  /\ rxBuffers \in [RxSlots -> RxBufs \cup {NoBuf}]
  /\ rxHead \in RxSlots /\ rxDmaPtr \in RxSlots
  /\ bufFrame \in [RxBufs -> Frames \cup {NoFrame}]
  /\ rxIrq \in BOOLEAN /\ rxIsrEvent \in BOOLEAN
  /\ chkRxPc \in {"idle", "loop", "pass"}
  /\ chain \in Seq(RxBufs) /\ ipQueue \in Seq(Seq(RxBufs))
  /\ delivered \in Seq(Frames)
  /\ pool \in SUBSET RxBufs
  /\ arrivals \in 0 .. MaxFrames
  /\ rxCnt \in BOOLEAN /\ lastRxCnt \in BOOLEAN
  /\ rxStalled \in BOOLEAN /\ stalls \in 0 .. MaxStalls

(* Every network buffer has exactly one owner: a slot of pxDMA_rx_buffers, *)
(* one place in the batch emacps_check_rx is building, one place in a     *)
(* batch queued for the IP task, or the pool.  A buffer handed to the IP   *)
(* task and left in the ring, released twice, or lost, breaks it.          *)
RxHolders(b) ==
  {<<"slot", i>> : i \in {i \in RxSlots : rxBuffers[i] = b}}
    \cup {<<"chain", i>> : i \in {i \in DOMAIN chain : chain[i] = b}}
    \cup (UNION {{<<"queue", q, i>> : i \in {i \in DOMAIN ipQueue[q] :
                                              ipQueue[q][i] = b}}
                  : q \in DOMAIN ipQueue})
    \cup (IF b \in pool THEN {<<"pool">>} ELSE {})

RxBufferOwnership == \A b \in RxBufs : Cardinality(RxHolders(b)) = 1

(* The DMA writes only into the buffer the driver has posted: every       *)
(* descriptor's address word points at the buffer pxDMA_rx_buffers holds  *)
(* for its slot, so emacps_check_rx reads the frame the DMA wrote and the  *)
(* DMA never writes into a buffer the driver has handed on.               *)
RxDescriptorsMatch ==
  \A i \in RxSlots : rxSegments[i].address = rxBuffers[i]

(* The IP task receives only frames xMayAcceptPacket accepted, and it      *)
(* receives them in the order they arrived on the wire, across slots,      *)
(* wrap-around and batches.                                                *)
RxDeliveredInOrder ==
  /\ \A i \in DOMAIN delivered : delivered[i].kind \in AcceptedKinds
  /\ \A i, j \in DOMAIN delivered : i < j => delivered[i].seq < delivered[j].seq

(* Every frame the DMA writes into the ring is eventually taken out of it  *)
(* by emacps_check_rx: the RX interrupt always leads to a pass over the    *)
(* ring that reaches the slot, whatever the stack and the pool do.         *)
RxEventuallyHandled ==
  \A i \in RxSlots : rxSegments[i].new ~> ~rxSegments[i].new

(* A stalled RX path is always restarted: resetrx_on_no_rxdata, called   *)
(* periodically, sees RXCNT read zero twice running and toggles RXEN,      *)
(* whatever count the traffic before the stall left remembered.           *)
RxStallRecovered == rxStalled ~> ~rxStalled

=============================================================================
