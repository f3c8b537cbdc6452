------------------------------ MODULE EmacRxInv ------------------------------
(***************************************************************************)
(* The inductive invariant behind the RX safety properties of EmacRx.     *)
(* Each network buffer is in exactly one of four places: a slot of        *)
(* pxDMA_rx_buffers, the batch emacps_check_rx is building, a batch in the *)
(* IP task's queue, or the pool; and every buffer that has left the ring,  *)
(* or sits in a slot whose NEW bit the DMA has set, holds a real frame.    *)
(***************************************************************************)
EXTENDS EmacRx

\* A sequence that holds no buffer twice.
NoRepeat(s) == \A i, j \in DOMAIN s : i # j => s[i] # s[j]

\* The buffers posted in the ring.
SlotBufs == {rxBuffers[i] : i \in RxSlots}

\* The buffers of a sequence of batches.
QueueBufsOf(Q) == UNION {ChainBufs(Q[q]) : q \in DOMAIN Q}

\* The buffers of the batches queued for the IP task.
QueueBufs == QueueBufsOf(ipQueue)

(* Every slot holds a buffer of the pool's set (init_dma and               *)
(* emacps_check_rx only post buffers they obtained), and every descriptor *)
(* carries WRAP exactly when it is the last of the ring (setup_rx_bds and *)
(* emacps_check_rx write it so, the DMA only sets NEW).  Between two runs *)
(* of emacps_check_rx no batch is held: prvPassEthMessages has queued or  *)
(* released it, and the loop returns at once when it found no frame.      *)
RxShape ==
  /\ rxBuffers \in [RxSlots -> RxBufs]
  /\ \A i \in RxSlots : rxSegments[i].wrap <=> i = NRx - 1
  /\ chkRxPc = "idle" => chain = <<>>

(* No buffer is in two places, or twice in one.                            *)
RxApart ==
  /\ \A i, j \in RxSlots : i # j => rxBuffers[i] # rxBuffers[j]
  /\ NoRepeat(chain)
  /\ \A q \in DOMAIN ipQueue : NoRepeat(ipQueue[q])
  /\ \A q, r \in DOMAIN ipQueue :
       q # r => ChainBufs(ipQueue[q]) \cap ChainBufs(ipQueue[r]) = {}
  /\ SlotBufs \cap ChainBufs(chain) = {}
  /\ SlotBufs \cap QueueBufs = {}
  /\ SlotBufs \cap pool = {}
  /\ ChainBufs(chain) \cap QueueBufs = {}
  /\ ChainBufs(chain) \cap pool = {}
  /\ QueueBufs \cap pool = {}

(* No buffer is lost.                                                      *)
RxCovered == SlotBufs \cup ChainBufs(chain) \cup QueueBufs \cup pool = RxBufs

(* A buffer the DMA has filled, and every buffer handed on from the ring,  *)
(* holds a frame that arrived on the wire.                                 *)
RxFramesReal ==
  /\ \A i \in RxSlots : rxSegments[i].new => bufFrame[rxBuffers[i]] \in Frames
  /\ \A b \in ChainBufs(chain) \cup QueueBufs : bufFrame[b] \in Frames

RxIInv ==
  /\ RxTypeOK
  /\ RxDescriptorsMatch
  /\ RxShape
  /\ RxApart
  /\ RxCovered
  /\ RxFramesReal
-----------------------------------------------------------------------------
(* The order of frames.  A frame is in one of five stages, oldest first:  *)
(* delivered, queued for the IP task (older batches first), in the batch   *)
(* emacps_check_rx is building, in a slot of the ring with NEW set, or not *)
(* yet arrived.  Every frame of an earlier stage arrived before every      *)
(* frame of a later one, and within a stage they keep arrival order.       *)

\* How far slot i lies ahead of slot t, going forward round the ring.
RxDistFrom(t, i) == IF i >= t THEN i - t ELSE i + NRx - t

\* The slots holding a frame emacps_check_rx has not yet read.
NewSlots == {i \in RxSlots : rxSegments[i].new}

(* The slots with NEW set run from rxHead up to the DMA's queue pointer:   *)
(* the DMA sets NEW at its pointer and moves on, emacps_check_rx clears it *)
(* at rxHead and moves on; when the two meet the ring is full or empty.    *)
RxStretch ==
  \A i \in RxSlots :
    i \in NewSlots <=>
      \/ rxHead = rxDmaPtr /\ rxHead \in NewSlots
      \/ RxDistFrom(rxHead, i) < RxDistFrom(rxHead, rxDmaPtr)

\* The arrival number of the frame in buffer b.
SeqOf(b) == bufFrame[b].seq

\* The arrival numbers of the frames of a batch, and of the ring.
BatchSeqs(c) == {SeqOf(c[i]) : i \in DOMAIN c}
RingSeqs == {SeqOf(rxBuffers[i]) : i \in NewSlots}
DeliveredSeqs == {delivered[i].seq : i \in DOMAIN delivered}

\* Every number of A is below every number of B.
Below(A, B) == \A x \in A, y \in B : x < y

\* A batch in arrival order, holding only frames the filter accepted.
BatchInOrder(c) ==
  /\ \A i \in DOMAIN c : bufFrame[c[i]].kind \in AcceptedKinds
  /\ \A i, j \in DOMAIN c : i < j => SeqOf(c[i]) < SeqOf(c[j])

RxOrder ==
  /\ RxStretch
  /\ \A b \in RxBufs : SeqOf(b) <= arrivals
  /\ \A x \in DeliveredSeqs : x <= arrivals
  /\ \A i, j \in NewSlots :
       RxDistFrom(rxHead, i) < RxDistFrom(rxHead, j) =>
         SeqOf(rxBuffers[i]) < SeqOf(rxBuffers[j])
  /\ BatchInOrder(chain)
  /\ \A q \in DOMAIN ipQueue : BatchInOrder(ipQueue[q])
  /\ RxDeliveredInOrder
  /\ \A q, r \in DOMAIN ipQueue :
       q < r => Below(BatchSeqs(ipQueue[q]), BatchSeqs(ipQueue[r]))
  /\ \A q \in DOMAIN ipQueue :
       /\ Below(DeliveredSeqs, BatchSeqs(ipQueue[q]))
       /\ Below(BatchSeqs(ipQueue[q]), BatchSeqs(chain))
       /\ Below(BatchSeqs(ipQueue[q]), RingSeqs)
  /\ Below(DeliveredSeqs, BatchSeqs(chain))
  /\ Below(DeliveredSeqs, RingSeqs)
  /\ Below(BatchSeqs(chain), RingSeqs)

RxOrderInv == RxIInv /\ RxOrder
=============================================================================
