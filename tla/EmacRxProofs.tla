----------------------------- MODULE EmacRxProofs -----------------------------
(***************************************************************************)
(* Proofs of the RX safety properties of EmacRx for every ring size, pool *)
(* and queue length: RxTypeOK, RxDescriptorsMatch and RxBufferOwnership    *)
(* follow from the inductive invariant RxIInv of EmacRxInv.               *)
(***************************************************************************)
EXTENDS EmacRxInv, FiniteSetTheorems, SequenceTheorems, TLAPS

USE NRxAssumption, RxBufsAssumption, KindsAssumption, BoundsAssumption

-----------------------------------------------------------------------------
(* Lemmas on the buffers of batches and queues.                            *)

LEMMA AppendBufs ==
  ASSUME NEW S, NEW s \in Seq(S), NEW e \in S
  PROVE  /\ ChainBufs(Append(s, e)) = ChainBufs(s) \cup {e}
         /\ NoRepeat(s) /\ e \notin ChainBufs(s) => NoRepeat(Append(s, e))
<1>1. /\ DOMAIN Append(s, e) = 1 .. Len(s) + 1
      /\ \A i \in 1 .. Len(s) : Append(s, e)[i] = s[i]
      /\ Append(s, e)[Len(s) + 1] = e
      /\ DOMAIN s = 1 .. Len(s)
  BY AppendProperties
<1>2. ChainBufs(Append(s, e)) = ChainBufs(s) \cup {e}
  BY <1>1 DEF ChainBufs
<1>3. QED
  BY <1>1 DEF NoRepeat, ChainBufs

LEMMA EmptyBufs ==
  /\ ChainBufs(<<>>) = {}
  /\ NoRepeat(<<>>)
  /\ QueueBufsOf(<<>>) = {}
BY DEF ChainBufs, NoRepeat, QueueBufsOf

LEMMA QueueAppendBufs ==
  ASSUME NEW S, NEW Q \in Seq(Seq(S)), NEW c \in Seq(S)
  PROVE  /\ QueueBufsOf(Append(Q, c)) = QueueBufsOf(Q) \cup ChainBufs(c)
         /\ \A q \in 1 .. Len(Q) : Append(Q, c)[q] = Q[q]
         /\ Append(Q, c)[Len(Q) + 1] = c
         /\ DOMAIN Append(Q, c) = 1 .. Len(Q) + 1
<1>1. /\ DOMAIN Append(Q, c) = 1 .. Len(Q) + 1
      /\ \A q \in 1 .. Len(Q) : Append(Q, c)[q] = Q[q]
      /\ Append(Q, c)[Len(Q) + 1] = c
      /\ DOMAIN Q = 1 .. Len(Q)
  BY AppendProperties
<1>2. QED
  BY <1>1 DEF QueueBufsOf

LEMMA QueueTailBufs ==
  ASSUME NEW S, NEW Q \in Seq(Seq(S)), Q # <<>>
  PROVE  /\ QueueBufsOf(Q) = ChainBufs(Head(Q)) \cup QueueBufsOf(Tail(Q))
         /\ DOMAIN Tail(Q) = 1 .. Len(Q) - 1
         /\ \A q \in 1 .. Len(Q) - 1 : Tail(Q)[q] = Q[q + 1]
         /\ Head(Q) = Q[1] /\ 1 \in DOMAIN Q
<1>1. /\ Tail(Q) \in Seq(Seq(S))
      /\ Len(Tail(Q)) = Len(Q) - 1
      /\ \A q \in 1 .. Len(Tail(Q)) : Tail(Q)[q] = Q[q + 1]
      /\ DOMAIN Q = 1 .. Len(Q) /\ Len(Q) >= 1
      /\ Head(Q) = Q[1]
  BY HeadTailProperties, EmptySeq
<1>2. DOMAIN Tail(Q) = 1 .. Len(Q) - 1
  BY <1>1
<1>3. QueueBufsOf(Q) = ChainBufs(Head(Q)) \cup QueueBufsOf(Tail(Q))
  <2>1. \A q \in DOMAIN Q : q = 1 \/ (q - 1 \in DOMAIN Tail(Q) /\ Tail(Q)[q - 1] = Q[q])
    BY <1>1, <1>2
  <2>2. \A q \in DOMAIN Tail(Q) : q + 1 \in DOMAIN Q /\ Tail(Q)[q] = Q[q + 1]
    BY <1>1, <1>2
  <2>3. ASSUME NEW b \in QueueBufsOf(Q)
        PROVE  b \in ChainBufs(Head(Q)) \cup QueueBufsOf(Tail(Q))
    <3>1. PICK q \in DOMAIN Q : b \in ChainBufs(Q[q])
      BY DEF QueueBufsOf
    <3>2. CASE q = 1
      BY <3>1, <3>2, <1>1
    <3>3. CASE q # 1
      BY <3>1, <3>3, <2>1 DEF QueueBufsOf
    <3>4. QED
      BY <3>2, <3>3
  <2>4. ASSUME NEW b \in ChainBufs(Head(Q)) \cup QueueBufsOf(Tail(Q))
        PROVE  b \in QueueBufsOf(Q)
    <3>1. CASE b \in ChainBufs(Head(Q))
      BY <3>1, <1>1 DEF QueueBufsOf
    <3>2. CASE b \in QueueBufsOf(Tail(Q))
      <4>1. PICK q \in DOMAIN Tail(Q) : b \in ChainBufs(Tail(Q)[q])
        BY <3>2 DEF QueueBufsOf
      <4>2. QED
        BY <4>1, <2>2 DEF QueueBufsOf
    <3>3. QED
      BY <3>1, <3>2
  <2>5. QED
    BY <2>3, <2>4
<1>4. QED
  BY <1>1, <1>2, <1>3
-----------------------------------------------------------------------------
(* init_dma establishes the invariant.                                     *)

LEMMA InitRxIInv ==
  Init => RxIInv
<1> SUFFICES ASSUME Init PROVE RxIInv
  OBVIOUS
<1>1. PICK alloc \in [RxSlots -> RxBufs] :
        /\ \A i, j \in RxSlots : i # j => alloc[i] # alloc[j]
        /\ rxBuffers = alloc
        /\ rxSegments = [i \in RxSlots |-> Posted(i, alloc[i])]
        /\ pool = RxBufs \ {alloc[i] : i \in RxSlots}
  BY DEF Init
<1>2. /\ rxHead = 0 /\ rxDmaPtr = 0
      /\ bufFrame = [b \in RxBufs |-> NoFrame]
      /\ rxIrq = FALSE /\ rxIsrEvent = FALSE /\ chkRxPc = "idle"
      /\ chain = <<>> /\ ipQueue = <<>> /\ delivered = <<>>
      /\ arrivals = 0 /\ rxCnt = FALSE /\ lastRxCnt = FALSE
      /\ rxStalled = FALSE /\ stalls = 0
  BY DEF Init
<1>3. \A i \in RxSlots : Posted(i, alloc[i]) \in RxDescriptor
  BY DEF Posted, RxDescriptor
<1>4. RxTypeOK
  <2>1. rxSegments \in [RxSlots -> RxDescriptor]
        /\ rxBuffers \in [RxSlots -> RxBufs \cup {NoBuf}]
    BY <1>1, <1>3
  <2>2. rxHead \in RxSlots /\ rxDmaPtr \in RxSlots
    BY <1>2 DEF RxSlots
  <2>3. bufFrame \in [RxBufs -> Frames \cup {NoFrame}]
    BY <1>2
  <2>4. chain \in Seq(RxBufs) /\ ipQueue \in Seq(Seq(RxBufs))
        /\ delivered \in Seq(Frames)
    BY <1>2, EmptySeq
  <2>5. pool \in SUBSET RxBufs /\ arrivals \in 0 .. MaxFrames
        /\ stalls \in 0 .. MaxStalls
    BY <1>1, <1>2
  <2>6. QED
    BY <1>2, <2>1, <2>2, <2>3, <2>4, <2>5 DEF RxTypeOK
<1>5. RxDescriptorsMatch /\ RxShape
  BY <1>1, <1>2 DEF RxDescriptorsMatch, RxShape, Posted
<1>6. ChainBufs(chain) = {} /\ NoRepeat(chain) /\ QueueBufs = {}
      /\ DOMAIN ipQueue = {}
  BY <1>2, EmptyBufs DEF QueueBufs
<1>7. RxApart
  BY <1>1, <1>6 DEF RxApart, SlotBufs
<1>8. RxCovered
  BY <1>1, <1>6 DEF RxCovered, SlotBufs
<1>9. RxFramesReal
  BY <1>1, <1>6 DEF RxFramesReal, Posted
<1>10. QED
  BY <1>4, <1>5, <1>7, <1>8, <1>9 DEF RxIInv
-----------------------------------------------------------------------------
(* The steps that move no buffer and write no descriptor or payload: the   *)
(* RX interrupt, the stall, the periodic probe, the start and the end of   *)
(* the loop of emacps_check_rx.                                            *)

LEMMA DataUnchanged ==
  ASSUME RxIInv, RxTypeOK',
         UNCHANGED <<rxSegments, rxBuffers, bufFrame, chain, ipQueue, pool>>,
         chkRxPc' = "idle" => chain = <<>>
  PROVE  RxIInv'
<1>1. RxDescriptorsMatch'
  BY DEF RxIInv, RxDescriptorsMatch
<1>2. RxShape'
  BY DEF RxIInv, RxShape
<1>3. SlotBufs' = SlotBufs /\ QueueBufs' = QueueBufs
  BY DEF SlotBufs, QueueBufs, QueueBufsOf
<1>4. RxApart' /\ RxCovered' /\ RxFramesReal'
  BY <1>3 DEF RxIInv, RxApart, RxCovered, RxFramesReal, NoRepeat
<1>5. QED
  BY <1>1, <1>2, <1>4 DEF RxIInv

LEMMA RecvHandlerIInv ==
  ASSUME RxIInv, RecvHandler
  PROVE  RxIInv'
<1>1. RxTypeOK'
  BY DEF RxIInv, RxTypeOK, RecvHandler, erratum
<1>2. QED
  BY <1>1, DataUnchanged DEF RecvHandler, RxIInv, RxShape

LEMMA RxStallIInv ==
  ASSUME RxIInv, RxStall
  PROVE  RxIInv'
<1>1. RxTypeOK'
  BY DEF RxIInv, RxTypeOK, RxStall
<1>2. QED
  BY <1>1, DataUnchanged DEF RxStall, RxIInv, RxShape

LEMMA PeriodicResetRxIInv ==
  ASSUME RxIInv, PeriodicResetRx
  PROVE  RxIInv'
<1>1. RxTypeOK'
  BY DEF RxIInv, RxTypeOK, PeriodicResetRx, ResetRxOnNoRxData
<1>2. QED
  BY <1>1, DataUnchanged DEF PeriodicResetRx, RxIInv, RxShape

LEMMA CheckRxStartIInv ==
  ASSUME RxIInv, CheckRxStart
  PROVE  RxIInv'
<1>1. chain = <<>>
  BY DEF CheckRxStart, RxIInv, RxShape
<1>2. RxTypeOK'
  BY EmptySeq DEF RxIInv, RxTypeOK, CheckRxStart, ResetRxOnNoRxData
<1>3. QED
  BY <1>1, <1>2, DataUnchanged DEF CheckRxStart

LEMMA CheckRxBreakIInv ==
  ASSUME RxIInv, CheckRxBreak
  PROVE  RxIInv'
<1>1. RxTypeOK'
  BY DEF RxIInv, RxTypeOK, CheckRxBreak, erratum
<1>2. QED
  BY <1>1, DataUnchanged DEF CheckRxBreak, erratum
-----------------------------------------------------------------------------
(* The DMA writes a frame only into the buffer of the slot at its queue    *)
(* pointer, which by RxDescriptorsMatch is the buffer the driver posted    *)
(* there and by RxApart is in no batch: the batches keep their frames.     *)

LEMMA RxDmaReceiveIInv ==
  ASSUME RxIInv, NEW k \in Kinds, RxDmaReceive(k)
  PROVE  RxIInv'
<1> DEFINE p == rxDmaPtr
           d == rxSegments[p]
<1>0. /\ RxTypeOK /\ RxDescriptorsMatch /\ RxShape /\ RxApart
      /\ RxCovered /\ RxFramesReal
  BY DEF RxIInv
<1>1. /\ arrivals < MaxFrames /\ arrivals' = arrivals + 1
      /\ UNCHANGED <<rxBuffers, rxHead, rxIsrEvent, chkRxPc, chain, ipQueue,
                     delivered, pool, lastRxCnt, rxStalled, stalls>>
  BY DEF RxDmaReceive
<1>2. p \in RxSlots /\ d \in RxDescriptor /\ d.address = rxBuffers[p]
      /\ rxBuffers[p] \in RxBufs
  BY <1>0 DEF RxTypeOK, RxDescriptorsMatch, RxShape
<1>3. CASE ~(~rxStalled /\ ~d.new)
  <2>1. UNCHANGED <<bufFrame, rxSegments, rxDmaPtr, rxIrq, rxCnt>>
    BY <1>3 DEF RxDmaReceive
  <2>2. RxTypeOK'
    BY <1>0, <1>1, <2>1 DEF RxTypeOK
  <2>3. QED
    BY <1>0, <1>1, <2>1, <2>2, DataUnchanged DEF RxShape
<1>4. CASE ~rxStalled /\ ~d.new
  <2> DEFINE f == [seq |-> arrivals + 1, kind |-> k]
  <2>1. /\ bufFrame' = [bufFrame EXCEPT ![d.address] = f]
        /\ rxSegments' = [rxSegments EXCEPT ![p].new = TRUE]
        /\ rxDmaPtr' = IF d.wrap THEN 0 ELSE p + 1
        /\ rxIrq' = TRUE /\ rxCnt' = TRUE
    BY <1>4 DEF RxDmaReceive
  <2>2. f \in Frames
    BY <1>0, <1>1 DEF RxTypeOK, Frames
  <2>3. /\ bufFrame' \in [RxBufs -> Frames \cup {NoFrame}]
        /\ bufFrame'[rxBuffers[p]] = f
        /\ \A b \in RxBufs : b # rxBuffers[p] => bufFrame'[b] = bufFrame[b]
    BY <1>0, <1>2, <2>1, <2>2 DEF RxTypeOK
  <2>4. ASSUME NEW i \in RxSlots
        PROVE  /\ rxSegments'[i] \in RxDescriptor
               /\ rxSegments'[i].address = rxSegments[i].address
               /\ rxSegments'[i].wrap = rxSegments[i].wrap
               /\ rxSegments'[i].new = (i = p \/ rxSegments[i].new)
    BY <1>0, <1>2, <2>1 DEF RxTypeOK, RxDescriptor
  <2>5. rxSegments' \in [RxSlots -> RxDescriptor]
    BY <1>0, <2>1, <2>4 DEF RxTypeOK
  <2>6. rxDmaPtr' \in RxSlots
    BY <1>0, <1>2, <2>1 DEF RxShape, RxSlots
  <2>7. RxTypeOK'
    BY <1>0, <1>1, <2>1, <2>3, <2>5, <2>6 DEF RxTypeOK
  <2>8. RxDescriptorsMatch' /\ RxShape'
    BY <1>0, <1>1, <2>4 DEF RxDescriptorsMatch, RxShape
  <2>9. SlotBufs' = SlotBufs /\ QueueBufs' = QueueBufs
    BY <1>1 DEF SlotBufs, QueueBufs, QueueBufsOf
  <2>10. RxApart' /\ RxCovered'
    BY <1>0, <1>1, <2>9 DEF RxApart, RxCovered, NoRepeat
  <2>11. RxFramesReal'
    <3>1. ASSUME NEW i \in RxSlots, rxSegments'[i].new
          PROVE  bufFrame'[rxBuffers'[i]] \in Frames
      <4>1. CASE i = p
        BY <4>1, <1>1, <2>2, <2>3
      <4>2. CASE i # p
        <5>0. rxSegments[i].new
          <6>1. rxSegments'[i].new = (i = p \/ rxSegments[i].new)
            BY <2>4
          <6>2. QED
            BY <6>1, <3>1, <4>2, Zenon
        <5>1. rxBuffers[i] # rxBuffers[p] /\ rxBuffers[i] \in RxBufs
          BY <4>2, <1>0, <1>2 DEF RxApart, RxShape
        <5>2. QED
          BY <5>0, <5>1, <1>0, <1>1, <2>3 DEF RxFramesReal
      <4>3. QED
        BY <4>1, <4>2
    <3>2. ASSUME NEW b \in ChainBufs(chain') \cup QueueBufs'
          PROVE  bufFrame'[b] \in Frames
      <4>1. b \in ChainBufs(chain) \cup QueueBufs
        BY <3>2, <1>1, <2>9
      <4>2. b # rxBuffers[p] /\ b \in RxBufs
        <5>1. rxBuffers[p] \in SlotBufs
          BY <1>2 DEF SlotBufs
        <5>2. b \notin SlotBufs
          BY <4>1, <1>0 DEF RxApart
        <5>3. b \in RxBufs
          BY <4>1, <1>0 DEF RxCovered
        <5>4. QED
          BY <5>1, <5>2, <5>3
      <4>3. QED
        BY <4>1, <4>2, <2>3, <1>0 DEF RxFramesReal
    <3>3. QED
      BY <3>1, <3>2 DEF RxFramesReal
  <2>12. QED
    BY <2>7, <2>8, <2>10, <2>11 DEF RxIInv
<1>5. QED
  BY <1>3, <1>4
-----------------------------------------------------------------------------
(* The iterations of the loop of emacps_check_rx.                          *)

LEMMA NextRxSlotRange ==
  ASSUME NEW i \in RxSlots
  PROVE  NextRxSlot(i) \in RxSlots
BY DEF NextRxSlot, RxSlots

LEMMA PostedType ==
  ASSUME NEW i \in RxSlots, NEW b \in RxBufs
  PROVE  /\ Posted(i, b) \in RxDescriptor
         /\ Posted(i, b).address = b
         /\ Posted(i, b).new = FALSE
         /\ Posted(i, b).wrap = (i = NRx - 1)
BY DEF Posted, RxDescriptor

(* A hand-off moves the filled buffer ob from slot h to the tail of the    *)
(* batch and a pool buffer nb into the slot: ob was in no batch and nb in  *)
(* no slot, so no buffer is in two places, and ob carries its frame.       *)
LEMMA CheckRxHandOffIInv ==
  ASSUME RxIInv, CheckRxHandOff
  PROVE  RxIInv'
<1> DEFINE h == rxHead
           ob == rxBuffers[rxHead]
<1>0. /\ RxTypeOK /\ RxDescriptorsMatch /\ RxShape /\ RxApart
      /\ RxCovered /\ RxFramesReal
  BY DEF RxIInv
<1>1. PICK nb \in pool :
        /\ pool' = pool \ {nb}
        /\ rxBuffers' = [rxBuffers EXCEPT ![h] = nb]
        /\ rxSegments' = [rxSegments EXCEPT ![h] = Posted(h, nb)]
  BY DEF CheckRxHandOff
<1>2. /\ chkRxPc = "loop" /\ RxFilled
      /\ chain' = Append(chain, ob)
      /\ rxHead' = NextRxSlot(h)
      /\ UNCHANGED <<bufFrame, rxDmaPtr, rxIrq, rxIsrEvent, chkRxPc, ipQueue,
                     delivered, arrivals, rxCnt, lastRxCnt, rxStalled, stalls>>
  BY DEF CheckRxHandOff, erratum
<1>3. /\ h \in RxSlots /\ ob \in RxBufs /\ ob \in SlotBufs
      /\ nb \in RxBufs /\ nb \notin SlotBufs /\ nb \notin ChainBufs(chain)
      /\ nb \notin QueueBufs /\ ob \notin ChainBufs(chain)
      /\ ob \notin QueueBufs /\ ob \notin pool
  BY <1>0 DEF RxTypeOK, RxShape, RxApart, SlotBufs
<1>4. bufFrame[ob] \in Frames
  <2>1. rxSegments[h].new
    BY <1>2 DEF RxFilled
  <2>2. QED
    BY <2>1, <1>3, <1>0 DEF RxFramesReal
<1>5. /\ ChainBufs(chain') = ChainBufs(chain) \cup {ob}
      /\ NoRepeat(chain')
      /\ chain' \in Seq(RxBufs)
  BY <1>0, <1>2, <1>3, AppendBufs, AppendProperties DEF RxTypeOK, RxApart
<1>6. SlotBufs' = (SlotBufs \ {ob}) \cup {nb}
  <2>1. \A j \in RxSlots : j # h => rxBuffers[j] # ob
    BY <1>0, <1>3 DEF RxApart
  <2>2. QED
    BY <1>0, <1>1, <1>3, <2>1 DEF SlotBufs, RxShape
<1>7. QueueBufs' = QueueBufs
  BY <1>2 DEF QueueBufs, QueueBufsOf
<1>8. ASSUME NEW j \in RxSlots
      PROVE  /\ rxSegments'[j] \in RxDescriptor
             /\ rxSegments'[j].address = rxBuffers'[j]
             /\ (rxSegments'[j].wrap <=> j = NRx - 1)
             /\ j = h => rxSegments'[j].new = FALSE
             /\ j # h => rxSegments'[j] = rxSegments[j]
                         /\ rxBuffers'[j] = rxBuffers[j]
  <2>1. CASE j = h
    <3>1. rxSegments'[j] = Posted(h, nb) /\ rxBuffers'[j] = nb
      BY <2>1, <1>0, <1>1, <1>3 DEF RxTypeOK, RxShape
    <3>2. /\ Posted(h, nb) \in RxDescriptor
          /\ Posted(h, nb).address = nb
          /\ Posted(h, nb).new = FALSE
          /\ Posted(h, nb).wrap = (h = NRx - 1)
      BY <1>3, PostedType
    <3>3. QED
      BY <2>1, <3>1, <3>2
  <2>2. CASE j # h
    <3>1. rxSegments'[j] = rxSegments[j] /\ rxBuffers'[j] = rxBuffers[j]
      BY <2>2, <1>0, <1>1 DEF RxTypeOK, RxShape
    <3>2. QED
      BY <2>2, <3>1, <1>0 DEF RxTypeOK, RxDescriptorsMatch, RxShape
  <2>3. QED
    BY <2>1, <2>2
<1>9. RxTypeOK'
  <2>1. rxSegments' \in [RxSlots -> RxDescriptor]
    BY <1>0, <1>1, <1>8 DEF RxTypeOK
  <2>2. rxBuffers' \in [RxSlots -> RxBufs \cup {NoBuf}]
    BY <1>0, <1>1, <1>3 DEF RxShape
  <2>3. QED
    BY <1>0, <1>1, <1>2, <1>3, <1>5, <2>1, <2>2, NextRxSlotRange DEF RxTypeOK
<1>10. RxDescriptorsMatch' /\ RxShape'
  <2>1. rxBuffers' \in [RxSlots -> RxBufs]
    BY <1>0, <1>1, <1>3 DEF RxShape
  <2>2. QED
    BY <1>2, <1>8, <2>1 DEF RxDescriptorsMatch, RxShape
<1>11. RxApart'
  <2>1. \A i, j \in RxSlots : i # j => rxBuffers'[i] # rxBuffers'[j]
    BY <1>0, <1>1, <1>3 DEF RxApart, RxShape, SlotBufs
  <2>2. QED
    BY <1>0, <1>1, <1>2, <1>3, <1>5, <1>6, <1>7, <2>1 DEF RxApart
<1>12. RxCovered'
  BY <1>0, <1>1, <1>3, <1>5, <1>6, <1>7 DEF RxCovered
<1>13. RxFramesReal'
  <2>1. ASSUME NEW j \in RxSlots, rxSegments'[j].new
        PROVE  bufFrame'[rxBuffers'[j]] \in Frames
    <3>1. j # h
      BY <2>1, <1>8
    <3>2. QED
      BY <3>1, <2>1, <1>8, <1>2, <1>0 DEF RxFramesReal
  <2>2. QED
    BY <2>1, <1>0, <1>2, <1>4, <1>5, <1>7 DEF RxFramesReal
<1>14. QED
  BY <1>9, <1>10, <1>11, <1>12, <1>13 DEF RxIInv

(* A recycle re-posts the same buffer with NEW clear.                      *)
LEMMA CheckRxRecycleIInv ==
  ASSUME RxIInv, CheckRxRecycle
  PROVE  RxIInv'
<1> DEFINE h == rxHead
<1>0. /\ RxTypeOK /\ RxDescriptorsMatch /\ RxShape /\ RxApart
      /\ RxCovered /\ RxFramesReal
  BY DEF RxIInv
<1>1. /\ rxSegments' = [rxSegments EXCEPT ![h] = Posted(h, rxBuffers[h])]
      /\ rxHead' = NextRxSlot(h)
      /\ UNCHANGED <<rxBuffers, bufFrame, rxDmaPtr, rxIrq, rxIsrEvent, chkRxPc,
                     chain, ipQueue, delivered, pool, arrivals,
                     rxCnt, lastRxCnt, rxStalled, stalls>>
  BY DEF CheckRxRecycle, erratum
<1>2. h \in RxSlots /\ rxBuffers[h] \in RxBufs
  BY <1>0 DEF RxTypeOK, RxShape
<1>3. ASSUME NEW j \in RxSlots
      PROVE  /\ rxSegments'[j] \in RxDescriptor
             /\ rxSegments'[j].address = rxBuffers'[j]
             /\ (rxSegments'[j].wrap <=> j = NRx - 1)
             /\ j = h => rxSegments'[j].new = FALSE
             /\ j # h => rxSegments'[j] = rxSegments[j]
  <2>1. CASE j = h
    <3>1. rxSegments'[j] = Posted(h, rxBuffers[h]) /\ rxBuffers'[j] = rxBuffers[h]
      BY <2>1, <1>0, <1>1, <1>2 DEF RxTypeOK
    <3>2. /\ Posted(h, rxBuffers[h]) \in RxDescriptor
          /\ Posted(h, rxBuffers[h]).address = rxBuffers[h]
          /\ Posted(h, rxBuffers[h]).new = FALSE
          /\ Posted(h, rxBuffers[h]).wrap = (h = NRx - 1)
      BY <1>2, PostedType
    <3>3. QED
      BY <2>1, <3>1, <3>2
  <2>2. CASE j # h
    <3>1. rxSegments'[j] = rxSegments[j] /\ rxBuffers'[j] = rxBuffers[j]
      BY <2>2, <1>0, <1>1 DEF RxTypeOK
    <3>2. QED
      BY <2>2, <3>1, <1>0 DEF RxTypeOK, RxDescriptorsMatch, RxShape
  <2>3. QED
    BY <2>1, <2>2
<1>4. RxTypeOK'
  BY <1>0, <1>1, <1>2, <1>3, NextRxSlotRange DEF RxTypeOK
<1>5. RxDescriptorsMatch' /\ RxShape'
  BY <1>0, <1>1, <1>3 DEF RxDescriptorsMatch, RxShape
<1>6. SlotBufs' = SlotBufs /\ QueueBufs' = QueueBufs
  BY <1>1 DEF SlotBufs, QueueBufs, QueueBufsOf
<1>7. RxApart' /\ RxCovered'
  BY <1>0, <1>1, <1>6 DEF RxApart, RxCovered, NoRepeat
<1>8. RxFramesReal'
  <2>1. ASSUME NEW j \in RxSlots, rxSegments'[j].new
        PROVE  bufFrame'[rxBuffers'[j]] \in Frames
    <3>1. j # h
      BY <2>1, <1>3
    <3>2. QED
      BY <3>1, <2>1, <1>3, <1>1, <1>0 DEF RxFramesReal
  <2>2. QED
    BY <2>1, <1>0, <1>1, <1>6 DEF RxFramesReal
<1>9. QED
  BY <1>4, <1>5, <1>7, <1>8 DEF RxIInv
-----------------------------------------------------------------------------
(* prvPassEthMessages: the batch joins the queue, or goes back to the pool. *)

LEMMA BatchInQueue ==
  ASSUME NEW Q, NEW q \in DOMAIN Q
  PROVE  ChainBufs(Q[q]) \subseteq QueueBufsOf(Q)
BY DEF QueueBufsOf

LEMMA PassEthMessagesIInv ==
  ASSUME RxIInv, PassEthMessages
  PROVE  RxIInv'
<1>0. /\ RxTypeOK /\ RxDescriptorsMatch /\ RxShape /\ RxApart
      /\ RxCovered /\ RxFramesReal
  BY DEF RxIInv
<1>1. /\ ipQueue' = Append(ipQueue, chain) /\ chain' = <<>>
      /\ chkRxPc' = "idle"
      /\ UNCHANGED <<rxSegments, rxBuffers, rxHead, bufFrame, rxDmaPtr, rxIrq,
                     rxIsrEvent, delivered, pool, arrivals,
                     rxCnt, lastRxCnt, rxStalled, stalls>>
  BY DEF PassEthMessages, erratum
<1>2. /\ chain \in Seq(RxBufs) /\ ipQueue \in Seq(Seq(RxBufs))
      /\ DOMAIN ipQueue = 1 .. Len(ipQueue)
  BY <1>0 DEF RxTypeOK
<1>3. /\ QueueBufs' = QueueBufs \cup ChainBufs(chain)
      /\ \A q \in 1 .. Len(ipQueue) : ipQueue'[q] = ipQueue[q]
      /\ ipQueue'[Len(ipQueue) + 1] = chain
      /\ DOMAIN ipQueue' = 1 .. Len(ipQueue) + 1
      /\ ipQueue' \in Seq(Seq(RxBufs))
  BY <1>1, <1>2, QueueAppendBufs, AppendProperties DEF QueueBufs
<1>4. ChainBufs(chain') = {} /\ NoRepeat(chain') /\ chain' \in Seq(RxBufs)
  BY <1>1, EmptyBufs, EmptySeq
<1>5. RxTypeOK'
  BY <1>0, <1>1, <1>3, <1>4 DEF RxTypeOK
<1>6. RxDescriptorsMatch' /\ RxShape'
  BY <1>0, <1>1 DEF RxDescriptorsMatch, RxShape
<1>7. SlotBufs' = SlotBufs
  BY <1>1 DEF SlotBufs
<1>8. RxApart'
  <2>1. \A q \in DOMAIN ipQueue' : NoRepeat(ipQueue'[q])
    BY <1>0, <1>2, <1>3 DEF RxApart
  <2>2. ASSUME NEW q \in DOMAIN ipQueue', NEW r \in DOMAIN ipQueue', q # r
        PROVE  ChainBufs(ipQueue'[q]) \cap ChainBufs(ipQueue'[r]) = {}
    <3>1. CASE q \in DOMAIN ipQueue /\ r \in DOMAIN ipQueue
      BY <3>1, <2>2, <1>0, <1>2, <1>3 DEF RxApart
    <3>2. CASE q \in DOMAIN ipQueue /\ r = Len(ipQueue) + 1
      BY <3>2, <1>0, <1>2, <1>3, BatchInQueue DEF RxApart, QueueBufs
    <3>3. CASE q = Len(ipQueue) + 1 /\ r \in DOMAIN ipQueue
      BY <3>3, <1>0, <1>2, <1>3, BatchInQueue DEF RxApart, QueueBufs
    <3>4. QED
      BY <3>1, <3>2, <3>3, <2>2, <1>2, <1>3
  <2>3. QED
    BY <2>1, <2>2, <1>0, <1>1, <1>3, <1>4, <1>7 DEF RxApart
<1>9. RxCovered' /\ RxFramesReal'
  BY <1>0, <1>1, <1>3, <1>4, <1>7 DEF RxCovered, RxFramesReal
<1>10. QED
  BY <1>5, <1>6, <1>8, <1>9 DEF RxIInv

LEMMA PassEthMessagesTimeoutIInv ==
  ASSUME RxIInv, PassEthMessagesTimeout
  PROVE  RxIInv'
<1>0. /\ RxTypeOK /\ RxDescriptorsMatch /\ RxShape /\ RxApart
      /\ RxCovered /\ RxFramesReal
  BY DEF RxIInv
<1>1. /\ pool' = pool \cup ChainBufs(chain) /\ chain' = <<>>
      /\ chkRxPc' = "idle"
      /\ UNCHANGED <<rxSegments, rxBuffers, rxHead, bufFrame, rxDmaPtr, rxIrq,
                     rxIsrEvent, ipQueue, delivered, arrivals,
                     rxCnt, lastRxCnt, rxStalled, stalls>>
  BY DEF PassEthMessagesTimeout, erratum
<1>2. ChainBufs(chain) \subseteq RxBufs
  BY <1>0 DEF RxTypeOK, ChainBufs
<1>3. ChainBufs(chain') = {} /\ NoRepeat(chain') /\ chain' \in Seq(RxBufs)
  BY <1>1, EmptyBufs, EmptySeq
<1>4. SlotBufs' = SlotBufs /\ QueueBufs' = QueueBufs
  BY <1>1 DEF SlotBufs, QueueBufs, QueueBufsOf
<1>5. RxTypeOK'
  BY <1>0, <1>1, <1>2, <1>3 DEF RxTypeOK
<1>6. RxDescriptorsMatch' /\ RxShape'
  BY <1>0, <1>1 DEF RxDescriptorsMatch, RxShape
<1>7. RxApart' /\ RxCovered' /\ RxFramesReal'
  BY <1>0, <1>1, <1>3, <1>4 DEF RxApart, RxCovered, RxFramesReal, NoRepeat
<1>8. QED
  BY <1>5, <1>6, <1>7 DEF RxIInv
-----------------------------------------------------------------------------
(* The IP task takes the oldest batch: its frames are real, so delivered   *)
(* stays a sequence of frames, and its buffers were in no other batch, so  *)
(* releasing them to the pool puts no buffer in two places.               *)

LEMMA IpTaskReceiveIInv ==
  ASSUME RxIInv, IpTaskReceive
  PROVE  RxIInv'
<1> DEFINE c == Head(ipQueue)
           F == [i \in DOMAIN c |-> bufFrame[c[i]]]
<1>0. /\ RxTypeOK /\ RxDescriptorsMatch /\ RxShape /\ RxApart
      /\ RxCovered /\ RxFramesReal
  BY DEF RxIInv
<1>1. /\ ipQueue # <<>>
      /\ delivered' = delivered \o F
      /\ pool' = pool \cup ChainBufs(c)
      /\ ipQueue' = Tail(ipQueue)
      /\ UNCHANGED <<rxSegments, rxBuffers, rxHead, bufFrame, rxDmaPtr, rxIrq,
                     rxIsrEvent, chkRxPc, chain, arrivals,
                     rxCnt, lastRxCnt, rxStalled, stalls>>
  BY DEF IpTaskReceive, erratum
<1>2. /\ ipQueue \in Seq(Seq(RxBufs))
      /\ DOMAIN ipQueue = 1 .. Len(ipQueue) /\ Len(ipQueue) \in Nat
  BY <1>0, LenProperties DEF RxTypeOK
<1>3. /\ QueueBufs = ChainBufs(c) \cup QueueBufsOf(ipQueue')
      /\ DOMAIN ipQueue' = 1 .. Len(ipQueue) - 1
      /\ \A q \in 1 .. Len(ipQueue) - 1 : ipQueue'[q] = ipQueue[q + 1]
      /\ c = ipQueue[1] /\ 1 \in DOMAIN ipQueue
      /\ ipQueue' \in Seq(Seq(RxBufs))
      /\ c \in Seq(RxBufs)
  BY <1>1, <1>2, QueueTailBufs, HeadTailProperties DEF QueueBufs
<1>4. ChainBufs(c) \cap QueueBufsOf(ipQueue') = {}
  <2>1. ASSUME NEW b \in QueueBufsOf(ipQueue'), b \in ChainBufs(c)
        PROVE  FALSE
    <3>1. PICK q \in DOMAIN ipQueue' : b \in ChainBufs(ipQueue'[q])
      BY <2>1 DEF QueueBufsOf
    <3>2. q + 1 \in DOMAIN ipQueue /\ q + 1 # 1 /\ ipQueue'[q] = ipQueue[q + 1]
      BY <3>1, <1>3, <1>2
    <3>3. QED
      BY <2>1, <3>1, <3>2, <1>3, <1>0 DEF RxApart
  <2>2. QED
    BY <2>1
<1>5. F \in Seq(Frames)
  <2>1. DOMAIN c = 1 .. Len(c)
    BY <1>3
  <2>2. \A i \in DOMAIN c : bufFrame[c[i]] \in Frames
    BY <1>0, <1>3, BatchInQueue DEF RxFramesReal, QueueBufs, ChainBufs
  <2>3. F \in [1 .. Len(c) -> Frames]
    BY <2>1, <2>2
  <2>4. Len(c) \in Nat
    BY <1>3, LenProperties
  <2>5. QED
    BY <2>3, <2>4, SeqDef
<1>6. RxTypeOK'
  <2>1. delivered' \in Seq(Frames)
    BY <1>0, <1>1, <1>5, ConcatProperties DEF RxTypeOK
  <2>2. ChainBufs(c) \subseteq RxBufs
    BY <1>3 DEF ChainBufs
  <2>3. QED
    BY <1>0, <1>1, <1>3, <2>1, <2>2 DEF RxTypeOK
<1>7. RxDescriptorsMatch' /\ RxShape'
  BY <1>0, <1>1 DEF RxDescriptorsMatch, RxShape
<1>8. SlotBufs' = SlotBufs
  BY <1>1 DEF SlotBufs
<1>9. RxApart'
  <2>1. ASSUME NEW q \in DOMAIN ipQueue'
        PROVE  q + 1 \in DOMAIN ipQueue /\ ipQueue'[q] = ipQueue[q + 1]
    BY <1>2, <1>3
  <2>2. \A q \in DOMAIN ipQueue' : NoRepeat(ipQueue'[q])
    BY <2>1, <1>0 DEF RxApart
  <2>3. ASSUME NEW q \in DOMAIN ipQueue', NEW r \in DOMAIN ipQueue', q # r
        PROVE  ChainBufs(ipQueue'[q]) \cap ChainBufs(ipQueue'[r]) = {}
    <3>1. q + 1 # r + 1
      BY <2>3, <1>3
    <3>2. QED
      BY <3>1, <2>1, <1>0 DEF RxApart
  <2>4. QED
    BY <2>2, <2>3, <1>0, <1>1, <1>3, <1>4, <1>8 DEF RxApart, QueueBufs
<1>10. RxCovered' /\ RxFramesReal'
  BY <1>0, <1>1, <1>3, <1>8 DEF RxCovered, RxFramesReal, QueueBufs
<1>11. QED
  BY <1>6, <1>7, <1>9, <1>10 DEF RxIInv
-----------------------------------------------------------------------------
(* Every step of the receive path keeps the invariant.                     *)

LEMMA NextRxIInv ==
  ASSUME RxIInv, [RxNext]_rxVars
  PROVE  RxIInv'
<1>1. CASE \E k \in Kinds : RxDmaReceive(k)
  BY <1>1, RxDmaReceiveIInv
<1>2. CASE RxStall
  BY <1>2, RxStallIInv
<1>3. CASE PeriodicResetRx
  BY <1>3, PeriodicResetRxIInv
<1>4. CASE RecvHandler
  BY <1>4, RecvHandlerIInv
<1>5. CASE CheckRxStart
  BY <1>5, CheckRxStartIInv
<1>6. CASE CheckRxHandOff
  BY <1>6, CheckRxHandOffIInv
<1>7. CASE CheckRxRecycle
  BY <1>7, CheckRxRecycleIInv
<1>8. CASE CheckRxBreak
  BY <1>8, CheckRxBreakIInv
<1>9. CASE PassEthMessages
  BY <1>9, PassEthMessagesIInv
<1>10. CASE PassEthMessagesTimeout
  BY <1>10, PassEthMessagesTimeoutIInv
<1>11. CASE IpTaskReceive
  BY <1>11, IpTaskReceiveIInv
<1>12. CASE UNCHANGED rxVars
  <2>1. RxTypeOK'
    BY <1>12 DEF RxIInv, RxTypeOK, rxVars, erratum
  <2>2. QED
    BY <1>12, <2>1, DataUnchanged DEF rxVars, RxIInv, RxShape
<1>13. QED
  BY <1>1, <1>2, <1>3, <1>4, <1>5, <1>6, <1>7, <1>8, <1>9, <1>10, <1>11,
     <1>12 DEF RxNext

(* Every variable of the receive path keeps its type in every run: in     *)
(* particular the IP task only ever receives frames that arrived on the   *)
(* wire, never the contents of a buffer the DMA has not written, because  *)
(* emacps_check_rx hands on only slots whose NEW bit the DMA has set and  *)
(* the DMA writes only into the buffer posted at its queue pointer.       *)
THEOREM RxTypeCorrect == RxSpec => []RxTypeOK
<1>1. Init => RxIInv
  BY InitRxIInv
<1>2. RxIInv /\ [RxNext]_rxVars => RxIInv'
  BY NextRxIInv
<1>3. RxIInv => RxTypeOK
  BY DEF RxIInv
<1>4. QED
  BY <1>1, <1>2, <1>3, PTL DEF RxSpec

(* Every descriptor's address word points at the buffer pxDMA_rx_buffers  *)
(* holds for its slot in every run: emacps_check_rx writes both together  *)
(* when it re-posts a slot, and the DMA sets only NEW.                    *)
THEOREM RxDescriptorsMatchThm == RxSpec => []RxDescriptorsMatch
<1>1. Init => RxIInv
  BY InitRxIInv
<1>2. RxIInv /\ [RxNext]_rxVars => RxIInv'
  BY NextRxIInv
<1>3. RxIInv => RxDescriptorsMatch
  BY DEF RxIInv
<1>4. QED
  BY <1>1, <1>2, <1>3, PTL DEF RxSpec
-----------------------------------------------------------------------------
(* Ownership: by RxApart and RxCovered each buffer has one holder.         *)

\* The four kinds of holder RxHolders(b) collects.
SlotHolders(b) == {<<"slot", i>> : i \in {i \in RxSlots : rxBuffers[i] = b}}
ChainHolders(b) ==
  {<<"chain", i>> : i \in {i \in DOMAIN chain : chain[i] = b}}
QueueHolders(b) ==
  UNION {{<<"queue", q, i>> : i \in {i \in DOMAIN ipQueue[q] :
                                      ipQueue[q][i] = b}}
         : q \in DOMAIN ipQueue}
PoolHolders(b) == IF b \in pool THEN {<<"pool">>} ELSE {}

LEMMA HoldersSplit ==
  ASSUME NEW b
  PROVE  RxHolders(b) = SlotHolders(b) \cup ChainHolders(b)
                          \cup QueueHolders(b) \cup PoolHolders(b)
BY Zenon DEF RxHolders, SlotHolders, ChainHolders, QueueHolders, PoolHolders

LEMMA NoHolders ==
  ASSUME NEW b
  PROVE  /\ b \notin SlotBufs => SlotHolders(b) = {}
         /\ b \notin ChainBufs(chain) => ChainHolders(b) = {}
         /\ b \notin QueueBufs => QueueHolders(b) = {}
         /\ b \notin pool => PoolHolders(b) = {}
<1>1. b \notin SlotBufs => SlotHolders(b) = {}
  BY DEF SlotBufs, SlotHolders
<1>2. b \notin ChainBufs(chain) => ChainHolders(b) = {}
  BY DEF ChainBufs, ChainHolders
<1>3. b \notin QueueBufs => QueueHolders(b) = {}
  BY DEF QueueBufs, QueueBufsOf, ChainBufs, QueueHolders
<1>4. QED
  BY <1>1, <1>2, <1>3 DEF PoolHolders

LEMMA OwnSlot ==
  ASSUME RxIInv, NEW i \in RxSlots
  PROVE  RxHolders(rxBuffers[i]) = {<<"slot", i>>}
<1> DEFINE b == rxBuffers[i]
<1>1. b \in SlotBufs
  BY DEF SlotBufs
<1>2. b \notin ChainBufs(chain) /\ b \notin QueueBufs /\ b \notin pool
  BY <1>1 DEF RxIInv, RxApart
<1>3. SlotHolders(b) = {<<"slot", i>>}
  BY DEF RxIInv, RxApart, SlotHolders
<1>4. QED
  BY <1>2, <1>3, NoHolders, HoldersSplit

LEMMA OwnChain ==
  ASSUME RxIInv, NEW i \in DOMAIN chain
  PROVE  RxHolders(chain[i]) = {<<"chain", i>>}
<1> DEFINE b == chain[i]
<1>1. b \in ChainBufs(chain)
  BY DEF ChainBufs
<1>2. b \notin SlotBufs /\ b \notin QueueBufs /\ b \notin pool
  BY <1>1 DEF RxIInv, RxApart
<1>3. ChainHolders(b) = {<<"chain", i>>}
  BY DEF RxIInv, RxApart, NoRepeat, ChainHolders
<1>4. QED
  BY <1>2, <1>3, NoHolders, HoldersSplit

LEMMA OwnQueue ==
  ASSUME RxIInv, NEW q \in DOMAIN ipQueue, NEW i \in DOMAIN ipQueue[q]
  PROVE  RxHolders(ipQueue[q][i]) = {<<"queue", q, i>>}
<1> DEFINE b == ipQueue[q][i]
<1>1. b \in QueueBufs
  BY DEF QueueBufs, QueueBufsOf, ChainBufs
<1>2. b \notin SlotBufs /\ b \notin ChainBufs(chain) /\ b \notin pool
  BY <1>1 DEF RxIInv, RxApart
<1>3. QueueHolders(b) = {<<"queue", q, i>>}
  <2>1. ASSUME NEW r \in DOMAIN ipQueue, NEW j \in DOMAIN ipQueue[r],
               ipQueue[r][j] = b
        PROVE  r = q /\ j = i
    <3>1. r = q
      <4>1. b \in ChainBufs(ipQueue[r]) /\ b \in ChainBufs(ipQueue[q])
        BY <2>1 DEF ChainBufs
      <4>2. QED
        BY <4>1 DEF RxIInv, RxApart
    <3>2. QED
      BY <2>1, <3>1 DEF RxIInv, RxApart, NoRepeat
  <2>2. QED
    BY <2>1 DEF QueueHolders
<1>4. QED
  BY <1>2, <1>3, NoHolders, HoldersSplit

LEMMA OwnPool ==
  ASSUME RxIInv, NEW b \in pool
  PROVE  RxHolders(b) = {<<"pool">>}
<1>1. b \notin SlotBufs /\ b \notin ChainBufs(chain) /\ b \notin QueueBufs
  BY DEF RxIInv, RxApart
<1>2. QED
  BY <1>1, NoHolders, HoldersSplit DEF PoolHolders

LEMMA IInvOwnership ==
  ASSUME RxIInv
  PROVE  RxBufferOwnership
<1> SUFFICES ASSUME NEW b \in RxBufs
             PROVE  Cardinality(RxHolders(b)) = 1
  BY DEF RxBufferOwnership
<1>1. \E h : RxHolders(b) = {h}
  <2>1. CASE b \in SlotBufs
    BY <2>1, OwnSlot DEF SlotBufs
  <2>2. CASE b \in ChainBufs(chain)
    BY <2>2, OwnChain DEF ChainBufs
  <2>3. CASE b \in QueueBufs
    <3>1. PICK q \in DOMAIN ipQueue : b \in ChainBufs(ipQueue[q])
      BY <2>3 DEF QueueBufs, QueueBufsOf
    <3>2. PICK i \in DOMAIN ipQueue[q] : ipQueue[q][i] = b
      BY <3>1 DEF ChainBufs
    <3>3. QED
      BY <3>2, OwnQueue
  <2>4. CASE b \in pool
    BY <2>4, OwnPool
  <2>5. QED
    BY <2>1, <2>2, <2>3, <2>4 DEF RxIInv, RxCovered
<1>2. QED
  BY <1>1, FS_Singleton

(* Every network buffer has exactly one owner in every run, whatever the   *)
(* ring size, pool size and queue length: the DMA ring, one place of the  *)
(* batch emacps_check_rx is building, one place of a batch queued for the *)
(* IP task, or the pool.  emacps_check_rx hands a filled buffer on only    *)
(* after taking its replacement from the pool, and prvPassEthMessages and  *)
(* the IP task release a batch only once it has left every other place.   *)
THEOREM RxBufferOwnershipThm == RxSpec => []RxBufferOwnership
<1>1. Init => RxIInv
  BY InitRxIInv
<1>2. RxIInv /\ [RxNext]_rxVars => RxIInv'
  BY NextRxIInv
<1>3. RxIInv => RxBufferOwnership
  BY IInvOwnership
<1>4. QED
  BY <1>1, <1>2, <1>3, PTL DEF RxSpec
=============================================================================
