--------------------------- MODULE EmacRxOrderProofs ---------------------------
(***************************************************************************)
(* Proof that the IP task receives the frames xMayAcceptPacket accepted,   *)
(* in the order they arrived on the wire (RxDeliveredInOrder), for every   *)
(* ring size, pool and queue length, from the invariant RxOrderInv.        *)
(***************************************************************************)
EXTENDS EmacRxProofs

USE NRxAssumption, RxBufsAssumption, KindsAssumption, BoundsAssumption

-----------------------------------------------------------------------------
(* Distances round the RX ring.                                            *)

LEMMA RxDistRange ==
  ASSUME NEW t \in RxSlots, NEW i \in RxSlots
  PROVE  RxDistFrom(t, i) \in 0 .. NRx - 1
BY DEF RxDistFrom, RxSlots

LEMMA RxDistZero ==
  ASSUME NEW t \in RxSlots, NEW i \in RxSlots
  PROVE  RxDistFrom(t, i) = 0 <=> i = t
BY DEF RxDistFrom, RxSlots

LEMMA RxDistInjective ==
  ASSUME NEW t \in RxSlots, NEW i \in RxSlots, NEW j \in RxSlots,
         RxDistFrom(t, i) = RxDistFrom(t, j)
  PROVE  i = j
BY DEF RxDistFrom, RxSlots

\* Moving the far end one slot on.
LEMMA RxDistNext ==
  ASSUME NEW t \in RxSlots, NEW i \in RxSlots
  PROVE  RxDistFrom(t, NextRxSlot(i)) =
           IF RxDistFrom(t, i) = NRx - 1 THEN 0 ELSE RxDistFrom(t, i) + 1
BY DEF RxDistFrom, NextRxSlot, RxSlots

\* Moving the near end one slot on.
LEMMA RxDistShift ==
  ASSUME NEW t \in RxSlots, NEW i \in RxSlots
  PROVE  RxDistFrom(NextRxSlot(t), i) =
           IF i = t THEN NRx - 1 ELSE RxDistFrom(t, i) - 1
BY DEF RxDistFrom, NextRxSlot, RxSlots
-----------------------------------------------------------------------------
(* The steps that move no frame.                                           *)

\* A frame's arrival number is a natural number.
LEMMA SeqOfNat ==
  ASSUME RxTypeOK, NEW b \in RxBufs
  PROVE  SeqOf(b) \in Nat
BY DEF RxTypeOK, SeqOf, Frames, NoFrame

\* The arrival numbers of delivered frames are natural numbers.
LEMMA DeliveredSeqsNat ==
  ASSUME RxTypeOK
  PROVE  \A x \in DeliveredSeqs : x \in Nat
<1>1. \A i \in DOMAIN delivered : delivered[i] \in Frames
  BY LenProperties DEF RxTypeOK
<1>2. QED
  BY <1>1 DEF DeliveredSeqs, Frames

LEMMA OrderUnchanged ==
  ASSUME RxOrder, RxTypeOK,
         UNCHANGED <<rxSegments, rxBuffers, rxHead, bufFrame, rxDmaPtr,
                     chain, ipQueue, delivered>>,
         arrivals' \in Nat, arrivals <= arrivals'
  PROVE  RxOrder'
<1>1. NewSlots' = NewSlots /\ RingSeqs' = RingSeqs
      /\ DeliveredSeqs' = DeliveredSeqs
      /\ \A c : BatchSeqs(c)' = BatchSeqs(c) /\ BatchInOrder(c)' = BatchInOrder(c)
  BY DEF NewSlots, RingSeqs, DeliveredSeqs, BatchSeqs, SeqOf, BatchInOrder
<1>2. RxStretch' /\ RxDeliveredInOrder'
  BY <1>1 DEF RxOrder, RxStretch, RxDeliveredInOrder
<1>3. \A b \in RxBufs : SeqOf(b)' <= arrivals'
  BY SeqOfNat DEF RxOrder, SeqOf, RxTypeOK
<1>4. \A x \in DeliveredSeqs' : x <= arrivals'
  <2>1. \A x \in DeliveredSeqs : x \in Nat
    BY DeliveredSeqsNat
  <2>2. QED
    BY <1>1, <2>1 DEF RxOrder, RxTypeOK
<1>5. QED
  BY <1>1, <1>2, <1>3, <1>4 DEF RxOrder, SeqOf

LEMMA QuietStepsOrder ==
  ASSUME RxOrderInv,
         RecvHandler \/ RxStall \/ PeriodicResetRx \/ CheckRxBreak
           \/ CheckRxStart
  PROVE  RxOrder'
<1>1. CheckRxStart => chain = <<>>
  BY DEF CheckRxStart, RxOrderInv, RxIInv, RxShape
<1>2. UNCHANGED <<rxSegments, rxBuffers, rxHead, bufFrame, rxDmaPtr,
                  chain, ipQueue, delivered, arrivals>>
  BY <1>1 DEF RecvHandler, RxStall, PeriodicResetRx, CheckRxBreak,
              CheckRxStart
<1>3. arrivals \in Nat
  BY DEF RxOrderInv, RxIInv, RxTypeOK
<1>4. QED
  BY <1>2, <1>3, OrderUnchanged DEF RxOrderInv, RxIInv
-----------------------------------------------------------------------------
(* The DMA writes the newest frame into the slot at its pointer, which is  *)
(* the first slot past the stretch of NEW slots: the frame is newer than   *)
(* every frame anywhere, and it is the last of the ring's stretch.        *)

\* Without the ring being full, the NEW slots are those before rxDmaPtr.
LEMMA StretchNotFull ==
  ASSUME RxIInv, RxOrder, rxDmaPtr \notin NewSlots
  PROVE  \A i \in RxSlots :
           i \in NewSlots <=> RxDistFrom(rxHead, i) < RxDistFrom(rxHead, rxDmaPtr)
<1>1. ~(rxHead = rxDmaPtr /\ rxHead \in NewSlots)
  OBVIOUS
<1>2. QED
  BY <1>1 DEF RxOrder, RxStretch

LEMMA RxDmaWriteOrder ==
  ASSUME RxOrderInv, NEW k \in Kinds, RxDmaReceive(k),
         ~rxStalled, ~rxSegments[rxDmaPtr].new
  PROVE  RxOrder'
<1> DEFINE p == rxDmaPtr
           h == rxHead
           n == arrivals + 1
           D == RxDistFrom(h, p)
<1>0. /\ RxTypeOK /\ RxDescriptorsMatch /\ RxShape /\ RxApart /\ RxIInv
      /\ RxCovered /\ RxFramesReal /\ RxOrder
  BY DEF RxOrderInv, RxIInv
<1>1. /\ arrivals < MaxFrames /\ arrivals' = n
      /\ UNCHANGED <<rxBuffers, rxHead, chain, ipQueue, delivered>>
      /\ bufFrame' = [bufFrame EXCEPT ![rxSegments[p].address] =
                        [seq |-> n, kind |-> k]]
      /\ rxSegments' = [rxSegments EXCEPT ![p].new = TRUE]
      /\ rxDmaPtr' = IF rxSegments[p].wrap THEN 0 ELSE p + 1
  BY DEF RxDmaReceive
<1>2. /\ p \in RxSlots /\ h \in RxSlots /\ rxBuffers[p] \in RxBufs
      /\ rxSegments[p].address = rxBuffers[p]
      /\ arrivals \in Nat /\ p \notin NewSlots
      /\ D \in 0 .. NRx - 1
  BY <1>0, RxDistRange DEF RxTypeOK, RxShape, RxDescriptorsMatch, NewSlots
<1>3. rxDmaPtr' = NextRxSlot(p)
  BY <1>0, <1>1, <1>2 DEF RxShape, NextRxSlot, RxSlots
<1>4. /\ bufFrame'[rxBuffers[p]].seq = n
      /\ \A b \in RxBufs : b # rxBuffers[p] =>
           SeqOf(b)' = SeqOf(b) /\ bufFrame'[b] = bufFrame[b]
  BY <1>0, <1>1, <1>2 DEF SeqOf, RxTypeOK
<1>5. NewSlots' = NewSlots \cup {p}
  <2>1. ASSUME NEW i \in RxSlots
        PROVE  rxSegments'[i].new = (i = p \/ rxSegments[i].new)
    BY <1>0, <1>1, <1>2 DEF RxTypeOK, RxDescriptor
  <2>2. QED
    BY <2>1, <1>2 DEF NewSlots
<1>6. \A i \in NewSlots : rxBuffers[i] # rxBuffers[p] /\ i # p
  BY <1>0, <1>2 DEF RxApart, NewSlots
<1>7. \A b \in ChainBufs(chain) \cup QueueBufs : b # rxBuffers[p] /\ b \in RxBufs
  <2>1. rxBuffers[p] \in SlotBufs
    BY <1>2 DEF SlotBufs
  <2>2. QED
    BY <2>1, <1>0 DEF RxApart, RxCovered
<1>8. \A b \in RxBufs : SeqOf(b) <= arrivals /\ SeqOf(b) \in Nat
  BY <1>0, SeqOfNat DEF RxOrder
<1>9. \A x \in DeliveredSeqs : x <= arrivals
  BY <1>0 DEF RxOrder
<1> HIDE DEF n
(* The stretch grows by the slot p. *)
<1>10. RxStretch'
  <2>1. \A i \in RxSlots : i \in NewSlots <=> RxDistFrom(h, i) < D
    BY <1>0, <1>2, StretchNotFull
  <2>2. CASE D = NRx - 1
    <3>1. rxDmaPtr' = h
      BY <2>2, <1>2, <1>3, RxDistNext, RxDistZero, NextRxSlotRange
    <3>2. \A i \in RxSlots : i \in NewSlots'
      <4>1. SUFFICES ASSUME NEW i \in RxSlots, i # p PROVE i \in NewSlots
        BY <1>5
      <4>2. RxDistFrom(h, i) # D
        BY <4>1, <1>2, RxDistInjective
      <4>3. QED
        BY <4>1, <4>2, <2>1, <2>2, <1>2, RxDistRange
    <3>3. QED
      BY <3>1, <3>2, <1>1, <1>2 DEF RxStretch
  <2>3. CASE D # NRx - 1
    <3>1. RxDistFrom(h, rxDmaPtr') = D + 1
      BY <2>3, <1>2, <1>3, RxDistNext
    <3>2. ASSUME NEW i \in RxSlots
          PROVE  i \in NewSlots' <=> RxDistFrom(h, i) < D + 1
      <4>1. RxDistFrom(h, i) = D <=> i = p
        BY <1>2, RxDistInjective
      <4>2. RxDistFrom(h, i) \in Nat
        BY <1>2, RxDistRange
      <4>3. QED
        BY <4>1, <4>2, <2>1, <1>5, <1>2
    <3>3. rxDmaPtr' # h
      BY <3>1, <1>2, <1>3, NextRxSlotRange, RxDistZero
    <3>4. QED
      BY <3>1, <3>2, <3>3, <1>1 DEF RxStretch
  <2>4. QED
    BY <2>2, <2>3
<1>11. \A b \in RxBufs : SeqOf(b)' <= arrivals'
  BY <1>1, <1>2, <1>4, <1>8 DEF n, SeqOf
<1>12. DeliveredSeqs' = DeliveredSeqs /\ \A x \in DeliveredSeqs' : x <= arrivals'
  <2>1. DeliveredSeqs' = DeliveredSeqs
    BY <1>1 DEF DeliveredSeqs
  <2>2. \A x \in DeliveredSeqs : x <= arrivals'
    BY <1>0, <1>1, <1>2, <1>9, DeliveredSeqsNat DEF n
  <2>3. QED
    BY <2>1, <2>2
(* The new frame is the last of the ring's stretch. *)
<1>13. \A i, j \in NewSlots' :
         RxDistFrom(h, i) < RxDistFrom(h, j) =>
           bufFrame'[rxBuffers[i]].seq < bufFrame'[rxBuffers[j]].seq
  <2> SUFFICES ASSUME NEW i \in NewSlots', NEW j \in NewSlots',
                      RxDistFrom(h, i) < RxDistFrom(h, j)
               PROVE  bufFrame'[rxBuffers[i]].seq < bufFrame'[rxBuffers[j]].seq
    OBVIOUS
  <2>1. i \in RxSlots /\ j \in RxSlots
    BY <1>5, <1>2 DEF NewSlots
  <2>2. RxDistFrom(h, i) \in Nat /\ RxDistFrom(h, j) \in Nat
    BY <2>1, <1>2, RxDistRange
  <2>3. \A l \in NewSlots :
          /\ bufFrame'[rxBuffers[l]] = bufFrame[rxBuffers[l]]
          /\ bufFrame[rxBuffers[l]].seq \in Nat
          /\ bufFrame[rxBuffers[l]].seq <= arrivals
    BY <1>4, <1>6, <1>8, <1>0 DEF RxShape, NewSlots, SeqOf
  <2>4. CASE j = p
    <3>1. i # p /\ i \in NewSlots
      BY <2>4, <2>2, <1>5
    <3>2. QED
      BY <2>4, <3>1, <2>3, <1>2, <1>4 DEF n
  <2>5. CASE i = p /\ j # p
    <3>1. j \in NewSlots
      BY <2>5, <1>5
    <3>2. RxDistFrom(h, j) < D
      BY <3>1, <2>1, <1>0, <1>2, StretchNotFull
    <3>3. QED
      BY <2>5, <3>2, <2>2
  <2>6. CASE i # p /\ j # p
    <3>1. i \in NewSlots /\ j \in NewSlots
      BY <2>6, <1>5
    <3>2. bufFrame[rxBuffers[i]].seq < bufFrame[rxBuffers[j]].seq
      BY <3>1, <1>0 DEF RxOrder, SeqOf
    <3>3. QED
      BY <3>1, <3>2, <2>3
  <2>7. QED
    BY <2>4, <2>5, <2>6
(* The batches keep their frames. *)
<1>14. /\ \A i \in DOMAIN chain : bufFrame'[chain[i]] = bufFrame[chain[i]]
       /\ \A q \in DOMAIN ipQueue : \A i \in DOMAIN ipQueue[q] :
            bufFrame'[ipQueue[q][i]] = bufFrame[ipQueue[q][i]]
  <2>1. \A i \in DOMAIN chain : chain[i] \in ChainBufs(chain)
    BY DEF ChainBufs
  <2>2. \A q \in DOMAIN ipQueue : \A i \in DOMAIN ipQueue[q] :
          ipQueue[q][i] \in QueueBufs
    BY DEF QueueBufs, QueueBufsOf, ChainBufs
  <2>3. QED
    BY <2>1, <2>2, <1>7, <1>4
<1>15. /\ BatchSeqs(chain)' = BatchSeqs(chain)
       /\ BatchInOrder(chain)' = BatchInOrder(chain)
       /\ \A q \in DOMAIN ipQueue :
            /\ BatchSeqs(ipQueue[q])' = BatchSeqs(ipQueue[q])
            /\ BatchInOrder(ipQueue[q])' = BatchInOrder(ipQueue[q])
  BY <1>14, <1>1 DEF BatchSeqs, BatchInOrder, SeqOf
<1>16. RingSeqs' = RingSeqs \cup {n}
  <2>1. \A i \in NewSlots : bufFrame'[rxBuffers[i]] = bufFrame[rxBuffers[i]]
    BY <1>4, <1>6, <1>0 DEF RxShape, NewSlots
  <2>2. QED
    BY <2>1, <1>1, <1>4, <1>5 DEF RingSeqs, SeqOf
(* Every frame outside the ring arrived before the new one. *)
<1>17. /\ \A x \in DeliveredSeqs : x < n
       /\ \A x \in BatchSeqs(chain) : x < n
       /\ \A q \in DOMAIN ipQueue : \A x \in BatchSeqs(ipQueue[q]) : x < n
  <2>1. \A c : ChainBufs(c) \subseteq ChainBufs(chain) \cup QueueBufs =>
                 \A x \in BatchSeqs(c) : x < n
    BY <1>2, <1>7, <1>8 DEF BatchSeqs, ChainBufs, n
  <2>2. \A x \in DeliveredSeqs : x < n
    <3>1. \A x \in DeliveredSeqs : x \in Nat
      BY <1>0, DeliveredSeqsNat
    <3>2. QED
      BY <3>1, <1>9, <1>2 DEF n
  <2>3. QED
    BY <2>1, <2>2, BatchInQueue DEF QueueBufs
<1>18. \A i, j \in NewSlots' :
         RxDistFrom(rxHead', i) < RxDistFrom(rxHead', j) =>
           SeqOf(rxBuffers[i])' < SeqOf(rxBuffers[j])'
  BY <1>1, <1>13 DEF SeqOf
<1>19. /\ BatchInOrder(chain)'
       /\ \A q \in DOMAIN ipQueue' : BatchInOrder(ipQueue[q])'
       /\ RxDeliveredInOrder'
  BY <1>0, <1>1, <1>15 DEF RxOrder, RxDeliveredInOrder
<1>20. \A q, r \in DOMAIN ipQueue' :
         q < r => Below(BatchSeqs(ipQueue[q]), BatchSeqs(ipQueue[r]))'
  BY <1>0, <1>1, <1>15 DEF RxOrder
<1>21. \A q \in DOMAIN ipQueue' :
         /\ Below(DeliveredSeqs, BatchSeqs(ipQueue[q]))'
         /\ Below(BatchSeqs(ipQueue[q]), BatchSeqs(chain))'
         /\ Below(BatchSeqs(ipQueue[q]), RingSeqs)'
  BY <1>0, <1>1, <1>12, <1>15, <1>16, <1>17 DEF RxOrder, Below
<1>22. /\ Below(DeliveredSeqs, BatchSeqs(chain))'
       /\ Below(DeliveredSeqs, RingSeqs)'
       /\ Below(BatchSeqs(chain), RingSeqs)'
  BY <1>0, <1>1, <1>12, <1>15, <1>16, <1>17 DEF RxOrder, Below
<1>23. QED
  BY <1>10, <1>11, <1>12, <1>18, <1>19, <1>20, <1>21, <1>22 DEF RxOrder

LEMMA RxDmaReceiveOrder ==
  ASSUME RxOrderInv, NEW k \in Kinds, RxDmaReceive(k)
  PROVE  RxOrder'
<1>1. CASE ~rxStalled /\ ~rxSegments[rxDmaPtr].new
  BY <1>1, RxDmaWriteOrder
<1>2. CASE ~(~rxStalled /\ ~rxSegments[rxDmaPtr].new)
  <2>1. UNCHANGED <<rxSegments, rxBuffers, rxHead, bufFrame, rxDmaPtr,
                    chain, ipQueue, delivered>>
        /\ arrivals' = arrivals + 1
    BY <1>2 DEF RxDmaReceive
  <2>2. arrivals \in Nat
    BY DEF RxOrderInv, RxIInv, RxTypeOK
  <2>3. QED
    BY <2>1, <2>2, OrderUnchanged DEF RxOrderInv, RxIInv
<1>3. QED
  BY <1>1, <1>2
-----------------------------------------------------------------------------
(* emacps_check_rx takes the oldest frame of the ring to the tail of the   *)
(* batch: it is newer than every frame of the batch and older than every   *)
(* frame left in the ring.                                                 *)

LEMMA AppendBatch ==
  ASSUME NEW s \in Seq(RxBufs), NEW e \in RxBufs
  PROVE  /\ BatchSeqs(Append(s, e)) = BatchSeqs(s) \cup {SeqOf(e)}
         /\ BatchInOrder(s) /\ bufFrame[e].kind \in AcceptedKinds
            /\ (\A x \in BatchSeqs(s) : x < SeqOf(e))
            => BatchInOrder(Append(s, e))
<1>1. /\ DOMAIN Append(s, e) = 1 .. Len(s) + 1
      /\ \A i \in 1 .. Len(s) : Append(s, e)[i] = s[i]
      /\ Append(s, e)[Len(s) + 1] = e
      /\ DOMAIN s = 1 .. Len(s)
  BY AppendProperties
<1>2. BatchSeqs(Append(s, e)) = BatchSeqs(s) \cup {SeqOf(e)}
  BY <1>1 DEF BatchSeqs
<1>3. ASSUME BatchInOrder(s), bufFrame[e].kind \in AcceptedKinds,
             \A x \in BatchSeqs(s) : x < SeqOf(e)
      PROVE  BatchInOrder(Append(s, e))
  <2>1. \A i \in 1 .. Len(s) : SeqOf(s[i]) < SeqOf(e)
    BY <1>1, <1>3 DEF BatchSeqs
  <2>2. QED
    BY <1>1, <1>3, <2>1 DEF BatchInOrder
<1>4. QED
  BY <1>2, <1>3

(* Removing the slot at rxHead from the front of the stretch.             *)
LEMMA StretchPop ==
  ASSUME RxIInv, RxOrder, rxHead \in NewSlots,
         NEW S, S = NewSlots \ {rxHead}
  PROVE  \A i \in RxSlots :
           i \in S <=>
             \/ NextRxSlot(rxHead) = rxDmaPtr /\ NextRxSlot(rxHead) \in S
             \/ RxDistFrom(NextRxSlot(rxHead), i)
                  < RxDistFrom(NextRxSlot(rxHead), rxDmaPtr)
<1> DEFINE h == rxHead
           p == rxDmaPtr
           h2 == NextRxSlot(rxHead)
<1>0. h \in RxSlots /\ p \in RxSlots /\ h2 \in RxSlots
  BY NextRxSlotRange DEF RxIInv, RxTypeOK
<1>1. RxDistFrom(h2, p) \in 0 .. NRx - 1
  BY <1>0, RxDistRange
<1>2. CASE h = p
  (* The ring is full. *)
  <2>1. \A i \in RxSlots : i \in NewSlots
    BY <1>2 DEF RxOrder, RxStretch
  <2>2. RxDistFrom(h2, p) = NRx - 1
    BY <1>0, <1>2, RxDistShift
  <2>3. ASSUME NEW i \in RxSlots
        PROVE  i \in S <=> \/ h2 = p /\ h2 \in S
                           \/ RxDistFrom(h2, i) < RxDistFrom(h2, p)
    <3>1. CASE i = h
      BY <3>1, <1>0, <1>2, <2>2, RxDistShift
    <3>2. CASE i # h
      <4>1. RxDistFrom(h2, i) = RxDistFrom(h, i) - 1
        BY <3>2, <1>0, RxDistShift
      <4>2. RxDistFrom(h, i) \in 1 .. NRx - 1
        BY <3>2, <1>0, RxDistRange, RxDistZero
      <4>3. QED
        BY <3>2, <2>1, <2>2, <4>1, <4>2
    <3>3. QED
      BY <3>1, <3>2
  <2>4. QED
    BY <2>3
<1>3. CASE h # p
  <2>1. \A i \in RxSlots : i \in NewSlots <=> RxDistFrom(h, i) < RxDistFrom(h, p)
    BY <1>3 DEF RxOrder, RxStretch
  <2>2. RxDistFrom(h2, p) = RxDistFrom(h, p) - 1
    BY <1>0, <1>3, RxDistShift
  <2>3. p \notin S
    <3>1. ~(RxDistFrom(h, p) < RxDistFrom(h, p))
      BY <1>0, RxDistRange
    <3>2. QED
      BY <2>1, <3>1, <1>0
  <2>4. ASSUME NEW i \in RxSlots
        PROVE  i \in S <=> RxDistFrom(h2, i) < RxDistFrom(h2, p)
    <3>1. RxDistFrom(h, p) \in 1 .. NRx - 1
      BY <1>0, <1>3, RxDistRange, RxDistZero
    <3>2. CASE i = h
      BY <3>2, <3>1, <2>2, <1>0, RxDistShift
    <3>3. CASE i # h
      <4>1. RxDistFrom(h2, i) = RxDistFrom(h, i) - 1
        BY <3>3, <1>0, RxDistShift
      <4>2. RxDistFrom(h, i) \in 1 .. NRx - 1
        BY <3>3, <1>0, RxDistRange, RxDistZero
      <4>3. QED
        BY <3>3, <2>1, <2>2, <3>1, <4>1, <4>2
    <3>4. QED
      BY <3>2, <3>3
  <2>5. QED
    BY <2>3, <2>4
<1>4. QED
  BY <1>2, <1>3

(* What both iterations of the loop do to the ring: the slot at rxHead     *)
(* leaves the stretch, rxHead moves on, no payload changes.               *)
LEMMA RingPop ==
  ASSUME RxOrderInv, rxHead \in NewSlots,
         rxHead' = NextRxSlot(rxHead),
         UNCHANGED <<rxDmaPtr, bufFrame, arrivals>>,
         NewSlots' = NewSlots \ {rxHead},
         \A i \in RxSlots : i # rxHead => rxBuffers'[i] = rxBuffers[i]
  PROVE  /\ RxStretch'
         /\ \A i, j \in NewSlots' :
              RxDistFrom(rxHead', i) < RxDistFrom(rxHead', j) =>
                SeqOf(rxBuffers[i])' < SeqOf(rxBuffers[j])'
         /\ RingSeqs' \subseteq RingSeqs
         /\ \A x \in RingSeqs' : SeqOf(rxBuffers[rxHead]) < x
<1> DEFINE h == rxHead
<1>0. RxIInv /\ RxOrder /\ RxTypeOK /\ RxShape
  BY DEF RxOrderInv, RxIInv
<1>1. h \in RxSlots /\ NextRxSlot(h) \in RxSlots /\ rxDmaPtr \in RxSlots
  BY <1>0, NextRxSlotRange DEF RxTypeOK
<1>2. \A i \in NewSlots' : i \in RxSlots /\ i # h /\ i \in NewSlots
  BY DEF NewSlots
<1>3. \A i \in NewSlots' :
        /\ rxBuffers'[i] = rxBuffers[i] /\ rxBuffers[i] \in RxBufs
        /\ bufFrame'[rxBuffers'[i]] = bufFrame[rxBuffers[i]]
  BY <1>0, <1>2 DEF RxShape
<1>4. RxStretch'
  <2>1. \A i \in RxSlots :
          i \in NewSlots' <=>
            \/ NextRxSlot(h) = rxDmaPtr /\ NextRxSlot(h) \in NewSlots'
            \/ RxDistFrom(NextRxSlot(h), i) < RxDistFrom(NextRxSlot(h), rxDmaPtr)
    BY <1>0, StretchPop
  <2>2. QED
    BY <2>1 DEF RxStretch
<1>5. \A i \in NewSlots' : RxDistFrom(rxHead', i) = RxDistFrom(h, i) - 1
  BY <1>1, <1>2, RxDistShift
<1>6. \A i, j \in NewSlots' :
        RxDistFrom(rxHead', i) < RxDistFrom(rxHead', j) =>
          SeqOf(rxBuffers[i])' < SeqOf(rxBuffers[j])'
  <2> SUFFICES ASSUME NEW i \in NewSlots', NEW j \in NewSlots',
                      RxDistFrom(rxHead', i) < RxDistFrom(rxHead', j)
               PROVE  bufFrame'[rxBuffers'[i]].seq < bufFrame'[rxBuffers'[j]].seq
    BY DEF SeqOf
  <2>1. RxDistFrom(h, i) < RxDistFrom(h, j)
    BY <1>1, <1>2, <1>5, RxDistRange
  <2>2. bufFrame[rxBuffers[i]].seq < bufFrame[rxBuffers[j]].seq
    BY <1>0, <1>2, <2>1 DEF RxOrder, SeqOf
  <2>3. QED
    BY <2>2, <1>3
<1>7. RingSeqs' \subseteq RingSeqs
  BY <1>2, <1>3 DEF RingSeqs, SeqOf
<1>8. \A x \in RingSeqs' : SeqOf(rxBuffers[h]) < x
  <2> SUFFICES ASSUME NEW i \in NewSlots'
               PROVE  SeqOf(rxBuffers[h]) < bufFrame'[rxBuffers'[i]].seq
    BY DEF RingSeqs, SeqOf
  <2>1. RxDistFrom(h, h) < RxDistFrom(h, i)
    BY <1>1, <1>2, RxDistRange, RxDistZero
  <2>2. SeqOf(rxBuffers[h]) < SeqOf(rxBuffers[i])
    BY <1>0, <1>2, <2>1 DEF RxOrder
  <2>3. QED
    BY <2>2, <1>3 DEF SeqOf
<1>9. QED
  BY <1>4, <1>6, <1>7, <1>8

LEMMA CheckRxHandOffOrder ==
  ASSUME RxOrderInv, CheckRxHandOff
  PROVE  RxOrder'
<1> DEFINE h == rxHead
           ob == rxBuffers[rxHead]
<1>0. /\ RxIInv /\ RxOrder /\ RxTypeOK /\ RxShape /\ RxApart
  BY DEF RxOrderInv, RxIInv
<1>1. PICK nb \in pool :
        /\ rxBuffers' = [rxBuffers EXCEPT ![h] = nb]
        /\ rxSegments' = [rxSegments EXCEPT ![h] = Posted(h, nb)]
  BY DEF CheckRxHandOff
<1>2. /\ RxFilled /\ bufFrame[ob].kind \in AcceptedKinds
      /\ chain' = Append(chain, ob)
      /\ rxHead' = NextRxSlot(h)
      /\ UNCHANGED <<bufFrame, rxDmaPtr, ipQueue, delivered, arrivals>>
  BY DEF CheckRxHandOff
<1>3. h \in RxSlots /\ ob \in RxBufs /\ nb \in RxBufs /\ h \in NewSlots
      /\ chain \in Seq(RxBufs)
  BY <1>0, <1>2 DEF RxTypeOK, RxShape, RxFilled, NewSlots
<1>4. NewSlots' = NewSlots \ {h}
  <2>1. ASSUME NEW i \in RxSlots
        PROVE  rxSegments'[i].new <=> (i # h /\ rxSegments[i].new)
    <3>1. CASE i = h
      <4>1. rxSegments'[i] = Posted(h, nb)
        BY <3>1, <1>1, <1>3, <1>0 DEF RxTypeOK
      <4>2. Posted(h, nb).new = FALSE
        BY <1>3, PostedType
      <4>3. QED
        BY <3>1, <4>1, <4>2
    <3>2. CASE i # h
      <4>1. rxSegments'[i] = rxSegments[i]
        BY <3>2, <1>1, <1>0 DEF RxTypeOK
      <4>2. QED
        BY <3>2, <4>1
    <3>3. QED
      BY <3>1, <3>2
  <2>2. QED
    BY <2>1 DEF NewSlots
<1>5. \A i \in RxSlots : i # h => rxBuffers'[i] = rxBuffers[i]
  BY <1>1, <1>0 DEF RxShape
<1>6. /\ RxStretch'
      /\ \A i, j \in NewSlots' :
           RxDistFrom(rxHead', i) < RxDistFrom(rxHead', j) =>
             SeqOf(rxBuffers[i])' < SeqOf(rxBuffers[j])'
      /\ RingSeqs' \subseteq RingSeqs
      /\ \A x \in RingSeqs' : SeqOf(ob) < x
  BY <1>2, <1>3, <1>4, <1>5, RingPop
<1>7. SeqOf(ob) \in RingSeqs
  BY <1>3 DEF RingSeqs
(* The batch grows by the oldest frame of the ring. *)
<1>8. /\ BatchSeqs(chain)' = BatchSeqs(chain) \cup {SeqOf(ob)}
      /\ BatchInOrder(chain)'
  <2>1. BatchSeqs(chain)' = BatchSeqs(Append(chain, ob))
        /\ (BatchInOrder(chain)' <=> BatchInOrder(Append(chain, ob)))
    BY <1>2 DEF BatchSeqs, BatchInOrder, SeqOf
  <2>2. \A x \in BatchSeqs(chain) : x < SeqOf(ob)
    BY <1>0, <1>7 DEF RxOrder, Below
  <2>3. QED
    BY <2>1, <2>2, <1>0, <1>2, <1>3, AppendBatch DEF RxOrder
<1>9. /\ \A q \in DOMAIN ipQueue :
           BatchSeqs(ipQueue[q])' = BatchSeqs(ipQueue[q])
           /\ (BatchInOrder(ipQueue[q])' <=> BatchInOrder(ipQueue[q]))
      /\ DeliveredSeqs' = DeliveredSeqs
      /\ (RxDeliveredInOrder' <=> RxDeliveredInOrder)
      /\ \A b \in RxBufs : SeqOf(b)' = SeqOf(b)
  BY <1>2 DEF BatchSeqs, BatchInOrder, SeqOf, DeliveredSeqs,
              RxDeliveredInOrder
<1>10. /\ \A b \in RxBufs : SeqOf(b)' <= arrivals'
       /\ \A x \in DeliveredSeqs' : x <= arrivals'
       /\ \A q \in DOMAIN ipQueue' : BatchInOrder(ipQueue[q])'
       /\ RxDeliveredInOrder'
       /\ \A q, r \in DOMAIN ipQueue' :
            q < r => Below(BatchSeqs(ipQueue[q]), BatchSeqs(ipQueue[r]))'
  BY <1>0, <1>2, <1>9 DEF RxOrder
<1>11. \A q \in DOMAIN ipQueue' :
         /\ Below(DeliveredSeqs, BatchSeqs(ipQueue[q]))'
         /\ Below(BatchSeqs(ipQueue[q]), BatchSeqs(chain))'
         /\ Below(BatchSeqs(ipQueue[q]), RingSeqs)'
  BY <1>0, <1>2, <1>6, <1>7, <1>8, <1>9 DEF RxOrder, Below
<1>12. /\ Below(DeliveredSeqs, BatchSeqs(chain))'
       /\ Below(DeliveredSeqs, RingSeqs)'
       /\ Below(BatchSeqs(chain), RingSeqs)'
  <2>1. \A x \in BatchSeqs(chain) \cup RingSeqs : x \in Nat
    BY <1>0, SeqOfNat DEF BatchSeqs, RingSeqs, RxShape, NewSlots, RxTypeOK
  <2>2. QED
    BY <2>1, <1>0, <1>6, <1>7, <1>8, <1>9 DEF RxOrder, Below
<1>13. QED
  BY <1>6, <1>8, <1>10, <1>11, <1>12 DEF RxOrder

(* A refused frame leaves the ring and goes nowhere.                       *)
LEMMA CheckRxRecycleOrder ==
  ASSUME RxOrderInv, CheckRxRecycle
  PROVE  RxOrder'
<1> DEFINE h == rxHead
<1>0. /\ RxIInv /\ RxOrder /\ RxTypeOK /\ RxShape
  BY DEF RxOrderInv, RxIInv
<1>1. /\ RxFilled
      /\ rxSegments' = [rxSegments EXCEPT ![h] = Posted(h, rxBuffers[h])]
      /\ rxHead' = NextRxSlot(h)
      /\ UNCHANGED <<rxBuffers, bufFrame, rxDmaPtr, chain, ipQueue, delivered,
                     arrivals>>
  BY DEF CheckRxRecycle
<1>2. h \in RxSlots /\ rxBuffers[h] \in RxBufs /\ h \in NewSlots
  BY <1>0, <1>1 DEF RxTypeOK, RxShape, RxFilled, NewSlots
<1>3. NewSlots' = NewSlots \ {h}
  <2>1. ASSUME NEW i \in RxSlots
        PROVE  rxSegments'[i].new <=> (i # h /\ rxSegments[i].new)
    <3>1. CASE i = h
      <4>1. rxSegments'[i] = Posted(h, rxBuffers[h])
        BY <3>1, <1>1, <1>2, <1>0 DEF RxTypeOK
      <4>2. Posted(h, rxBuffers[h]).new = FALSE
        BY <1>2, PostedType
      <4>3. QED
        BY <3>1, <4>1, <4>2
    <3>2. CASE i # h
      <4>1. rxSegments'[i] = rxSegments[i]
        BY <3>2, <1>1, <1>0 DEF RxTypeOK
      <4>2. QED
        BY <3>2, <4>1
    <3>3. QED
      BY <3>1, <3>2
  <2>2. QED
    BY <2>1 DEF NewSlots
<1>4. /\ RxStretch'
      /\ \A i, j \in NewSlots' :
           RxDistFrom(rxHead', i) < RxDistFrom(rxHead', j) =>
             SeqOf(rxBuffers[i])' < SeqOf(rxBuffers[j])'
      /\ RingSeqs' \subseteq RingSeqs
  BY <1>1, <1>2, <1>3, RingPop
<1>5. /\ BatchSeqs(chain)' = BatchSeqs(chain)
      /\ (BatchInOrder(chain)' <=> BatchInOrder(chain))
      /\ \A q \in DOMAIN ipQueue :
           BatchSeqs(ipQueue[q])' = BatchSeqs(ipQueue[q])
           /\ (BatchInOrder(ipQueue[q])' <=> BatchInOrder(ipQueue[q]))
      /\ DeliveredSeqs' = DeliveredSeqs
      /\ (RxDeliveredInOrder' <=> RxDeliveredInOrder)
      /\ \A b \in RxBufs : SeqOf(b)' = SeqOf(b)
  BY <1>1 DEF BatchSeqs, BatchInOrder, SeqOf, DeliveredSeqs,
              RxDeliveredInOrder
<1>6. QED
  BY <1>0, <1>1, <1>4, <1>5 DEF RxOrder, Below
-----------------------------------------------------------------------------
(* prvPassEthMessages queues the batch behind the older ones, or drops it. *)

LEMMA EmptyBatch ==
  BatchSeqs(<<>>) = {} /\ BatchInOrder(<<>>)
BY DEF BatchSeqs, BatchInOrder

LEMMA PassEthMessagesOrder ==
  ASSUME RxOrderInv, PassEthMessages
  PROVE  RxOrder'
<1> DEFINE L == Len(ipQueue)
<1>0. /\ RxIInv /\ RxOrder /\ RxTypeOK
  BY DEF RxOrderInv, RxIInv
<1>1. /\ ipQueue' = Append(ipQueue, chain) /\ chain' = <<>>
      /\ UNCHANGED <<rxSegments, rxBuffers, rxHead, bufFrame, rxDmaPtr,
                     delivered, arrivals>>
  BY DEF PassEthMessages
<1>2. /\ \A q \in 1 .. L : ipQueue'[q] = ipQueue[q]
      /\ ipQueue'[L + 1] = chain
      /\ DOMAIN ipQueue' = 1 .. L + 1
      /\ DOMAIN ipQueue = 1 .. L /\ L \in Nat
  BY <1>0, <1>1, QueueAppendBufs, LenProperties DEF RxTypeOK
(* Nothing but the queue and the batch changes. *)
<1>3. /\ \A c : BatchSeqs(c)' = BatchSeqs(c) /\ (BatchInOrder(c)' <=> BatchInOrder(c))
      /\ NewSlots' = NewSlots /\ RingSeqs' = RingSeqs
      /\ DeliveredSeqs' = DeliveredSeqs
      /\ (RxDeliveredInOrder' <=> RxDeliveredInOrder)
      /\ (RxStretch' <=> RxStretch)
      /\ \A b \in RxBufs : SeqOf(b)' = SeqOf(b)
  BY <1>1 DEF BatchSeqs, BatchInOrder, SeqOf, NewSlots, RingSeqs,
              DeliveredSeqs, RxDeliveredInOrder, RxStretch
<1>4. /\ BatchSeqs(chain)' = {} /\ BatchInOrder(chain)'
  BY <1>1, <1>3, EmptyBatch
<1>5. \A q \in DOMAIN ipQueue' :
        /\ BatchInOrder(ipQueue[q])'
        /\ Below(DeliveredSeqs, BatchSeqs(ipQueue[q]))'
        /\ Below(BatchSeqs(ipQueue[q]), BatchSeqs(chain))'
        /\ Below(BatchSeqs(ipQueue[q]), RingSeqs)'
  <2> SUFFICES ASSUME NEW q \in DOMAIN ipQueue'
               PROVE  /\ BatchInOrder(ipQueue'[q])
                      /\ Below(DeliveredSeqs, BatchSeqs(ipQueue'[q]))
                      /\ Below(BatchSeqs(ipQueue'[q]), {})
                      /\ Below(BatchSeqs(ipQueue'[q]), RingSeqs)
    BY <1>3, <1>4
  <2>1. Below(BatchSeqs(ipQueue'[q]), {})
    BY DEF Below
  <2>2. CASE q \in 1 .. L
    <3>1. ipQueue'[q] = ipQueue[q] /\ q \in DOMAIN ipQueue
      BY <2>2, <1>2
    <3>2. /\ BatchInOrder(ipQueue[q])
          /\ Below(DeliveredSeqs, BatchSeqs(ipQueue[q]))
          /\ Below(BatchSeqs(ipQueue[q]), RingSeqs)
      BY <3>1, <1>0 DEF RxOrder
    <3>3. QED
      BY <3>1, <3>2, <2>1
  <2>3. CASE q = L + 1
    <3>1. ipQueue'[q] = chain
      BY <2>3, <1>2
    <3>2. /\ BatchInOrder(chain)
          /\ Below(DeliveredSeqs, BatchSeqs(chain))
          /\ Below(BatchSeqs(chain), RingSeqs)
      BY <1>0 DEF RxOrder
    <3>3. QED
      BY <3>1, <3>2, <2>1
  <2>4. QED
    BY <2>2, <2>3, <1>2
<1>6. \A q, r \in DOMAIN ipQueue' :
        q < r => Below(BatchSeqs(ipQueue[q]), BatchSeqs(ipQueue[r]))'
  <2> SUFFICES ASSUME NEW q \in DOMAIN ipQueue', NEW r \in DOMAIN ipQueue', q < r
               PROVE  Below(BatchSeqs(ipQueue'[q]), BatchSeqs(ipQueue'[r]))
    BY <1>3
  <2>1. q \in 1 .. L
    BY <1>2
  <2>2. CASE r = L + 1
    BY <2>1, <2>2, <1>0, <1>2 DEF RxOrder
  <2>3. CASE r \in 1 .. L
    BY <2>1, <2>3, <1>0, <1>2 DEF RxOrder
  <2>4. QED
    BY <2>2, <2>3, <1>2
<1>7. QED
  <2>1. /\ \A b \in RxBufs : SeqOf(b)' <= arrivals'
        /\ \A x \in DeliveredSeqs' : x <= arrivals'
        /\ RxStretch' /\ RxDeliveredInOrder'
        /\ \A i, j \in NewSlots' :
             RxDistFrom(rxHead', i) < RxDistFrom(rxHead', j) =>
               SeqOf(rxBuffers[i])' < SeqOf(rxBuffers[j])'
    BY <1>0, <1>1, <1>3 DEF RxOrder, SeqOf
  <2>2. /\ Below(DeliveredSeqs, BatchSeqs(chain))'
        /\ Below(DeliveredSeqs, RingSeqs)'
        /\ Below(BatchSeqs(chain), RingSeqs)'
    BY <1>0, <1>3, <1>4 DEF RxOrder, Below
  <2>3. QED
    BY <1>4, <1>5, <1>6, <2>1, <2>2 DEF RxOrder

LEMMA PassEthMessagesTimeoutOrder ==
  ASSUME RxOrderInv, PassEthMessagesTimeout
  PROVE  RxOrder'
<1>0. RxOrder
  BY DEF RxOrderInv
<1>1. /\ chain' = <<>>
      /\ UNCHANGED <<rxSegments, rxBuffers, rxHead, bufFrame, rxDmaPtr,
                     ipQueue, delivered, arrivals>>
  BY DEF PassEthMessagesTimeout
<1>2. /\ \A c : BatchSeqs(c)' = BatchSeqs(c) /\ (BatchInOrder(c)' <=> BatchInOrder(c))
      /\ NewSlots' = NewSlots /\ RingSeqs' = RingSeqs
      /\ DeliveredSeqs' = DeliveredSeqs
      /\ (RxDeliveredInOrder' <=> RxDeliveredInOrder)
      /\ (RxStretch' <=> RxStretch)
      /\ \A b \in RxBufs : SeqOf(b)' = SeqOf(b)
  BY <1>1 DEF BatchSeqs, BatchInOrder, SeqOf, NewSlots, RingSeqs,
              DeliveredSeqs, RxDeliveredInOrder, RxStretch
<1>3. /\ BatchSeqs(chain)' = {} /\ BatchInOrder(chain)'
  BY <1>1, <1>2, EmptyBatch
<1>4. /\ \A b \in RxBufs : SeqOf(b)' <= arrivals'
      /\ \A x \in DeliveredSeqs' : x <= arrivals'
      /\ RxStretch' /\ RxDeliveredInOrder'
      /\ \A i, j \in NewSlots' :
           RxDistFrom(rxHead', i) < RxDistFrom(rxHead', j) =>
             SeqOf(rxBuffers[i])' < SeqOf(rxBuffers[j])'
  BY <1>0, <1>1, <1>2 DEF RxOrder, SeqOf
<1>5. /\ \A q \in DOMAIN ipQueue' : BatchInOrder(ipQueue[q])'
      /\ \A q, r \in DOMAIN ipQueue' :
           q < r => Below(BatchSeqs(ipQueue[q]), BatchSeqs(ipQueue[r]))'
      /\ \A q \in DOMAIN ipQueue' :
           /\ Below(DeliveredSeqs, BatchSeqs(ipQueue[q]))'
           /\ Below(BatchSeqs(ipQueue[q]), RingSeqs)'
  BY <1>0, <1>1, <1>2 DEF RxOrder
<1>6. /\ \A q \in DOMAIN ipQueue' : Below(BatchSeqs(ipQueue[q]), BatchSeqs(chain))'
      /\ Below(DeliveredSeqs, BatchSeqs(chain))'
      /\ Below(BatchSeqs(chain), RingSeqs)'
  BY <1>3 DEF Below
<1>7. Below(DeliveredSeqs, RingSeqs)'
  BY <1>0, <1>2 DEF RxOrder
<1>8. QED
  BY <1>3, <1>4, <1>5, <1>6, <1>7 DEF RxOrder
-----------------------------------------------------------------------------
(* The IP task delivers the oldest batch after everything delivered.       *)

LEMMA BelowUnion ==
  ASSUME NEW A, NEW B, NEW C
  PROVE  /\ Below(A \cup B, C) <=> Below(A, C) /\ Below(B, C)
         /\ Below(C, A \cup B) <=> Below(C, A) /\ Below(C, B)
BY DEF Below

(* Where the frames of the two parts of a concatenation land. *)
LEMMA ConcatAt ==
  ASSUME NEW S, NEW s \in Seq(S), NEW t \in Seq(S)
  PROVE  /\ DOMAIN (s \o t) = 1 .. Len(s) + Len(t)
         /\ \A i \in 1 .. Len(s) : (s \o t)[i] = s[i]
         /\ \A i \in 1 .. Len(t) : (s \o t)[Len(s) + i] = t[i]
<1>1. /\ s \o t \in Seq(S)
      /\ Len(s \o t) = Len(s) + Len(t)
      /\ \A i \in 1 .. Len(s) + Len(t) :
           (s \o t)[i] = IF i <= Len(s) THEN s[i] ELSE t[i - Len(s)]
  BY ConcatProperties
<1>2. Len(s) \in Nat /\ Len(t) \in Nat
  BY LenProperties
<1>3. QED
  BY <1>1, <1>2, LenProperties

LEMMA IpTaskReceiveOrder ==
  ASSUME RxOrderInv, IpTaskReceive
  PROVE  RxOrder'
<1> DEFINE c == Head(ipQueue)
           F == [i \in DOMAIN c |-> bufFrame[c[i]]]
           L == Len(delivered)
           n == Len(c)
<1>0. /\ RxOrder /\ RxTypeOK
  BY DEF RxOrderInv, RxIInv
<1>1. /\ ipQueue # <<>>
      /\ delivered' = delivered \o F
      /\ ipQueue' = Tail(ipQueue)
      /\ UNCHANGED <<rxSegments, rxBuffers, rxHead, bufFrame, rxDmaPtr,
                     chain, arrivals>>
  BY DEF IpTaskReceive
<1>2. /\ ipQueue \in Seq(Seq(RxBufs))
      /\ DOMAIN ipQueue = 1 .. Len(ipQueue) /\ Len(ipQueue) \in Nat
      /\ delivered \in Seq(Frames)
  BY <1>0, LenProperties DEF RxTypeOK
<1>3. /\ DOMAIN ipQueue' = 1 .. Len(ipQueue) - 1
      /\ \A q \in 1 .. Len(ipQueue) - 1 : ipQueue'[q] = ipQueue[q + 1]
      /\ c = ipQueue[1] /\ 1 \in DOMAIN ipQueue
      /\ c \in Seq(RxBufs)
  BY <1>1, <1>2, QueueTailBufs, HeadTailProperties
<1>4. /\ n \in Nat /\ L \in Nat
      /\ DOMAIN c = 1 .. n /\ DOMAIN delivered = 1 .. L
  BY <1>2, <1>3, LenProperties
<1>40. F \in Seq(Frames)
  <2>1. ChainBufs(c) \subseteq QueueBufs
    BY <1>3, BatchInQueue DEF QueueBufs
  <2>2. \A b \in QueueBufs : bufFrame[b] \in Frames
    BY DEF RxOrderInv, RxIInv, RxFramesReal
  <2>3. \A i \in 1 .. n : c[i] \in ChainBufs(c)
    BY <1>4 DEF ChainBufs
  <2>4. F \in [1 .. n -> Frames]
    BY <1>4, <2>1, <2>2, <2>3
  <2>5. QED
    BY <1>4, <2>4, SeqDef
<1>5. /\ DOMAIN delivered' = 1 .. L + n
      /\ \A i \in 1 .. L : delivered'[i] = delivered[i]
      /\ \A i \in 1 .. n : delivered'[L + i] = bufFrame[c[i]]
  <2>1. /\ Len(F) = n
        /\ \A i \in 1 .. n : F[i] = bufFrame[c[i]]
    BY <1>4, <1>40, LenProperties
  <2>2. /\ DOMAIN (delivered \o F) = 1 .. Len(delivered) + Len(F)
        /\ \A i \in 1 .. Len(delivered) : (delivered \o F)[i] = delivered[i]
        /\ \A i \in 1 .. Len(F) : (delivered \o F)[Len(delivered) + i] = F[i]
    <3> HIDE DEF F
    <3> QED
      BY <1>2, <1>40, ConcatAt
  <2>3. DOMAIN delivered' = 1 .. L + n
    BY <1>1, <2>1, <2>2
  <2>4. \A i \in 1 .. L : delivered'[i] = delivered[i]
    BY <1>1, <2>2
  <2>5. \A i \in 1 .. n : delivered'[L + i] = bufFrame[c[i]]
    BY <1>1, <2>1, <2>2
  <2>6. QED
    BY <2>3, <2>4, <2>5
(* The same state but the delivered list and the queue. *)
<1>6. /\ \A x : BatchSeqs(x)' = BatchSeqs(x) /\ (BatchInOrder(x)' <=> BatchInOrder(x))
      /\ NewSlots' = NewSlots /\ RingSeqs' = RingSeqs
      /\ (RxStretch' <=> RxStretch)
      /\ \A b \in RxBufs : SeqOf(b)' = SeqOf(b)
  BY <1>1 DEF BatchSeqs, BatchInOrder, SeqOf, NewSlots, RingSeqs, RxStretch
<1>7. DeliveredSeqs' = DeliveredSeqs \cup BatchSeqs(c)
  <2>1. ASSUME NEW j \in DOMAIN delivered'
        PROVE  delivered'[j].seq \in DeliveredSeqs \cup BatchSeqs(c)
    <3>1. CASE j \in 1 .. L
      BY <3>1, <1>5, <1>4 DEF DeliveredSeqs
    <3>2. CASE j \in L + 1 .. L + n
      <4>1. j - L \in 1 .. n /\ j = L + (j - L)
        BY <3>2, <1>4
      <4>2. delivered'[j].seq = SeqOf(c[j - L])
        BY <4>1, <1>5 DEF SeqOf
      <4>3. QED
        BY <4>1, <4>2, <1>4 DEF BatchSeqs
    <3>3. QED
      BY <3>1, <3>2, <1>4, <1>5
  <2>2. ASSUME NEW x \in DeliveredSeqs \cup BatchSeqs(c)
        PROVE  \E j \in DOMAIN delivered' : delivered'[j].seq = x
    <3>1. CASE x \in DeliveredSeqs
      BY <3>1, <1>5, <1>4 DEF DeliveredSeqs
    <3>2. CASE x \in BatchSeqs(c)
      <4>1. PICK i \in 1 .. n : x = SeqOf(c[i])
        BY <3>2, <1>4 DEF BatchSeqs
      <4>2. L + i \in DOMAIN delivered' /\ delivered'[L + i].seq = x
        BY <4>1, <1>5, <1>4 DEF SeqOf
      <4>3. QED
        BY <4>2
    <3>3. QED
      BY <2>2, <3>1, <3>2
  <2>3. QED
    BY <2>1, <2>2 DEF DeliveredSeqs
<1>8. /\ BatchInOrder(c)
      /\ Below(DeliveredSeqs, BatchSeqs(c))
      /\ Below(BatchSeqs(c), BatchSeqs(chain))
      /\ Below(BatchSeqs(c), RingSeqs)
      /\ \A q \in 1 .. Len(ipQueue) - 1 :
           Below(BatchSeqs(c), BatchSeqs(ipQueue[q + 1]))
  <2>1. \A q \in 1 .. Len(ipQueue) - 1 : q + 1 \in DOMAIN ipQueue /\ 1 < q + 1
    BY <1>2
  <2>2. QED
    BY <1>0, <1>3, <2>1 DEF RxOrder
<1>9. /\ \A b \in RxBufs : SeqOf(b)' <= arrivals'
      /\ \A x \in DeliveredSeqs' : x <= arrivals'
      /\ RxStretch'
      /\ \A i, j \in NewSlots' :
           RxDistFrom(rxHead', i) < RxDistFrom(rxHead', j) =>
             SeqOf(rxBuffers[i])' < SeqOf(rxBuffers[j])'
  <2>1. \A x \in BatchSeqs(c) : x <= arrivals
    BY <1>0, <1>3, <1>4 DEF BatchSeqs, RxOrder
  <2>2. QED
    BY <1>0, <1>1, <1>6, <1>7, <2>1 DEF RxOrder, SeqOf
<1>10. /\ BatchInOrder(chain)'
       /\ \A q \in DOMAIN ipQueue' : BatchInOrder(ipQueue[q])'
  <2>1. \A q \in DOMAIN ipQueue' : BatchInOrder(ipQueue'[q])
    <3> SUFFICES ASSUME NEW q \in DOMAIN ipQueue' PROVE BatchInOrder(ipQueue'[q])
      OBVIOUS
    <3>1. q + 1 \in DOMAIN ipQueue /\ ipQueue'[q] = ipQueue[q + 1]
      BY <1>2, <1>3
    <3>2. QED
      BY <3>1, <1>0 DEF RxOrder
  <2>2. QED
    BY <2>1, <1>0, <1>1, <1>6 DEF RxOrder
<1>11. RxDeliveredInOrder'
  <2>1. ASSUME NEW i \in DOMAIN delivered'
        PROVE  delivered'[i].kind \in AcceptedKinds
    <3>1. CASE i \in 1 .. L
      BY <3>1, <1>5, <1>4, <1>0 DEF RxOrder, RxDeliveredInOrder
    <3>2. CASE i \in L + 1 .. L + n
      <4>1. i - L \in 1 .. n /\ i = L + (i - L)
        BY <3>2, <1>4
      <4>2. delivered'[i] = bufFrame[c[i - L]]
        BY <4>1, <1>5
      <4>3. QED
        BY <4>1, <4>2, <1>4, <1>8 DEF BatchInOrder
    <3>3. QED
      BY <3>1, <3>2, <1>4, <1>5
  <2>2. ASSUME NEW i \in DOMAIN delivered', NEW j \in DOMAIN delivered', i < j
        PROVE  delivered'[i].seq < delivered'[j].seq
    <3>1. CASE j \in 1 .. L
      <4>1. i \in 1 .. L
        BY <3>1, <2>2, <1>4, <1>5
      <4>2. QED
        BY <4>1, <3>1, <2>2, <1>5, <1>4, <1>0 DEF RxOrder, RxDeliveredInOrder
    <3>2. CASE j \in L + 1 .. L + n
      <4>1. j - L \in 1 .. n /\ j = L + (j - L)
        BY <3>2, <1>4
      <4>2. delivered'[j].seq = SeqOf(c[j - L]) /\ SeqOf(c[j - L]) \in BatchSeqs(c)
        BY <4>1, <1>5, <1>4 DEF SeqOf, BatchSeqs
      <4>3. CASE i \in 1 .. L
        <5>1. delivered'[i].seq \in DeliveredSeqs
          BY <4>3, <1>5, <1>4 DEF DeliveredSeqs
        <5>2. QED
          BY <5>1, <4>2, <1>8 DEF Below
      <4>4. CASE i \in L + 1 .. L + n
        <5>1. i - L \in 1 .. n /\ i = L + (i - L) /\ i - L < j - L
          BY <4>4, <4>1, <2>2, <1>4
        <5>2. delivered'[i].seq = SeqOf(c[i - L])
          BY <5>1, <1>5, <1>4 DEF SeqOf
        <5>3. QED
          BY <5>1, <5>2, <4>1, <4>2, <1>4, <1>8 DEF BatchInOrder
      <4>5. QED
        BY <4>3, <4>4, <2>2, <1>4, <1>5
    <3>3. QED
      BY <3>1, <3>2, <1>4, <1>5
  <2>3. QED
    BY <2>1, <2>2 DEF RxDeliveredInOrder
<1>12. \A q, r \in DOMAIN ipQueue' :
         q < r => Below(BatchSeqs(ipQueue[q]), BatchSeqs(ipQueue[r]))'
  <2> SUFFICES ASSUME NEW q \in DOMAIN ipQueue', NEW r \in DOMAIN ipQueue', q < r
               PROVE  Below(BatchSeqs(ipQueue'[q]), BatchSeqs(ipQueue'[r]))
    BY <1>6
  <2>1. /\ q + 1 \in DOMAIN ipQueue /\ r + 1 \in DOMAIN ipQueue /\ q + 1 < r + 1
        /\ ipQueue'[q] = ipQueue[q + 1] /\ ipQueue'[r] = ipQueue[r + 1]
    BY <1>2, <1>3
  <2>2. QED
    BY <2>1, <1>0 DEF RxOrder
<1>13. \A q \in DOMAIN ipQueue' :
         /\ Below(DeliveredSeqs, BatchSeqs(ipQueue[q]))'
         /\ Below(BatchSeqs(ipQueue[q]), BatchSeqs(chain))'
         /\ Below(BatchSeqs(ipQueue[q]), RingSeqs)'
  <2> SUFFICES ASSUME NEW q \in DOMAIN ipQueue'
               PROVE  /\ Below(DeliveredSeqs \cup BatchSeqs(c), BatchSeqs(ipQueue'[q]))
                      /\ Below(BatchSeqs(ipQueue'[q]), BatchSeqs(chain))
                      /\ Below(BatchSeqs(ipQueue'[q]), RingSeqs)
    BY <1>1, <1>6, <1>7
  <2>1. /\ q + 1 \in DOMAIN ipQueue /\ q \in 1 .. Len(ipQueue) - 1
        /\ ipQueue'[q] = ipQueue[q + 1]
    BY <1>2, <1>3
  <2>2. /\ Below(DeliveredSeqs, BatchSeqs(ipQueue[q + 1]))
        /\ Below(BatchSeqs(ipQueue[q + 1]), BatchSeqs(chain))
        /\ Below(BatchSeqs(ipQueue[q + 1]), RingSeqs)
    BY <2>1, <1>0 DEF RxOrder
  <2>3. QED
    BY <2>1, <2>2, <1>8, BelowUnion
<1>14. /\ Below(DeliveredSeqs, BatchSeqs(chain))'
       /\ Below(DeliveredSeqs, RingSeqs)'
       /\ Below(BatchSeqs(chain), RingSeqs)'
  <2>1. /\ Below(DeliveredSeqs \cup BatchSeqs(c), BatchSeqs(chain))
        /\ Below(DeliveredSeqs \cup BatchSeqs(c), RingSeqs)
        /\ Below(BatchSeqs(chain), RingSeqs)
    BY <1>0, <1>8, BelowUnion DEF RxOrder
  <2>2. QED
    BY <2>1, <1>1, <1>6, <1>7
<1>15. QED
  BY <1>9, <1>10, <1>11, <1>12, <1>13, <1>14 DEF RxOrder
-----------------------------------------------------------------------------
(* init_dma posts every slot with NEW clear, and nothing has arrived.      *)

LEMMA InitRxOrder ==
  ASSUME Init
  PROVE  RxOrder
<1>1. PICK alloc \in [RxSlots -> RxBufs] :
        rxSegments = [i \in RxSlots |-> Posted(i, alloc[i])]
  BY DEF Init
<1>2. NewSlots = {}
  <2>1. \A i \in RxSlots : Posted(i, alloc[i]).new = FALSE
    BY DEF Posted
  <2>2. QED
    BY <1>1, <2>1 DEF NewSlots
<1>3. /\ rxHead = 0 /\ rxDmaPtr = 0
      /\ bufFrame = [b \in RxBufs |-> NoFrame] /\ arrivals = 0
      /\ chain = <<>> /\ ipQueue = <<>> /\ delivered = <<>>
  BY DEF Init
<1>4. RxStretch
  <2>1. \A i \in RxSlots : ~(RxDistFrom(rxHead, i) < RxDistFrom(rxHead, rxDmaPtr))
    BY <1>3, NRxAssumption DEF RxDistFrom, RxSlots
  <2>2. QED
    BY <1>2, <2>1 DEF RxStretch
<1>5. /\ \A b \in RxBufs : SeqOf(b) <= arrivals
      /\ RingSeqs = {} /\ DeliveredSeqs = {} /\ BatchSeqs(chain) = {}
      /\ BatchInOrder(chain) /\ RxDeliveredInOrder /\ DOMAIN ipQueue = {}
  BY <1>2, <1>3 DEF SeqOf, NoFrame, RingSeqs, DeliveredSeqs, BatchSeqs,
                    BatchInOrder, RxDeliveredInOrder
<1>6. QED
  BY <1>2, <1>4, <1>5 DEF RxOrder, Below

(* Every step of the RX path keeps the order invariant. *)
LEMMA NextRxOrder ==
  ASSUME RxOrderInv, [RxNext]_rxVars
  PROVE  RxOrder'
<1>1. CASE \E k \in Kinds : RxDmaReceive(k)
  BY <1>1, RxDmaReceiveOrder
<1>2. CASE RecvHandler \/ RxStall \/ PeriodicResetRx \/ CheckRxBreak
             \/ CheckRxStart
  BY <1>2, QuietStepsOrder
<1>3. CASE CheckRxHandOff
  BY <1>3, CheckRxHandOffOrder
<1>4. CASE CheckRxRecycle
  BY <1>4, CheckRxRecycleOrder
<1>5. CASE PassEthMessages
  BY <1>5, PassEthMessagesOrder
<1>6. CASE PassEthMessagesTimeout
  BY <1>6, PassEthMessagesTimeoutOrder
<1>7. CASE IpTaskReceive
  BY <1>7, IpTaskReceiveOrder
<1>8. CASE UNCHANGED rxVars
  <2>1. arrivals' \in Nat /\ arrivals <= arrivals'
    BY <1>8 DEF rxVars, RxOrderInv, RxIInv, RxTypeOK
  <2>2. QED
    BY <1>8, <2>1, OrderUnchanged DEF rxVars, RxOrderInv, RxIInv
<1>9. QED
  BY <1>1, <1>2, <1>3, <1>4, <1>5, <1>6, <1>7, <1>8 DEF RxNext

(* The IP task receives the frames in the order they arrived on the wire, *)
(* and only frames the accept filter passed: the DMA fills the ring in     *)
(* order, emacps_check_rx reads it from rxHead in order and appends to the *)
(* batch, prvPassEthMessages queues batches behind older ones, and the IP  *)
(* task takes the oldest batch.  RxOrderInv carries the order across all   *)
(* five stages a frame passes through.                                     *)
THEOREM RxDeliveredInOrderThm == RxSpec => []RxDeliveredInOrder
<1>1. Init => RxOrderInv
  BY InitRxIInv, InitRxOrder DEF RxOrderInv
<1>2. RxOrderInv /\ [RxNext]_rxVars => RxOrderInv'
  BY NextRxIInv, NextRxOrder DEF RxOrderInv
<1>3. RxOrderInv => RxDeliveredInOrder
  BY DEF RxOrderInv, RxOrder
<1>4. QED
  BY <1>1, <1>2, <1>3, PTL DEF RxSpec
=============================================================================
