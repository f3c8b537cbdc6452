---------------------------- MODULE EmacTxProofs ----------------------------
(***************************************************************************)
(* Proofs about the TX path of EmacTx, for every ring size NTx and every   *)
(* set of buffers.                                                         *)
(***************************************************************************)
EXTENDS EmacTxInv, TLAPS

LEMMA DescriptorUpdate ==
  ASSUME NEW r \in Descriptor, NEW w \in BOOLEAN
  PROVE  /\ [r EXCEPT !.used = TRUE] \in Descriptor
         /\ [r EXCEPT !.used = TRUE, !.wrap = w] \in Descriptor
         /\ [r EXCEPT !.used = TRUE].wrap = r.wrap
         /\ [r EXCEPT !.used = TRUE, !.wrap = w].wrap = w
BY DEF Descriptor

LEMMA NextSlotType == \A i \in Slots : NextSlot(i) \in Slots
BY NTxAssumption DEF NextSlot, Slots

-----------------------------------------------------------------------------
(* Distances round the ring.                                               *)

LEMMA DistRange ==
  ASSUME NEW t \in Slots, NEW i \in Slots
  PROVE  DistFrom(t, i) \in 0 .. NTx - 1
BY NTxAssumption DEF DistFrom, Slots

LEMMA DistInjective ==
  ASSUME NEW t \in Slots, NEW i \in Slots, NEW j \in Slots,
         DistFrom(t, i) = DistFrom(t, j)
  PROVE  i = j
BY NTxAssumption DEF DistFrom, Slots

LEMMA DistZero ==
  ASSUME NEW t \in Slots, NEW i \in Slots
  PROVE  DistFrom(t, i) = 0 <=> i = t
BY NTxAssumption DEF DistFrom, Slots

\* Moving the origin one slot forward, as txTail does.
LEMMA DistShift ==
  ASSUME NEW t \in Slots, NEW i \in Slots
  PROVE  DistFrom(NextSlot(t), i) =
           IF i = t THEN NTx - 1 ELSE DistFrom(t, i) - 1
BY NTxAssumption DEF DistFrom, NextSlot, Slots

\* Moving a slot one forward, as txHead and the DMA pointer do.
LEMMA DistNext ==
  ASSUME NEW t \in Slots, NEW i \in Slots
  PROVE  DistFrom(t, NextSlot(i)) =
           IF DistFrom(t, i) = NTx - 1 THEN 0 ELSE DistFrom(t, i) + 1
BY NTxAssumption DEF DistFrom, NextSlot, Slots

\* The GEM's step to the next descriptor, by WRAP, is NextSlot.
LEMMA DmaStep ==
  ASSUME TypeOK, WrapOnLast, NEW p \in Slots
  PROVE  (IF txSegments[p].wrap THEN 0 ELSE p + 1) = NextSlot(p)
BY NTxAssumption DEF WrapOnLast, NextSlot, Slots

LEMMA InitTypeInv == Init => TypeInv
<1> SUFFICES ASSUME Init PROVE TypeInv
  OBVIOUS
<1>1. CleanTxSegments \in [Slots -> Descriptor]
  BY BuffersAssumption DEF CleanTxSegments, Descriptor
<1>2. \A i \in Slots : CleanTxSegments[i].wrap <=> i = NTx - 1
  BY DEF CleanTxSegments
<1>3. TypeOK
  <2>1. txBuffers \in [Slots -> Buffers \cup {NULL}]
    BY DEF Init
  <2>2. /\ txHead \in Slots /\ txTail \in Slots /\ txSemCount \in 0..NTx
        /\ chkHead \in Slots /\ chkCount \in 0..NTx /\ dmaPtr \in Slots
    BY NTxAssumption DEF Init, Slots
  <2>3. /\ txBusy \in BOOLEAN /\ txIsrEvent \in BOOLEAN /\ dmaGo \in BOOLEAN
        /\ dmaBusy \in BOOLEAN /\ txIrq \in BOOLEAN
    BY DEF Init
  <2>4. /\ sndPc \in {"idle", "take", "fill", "publish", "advance", "kick"}
        /\ chkPc \in {"idle", "count", "loop"}
        /\ sndBuf \in Buffers \cup {NULL} /\ dmaBuf \in Buffers \cup {NULL}
        /\ pool \in SUBSET Buffers /\ stack \in SUBSET Buffers
    BY DEF Init
  <2>5. QED
    BY <1>1, <2>1, <2>2, <2>3, <2>4 DEF Init, TypeOK
<1>4. WrapOnLast
  BY <1>2 DEF Init, WrapOnLast
<1>5. SenderHolds
  BY DEF Init, SenderHolds
<1>6. QED
  BY <1>3, <1>4, <1>5 DEF TypeInv

LEMMA NextTypeInv == TypeInv /\ [Next]_vars => TypeInv'
<1> SUFFICES ASSUME TypeInv, [Next]_vars PROVE TypeInv'
  OBVIOUS
<1> USE NTxAssumption, BuffersAssumption DEF TypeInv, TypeOK, WrapOnLast,
        SenderHolds, Descriptor, Slots, txRing, sender, checker, dma
<1>1. ASSUME NEW b \in Buffers, StackAlloc(b) PROVE TypeInv'
  BY <1>1 DEF StackAlloc
<1>2. ASSUME NEW b \in Buffers, NEW len \in Lengths, SendStart(b, len)
      PROVE TypeInv'
  BY <1>2 DEF SendStart
<1>3. CASE SendTake
  BY <1>3 DEF SendTake
<1>4. CASE SendTimeout
  BY <1>4 DEF SendTimeout
<1>5. CASE SendFill
  BY <1>5 DEF SendFill
<1>6. CASE SendPublish
  BY <1>6 DEF SendPublish
<1>7. CASE SendAdvance
  BY <1>7, NextSlotType DEF SendAdvance
<1>8. CASE SendKick
  BY <1>8 DEF SendKick
<1>9. CASE CheckTxStart
  BY <1>9 DEF CheckTxStart
<1>10. CASE CheckTxCount
  BY <1>10 DEF CheckTxCount, Slots
<1>11. CASE CheckTxReclaim
  <2>1. txSegments' \in [Slots -> Descriptor] /\ WrapOnLast'
    <3>1. /\ txSegments' = [txSegments EXCEPT ![txTail] =
                  [txSegments[txTail] EXCEPT !.used = TRUE,
                                             !.wrap = txTail = NTx - 1]]
    BY <1>11 DEF CheckTxReclaim
    <3>2. /\ [txSegments[txTail] EXCEPT !.used = TRUE,
                                     !.wrap = txTail = NTx - 1] \in Descriptor
          /\ [txSegments[txTail] EXCEPT !.used = TRUE,
                                     !.wrap = txTail = NTx - 1].wrap
             = (txTail = NTx - 1)
      <4>1. txSegments[txTail] \in Descriptor
        OBVIOUS
      <4>2. (txTail = NTx - 1) \in BOOLEAN
        OBVIOUS
      <4>3. QED
        BY <4>1, <4>2, DescriptorUpdate
    <3>3. \A i \in Slots : /\ txSegments'[i] \in Descriptor
                           /\ txSegments'[i].wrap <=> i = NTx - 1
      BY <3>1, <3>2
    <3>4. txSegments' \in [Slots -> Descriptor]
      BY <3>1, <3>3
    <3>5. QED
      BY <3>3, <3>4
  <2>2. chkCount' \in 0..NTx
    BY <1>11 DEF CheckTxReclaim, CheckTxMayReclaim
  <2>3. QED
    BY <1>11, <2>1, <2>2, NextSlotType DEF CheckTxReclaim
<1>12. CASE CheckTxDone
  BY <1>12 DEF CheckTxDone
<1>13. CASE DmaFetch
  BY <1>13 DEF DmaFetch
<1>14. CASE DmaComplete
  <2>1. txSegments' \in [Slots -> Descriptor] /\ WrapOnLast'
    <3>1. txSegments' = [txSegments EXCEPT ![dmaPtr] =
                           [txSegments[dmaPtr] EXCEPT !.used = TRUE]]
      BY <1>14 DEF DmaComplete
    <3>2. /\ [txSegments[dmaPtr] EXCEPT !.used = TRUE] \in Descriptor
          /\ [txSegments[dmaPtr] EXCEPT !.used = TRUE].wrap
             = txSegments[dmaPtr].wrap
      <4>1. txSegments[dmaPtr] \in Descriptor
        OBVIOUS
      <4>2. QED
        BY <4>1, DescriptorUpdate
    <3>3. \A i \in Slots : /\ txSegments'[i] \in Descriptor
                           /\ txSegments'[i].wrap <=> i = NTx - 1
      BY <3>1, <3>2
    <3>4. txSegments' \in [Slots -> Descriptor]
      BY <3>1, <3>3
    <3>5. QED
      BY <3>3, <3>4
  <2>2. dmaPtr' \in Slots
    BY <1>14 DEF DmaComplete
  <2>3. QED
    BY <1>14, <2>1, <2>2 DEF DmaComplete
<1>15. CASE DmaHalt
  BY <1>15 DEF DmaHalt
<1>16. CASE SendHandler
  BY <1>16 DEF SendHandler
<1>17. CASE UNCHANGED vars
  BY <1>17 DEF vars
<1>18. QED
  BY <1>1, <1>2, <1>3, <1>4, <1>5, <1>6, <1>7, <1>8, <1>9, <1>10, <1>11,
     <1>12, <1>13, <1>14, <1>15, <1>16, <1>17 DEF Next

-----------------------------------------------------------------------------
(* The inductive invariant IInv.                                           *)

LEMMA InitIInv == Init => IInv
<1> SUFFICES ASSUME Init PROVE IInv
  OBVIOUS
<1>1. TypeInv
  BY InitTypeInv
<1>0. txSemCount = NTx /\ sndPc = "idle" /\ txTail = 0
  BY DEF Init
<1>1a. HeldCredit = 0 /\ AdvancePending = 0 /\ NTx - txSemCount = 0
  BY <1>0, NTxAssumption DEF HeldCredit, AdvancePending, Held
<1>2. InFlight = 0 /\ NPub = 0
  BY <1>1a DEF InFlight, NPub
<1>3. \A i \in Slots : Dist(i) \in 0 .. NTx - 1
  BY <1>0, DistRange, NTxAssumption DEF Dist, Slots
<1>4. RingShape
  <2>1. HeadAt
    BY <1>2, NTxAssumption DEF Init, HeadAt, Dist, DistFrom
  <2>2. PubFilled /\ FreeUsed
    BY <1>2, <1>3 DEF Init, PubFilled, FreeUsed, CleanTxSegments
  <2>3. DmaAt(0)
    BY <1>2, <1>3, NTxAssumption DEF TypeOK, Init, DmaAt, Dist, DistFrom
  <2>4. QED
    BY <1>2, <2>1, <2>2, <2>3, NTxAssumption
    DEF TypeOK, RingShape, DmaInside, DmaReading, Init
<1>5. BuffersApart /\ CheckerCurrent
  BY BuffersAssumption DEF Init, BuffersApart, CheckerCurrent
<1>6. QED
  BY <1>1, <1>4, <1>5 DEF IInv

\* A step that leaves the credits alone and moves the sender neither into
\* nor out of the section where it holds a credit keeps the counts.
LEMMA CountsStable ==
  ASSUME txSemCount' = txSemCount, Held' <=> Held,
         (sndPc' = "advance") <=> (sndPc = "advance")
  PROVE  InFlight' = InFlight /\ NPub' = NPub
<1>1. HeldCredit' = HeldCredit /\ AdvancePending' = AdvancePending
  BY DEF HeldCredit, AdvancePending
<1>2. QED
  BY <1>1 DEF InFlight, NPub

\* A step that moves no slot, index or DMA state and keeps the counts of
\* in-flight and published slots keeps the shape of the ring.
\* At most one slot is published beyond txHead, and only while the sender
\* holds a credit, so the published slots never exceed the ring.
LEMMA NPubRange ==
  ASSUME TypeOK, InFlight \in 0 .. NTx
  PROVE  NPub \in InFlight .. NTx
<1>1. AdvancePending = 1 => HeldCredit = 1
  BY DEF AdvancePending, HeldCredit, Held
<1>2. AdvancePending \in {0, 1} /\ HeldCredit \in {0, 1}
  BY DEF AdvancePending, HeldCredit
<1>3. QED
  BY <1>1, <1>2, NTxAssumption DEF NPub, InFlight, TypeOK

LEMMA RingCoreStable ==
  ASSUME RingShape,
         UNCHANGED <<txSegments, txBuffers, txHead, txTail, dmaPtr>>,
         InFlight' = InFlight, NPub' = NPub,
         (sndPc' = "publish") <=> (sndPc = "publish"),
         sndPc = "publish" => sndBuf' = sndBuf
  PROVE  InFlight' \in 0 .. NTx /\ HeadAt' /\ PubFilled' /\ FreeUsed'
         /\ DmaInside'
<1>1. InFlight' \in 0 .. NTx /\ HeadAt'
  BY DEF RingShape, HeadAt, Dist
<1>2. PubFilled'
  BY DEF RingShape, PubFilled, Dist
<1>3. FreeUsed'
  BY DEF RingShape, FreeUsed, Dist
<1>4. DmaInside'
  <2>1. PICK k \in 0 .. NPub : DmaAt(k)
    BY DEF RingShape, DmaInside
  <2>2. DmaAt(k)'
    BY <2>1 DEF DmaAt, Dist
  <2>3. QED
    BY <2>1, <2>2 DEF DmaInside
<1>5. QED
  BY <1>1, <1>2, <1>3, <1>4

LEMMA RingShapeStable ==
  ASSUME RingShape,
         UNCHANGED <<txSegments, txBuffers, txHead, txTail>>,
         UNCHANGED <<dmaPtr, dmaBusy, dmaBuf>>,
         InFlight' = InFlight, NPub' = NPub,
         (sndPc' = "publish") <=> (sndPc = "publish"),
         sndPc = "publish" => sndBuf' = sndBuf
  PROVE  RingShape'
<1>1. DmaReading'
  BY DEF RingShape, DmaReading
<1>2. QED
  BY <1>1, RingCoreStable DEF RingShape

\* Under the priority assumption the sender steps only while
\* emacps_check_tx is idle.
LEMMA SenderIdleChecker ==
  ASSUME SenderPreempts = FALSE, SenderMayRun
  PROVE  chkPc = "idle"
BY DEF SenderMayRun

LEMMA NextIInv ==
  ASSUME NTx >= 2, SenderPreempts = FALSE, IInv, [Next]_vars
  PROVE  IInv'
<1>0. TypeInv'
  BY NextTypeInv DEF IInv
<1> SUFFICES RingShape' /\ BuffersApart' /\ CheckerCurrent'
  BY <1>0 DEF IInv
<1> USE NTxAssumption, BuffersAssumption
<1>a. /\ TypeOK /\ WrapOnLast /\ SenderHolds
      /\ RingShape /\ BuffersApart /\ CheckerCurrent
  BY DEF IInv, TypeInv
<1>c. InFlight \in 0 .. NTx /\ NPub \in InFlight .. NTx
  BY <1>a, NPubRange DEF RingShape
<1>b. TypeOK'
  BY <1>0 DEF TypeInv
<1>1. ASSUME NEW b \in Buffers, StackAlloc(b)
      PROVE  RingShape' /\ BuffersApart' /\ CheckerCurrent'
  <2>1. InFlight' = InFlight /\ NPub' = NPub
    BY <1>1, CountsStable DEF StackAlloc, Held, txRing, sender
  <2>2. RingShape'
    BY <1>a, <1>1, <2>1, RingShapeStable DEF TypeOK, StackAlloc, txRing, sender, dma
  <2>3. QED
    BY <1>a, <1>1, <2>2 DEF StackAlloc, BuffersApart, CheckerCurrent, txRing,
       sender, checker
<1>2. ASSUME NEW b \in Buffers, NEW len \in Lengths, SendStart(b, len)
      PROVE  RingShape' /\ BuffersApart' /\ CheckerCurrent'
  <2>1. /\ sndPc = "idle" /\ b \in stack /\ stack' = stack \ {b}
        /\ UNCHANGED <<txSegments, txBuffers, txHead, txTail, txSemCount>>
        /\ UNCHANGED <<chkPc, chkHead, chkCount, dmaPtr, dmaBusy, dmaBuf>>
    BY <1>2 DEF SendStart, txRing, checker, dma
  <2>2. \/ sndPc' = "take" /\ sndBuf' = b /\ pool' = pool
        \/ pool' = pool \cup {b} /\ sndPc' = "idle" /\ sndBuf' = sndBuf
    BY <1>2, <2>1 DEF SendStart, sender
  <2>3. InFlight' = InFlight /\ NPub' = NPub
    BY <2>1, <2>2, CountsStable DEF Held
  <2>4. RingShape'
    BY <1>a, <2>1, <2>2, <2>3, RingShapeStable
  <2>5. BuffersApart'
    <3>1. CASE sndPc' = "take" /\ sndBuf' = b /\ pool' = pool
      BY <1>a, <2>1, <3>1, BuffersAssumption DEF BuffersApart
    <3>2. CASE pool' = pool \cup {b} /\ sndPc' = "idle" /\ sndBuf' = sndBuf
      BY <1>a, <2>1, <3>2 DEF BuffersApart
    <3>3. QED
      BY <2>2, <3>1, <3>2
  <2>6. QED
    BY <1>a, <2>1, <2>4, <2>5 DEF CheckerCurrent
<1>3. CASE SendTake
  <2>1. InFlight' = InFlight /\ NPub' = NPub
    <3>1. HeldCredit = 0 /\ HeldCredit' = 1
          /\ AdvancePending = 0 /\ AdvancePending' = 0
      BY <1>3 DEF SendTake, HeldCredit, AdvancePending, Held
    <3>2. txSemCount' = txSemCount - 1 /\ txSemCount \in Nat
      BY <1>a, <1>3 DEF SendTake, TypeOK
    <3>3. QED
      BY <3>1, <3>2, NTxAssumption DEF InFlight, NPub
  <2>2. RingShape'
    BY <1>a, <1>3, <2>1, RingShapeStable DEF TypeOK, SendTake, dma
  <2>3. QED
    BY <1>a, <1>3, <2>2, SenderIdleChecker
    DEF SendTake, BuffersApart, CheckerCurrent, checker
<1>4. CASE SendTimeout
  <2>1. InFlight' = InFlight /\ NPub' = NPub
    BY <1>4, CountsStable DEF SendTimeout, Held, txRing
  <2>2. RingShape'
    BY <1>a, <1>4, <2>1, RingShapeStable DEF TypeOK, SendTimeout, txRing, dma
  <2>3. QED
    BY <1>a, <1>4, <2>2 DEF SendTimeout, BuffersApart, CheckerCurrent,
       txRing, checker
<1>5. CASE SendFill
  <2>1. /\ sndPc = "fill" /\ chkPc = "idle" /\ sndPc' = "publish"
        /\ txBuffers' = [txBuffers EXCEPT ![txHead] = sndBuf]
        /\ UNCHANGED <<txSegments, txHead, txTail, txSemCount, sndBuf>>
        /\ UNCHANGED <<chkPc, chkHead, chkCount, dmaPtr, dmaBusy, dmaBuf>>
        /\ UNCHANGED <<pool, stack>>
    BY <1>5, SenderIdleChecker DEF SendFill, checker, dma
  <2>2. InFlight' = InFlight /\ NPub' = NPub
    BY <2>1, CountsStable DEF Held
  <2>3. NPub = InFlight /\ InFlight \in 0 .. NTx - 1 /\ Dist(txHead) = NPub
    <3>1. HeldCredit = 1 /\ AdvancePending = 0
      BY <2>1 DEF HeldCredit, AdvancePending, Held
    <3>2. QED
      BY <1>a, <3>1 DEF InFlight, NPub, TypeOK, RingShape, HeadAt
  <2>4. txHead \in Slots /\ sndBuf \in Buffers
    BY <1>a, <2>1 DEF TypeOK, SenderHolds
  <2>5. RingShape'
    <3>1. InFlight' \in 0 .. NTx /\ HeadAt'
      BY <1>a, <2>1, <2>2 DEF TypeOK, RingShape, HeadAt, Dist
    <3>2. PubFilled'
      BY <1>a, <2>1, <2>2, <2>3, <2>4 DEF TypeOK, RingShape, PubFilled, Dist
    <3>3. FreeUsed'
      BY <1>a, <2>1, <2>2, <2>3, <2>4 DEF TypeOK, RingShape, FreeUsed, Dist
    <3>4. DmaInside'
      <4>1. PICK k \in 0 .. NPub : DmaAt(k)
        BY <1>a DEF TypeOK, RingShape, DmaInside
      <4>2. DmaAt(k)'
        BY <2>1, <2>2, <4>1 DEF TypeOK, DmaAt, Dist
      <4>3. QED
        BY <2>2, <4>1, <4>2 DEF DmaInside
    <3>5. DmaReading'
      BY <1>a, <2>1 DEF TypeOK, RingShape, DmaReading
    <3>6. QED
      BY <3>1, <3>2, <3>3, <3>4, <3>5 DEF TypeOK, RingShape
  <2>6. BuffersApart'
    <3>1. txBuffers[txHead] = NULL
      BY <1>a, <2>1, <2>3, <2>4 DEF TypeOK, RingShape, FreeUsed
    <3>2. QED
      BY <1>a, <2>1, <2>4, <3>1 DEF BuffersApart, TypeOK
  <2>7. QED
    BY <2>1, <2>5, <2>6 DEF CheckerCurrent
<1>6. CASE SendPublish
  <2>1. /\ sndPc = "publish" /\ chkPc = "idle" /\ sndPc' = "advance"
        /\ txSegments' = [txSegments EXCEPT ![txHead] =
                            [address |-> txBuffers[txHead], used |-> FALSE,
                             wrap |-> txHead = NTx - 1]]
        /\ UNCHANGED <<txBuffers, txHead, txTail, txSemCount, sndBuf>>
        /\ UNCHANGED <<chkPc, chkHead, chkCount, dmaPtr, dmaBusy, dmaBuf>>
        /\ UNCHANGED <<pool, stack>>
    BY <1>6, SenderIdleChecker DEF SendPublish, checker, dma
  <2>2. InFlight' = InFlight /\ NPub' = NPub + 1 /\ NPub = InFlight
    <3>1. /\ HeldCredit = 1 /\ HeldCredit' = 1
          /\ AdvancePending = 0 /\ AdvancePending' = 1
      BY <2>1 DEF HeldCredit, AdvancePending, Held
    <3>2. QED
      BY <1>a, <2>1, <3>1 DEF InFlight, NPub, TypeOK
  <2>3. /\ InFlight \in 0 .. NTx - 1 /\ NPub \in 0 .. NTx - 1
        /\ Dist(txHead) = NPub
    <3>1. HeldCredit = 1
      BY <2>1 DEF HeldCredit, Held
    <3>2. QED
      BY <1>a, <2>2, <3>1 DEF InFlight, TypeOK, RingShape, HeadAt
  <2>4. /\ txHead \in Slots /\ sndBuf \in Buffers
        /\ txBuffers[txHead] = sndBuf /\ txSegments[txHead].used
    <3>1. txHead \in Slots /\ sndBuf \in Buffers /\ Dist(txHead) >= NPub
      BY <1>a, <2>1, <2>3 DEF TypeOK, SenderHolds
    <3>2. QED
      BY <1>a, <2>1, <3>1 DEF RingShape, FreeUsed
  <2>5. \A i \in Slots : Dist(i) \in 0 .. NTx - 1
    BY <1>a, DistRange DEF Dist, TypeOK
  <2>6. \A i \in Slots : i # txHead => Dist(i) # NPub
    BY <1>a, <2>3, DistInjective DEF Dist, TypeOK
  <2>7. InFlight' \in 0 .. NTx /\ HeadAt'
    BY <1>a, <2>1, <2>2 DEF TypeOK, RingShape, HeadAt, Dist
  <2>8. PubFilled'
    BY <1>a, <2>1, <2>2, <2>3, <2>4, <2>5, <2>6
    DEF TypeOK, RingShape, PubFilled, Dist
  <2>9. FreeUsed'
    BY <1>a, <2>1, <2>2, <2>3, <2>4, <2>5, <2>6
    DEF TypeOK, RingShape, FreeUsed, Dist
  <2>10. PICK k \in 0 .. NPub : DmaAt(k)
    BY <1>a DEF TypeOK, RingShape, DmaInside
  <2>11. DmaInside'
    <3>1. k # NTx
      BY <2>3, <2>10
    <3>2. \A i \in Slots : txSegments'[i].used =
                            IF i = txHead THEN FALSE ELSE txSegments[i].used
      BY <1>a, <2>1 DEF TypeOK
    <3>0. \A i \in Slots : Dist(i)' = Dist(i)
      BY <2>1 DEF Dist
    <3>3. Dist(dmaPtr)' = IF k = NTx THEN 0 ELSE k
      BY <2>1, <2>10 DEF DmaAt, Dist
    <3>4. \A i \in Slots : Dist(i)' < k => txSegments'[i].used
      <4> SUFFICES ASSUME NEW i \in Slots, Dist(i) < k
                   PROVE  txSegments'[i].used
        BY <3>0
      <4>1. i # txHead
        BY <2>3, <2>5, <2>10
      <4>2. QED
        BY <4>1, <2>10, <3>2 DEF DmaAt
    <3>5. \A i \in Slots : k <= Dist(i)' /\ Dist(i)' < NPub' =>
                            ~txSegments'[i].used
      <4> SUFFICES ASSUME NEW i \in Slots, k <= Dist(i), Dist(i) < NPub + 1
                   PROVE  ~txSegments'[i].used
        BY <2>2, <3>0
      <4>1. CASE i = txHead
        BY <4>1, <3>2
      <4>2. CASE i # txHead
        <5>1. Dist(i) < NPub
          BY <4>2, <2>3, <2>5, <2>6
        <5>2. QED
          BY <4>2, <5>1, <2>10, <3>2 DEF DmaAt
      <4>3. QED
        BY <4>1, <4>2
    <3>6. DmaAt(k)'
      BY <3>3, <3>4, <3>5 DEF DmaAt
    <3>7. k \in 0 .. NPub'
      BY <2>2, <2>3, <2>10
    <3>8. QED
      BY <3>6, <3>7 DEF DmaInside
  <2>12. DmaReading'
    <3>1. dmaBusy => dmaPtr # txHead
      BY <1>a, <2>4 DEF TypeOK, RingShape, DmaReading
    <3>2. QED
      BY <1>a, <2>1, <3>1 DEF RingShape, DmaReading, TypeOK
  <2>13. QED
    BY <1>a, <2>1, <2>7, <2>8, <2>9, <2>11, <2>12
    DEF TypeOK, RingShape, BuffersApart, CheckerCurrent
<1>7. CASE SendAdvance
  <2>1. /\ sndPc = "advance" /\ chkPc = "idle" /\ sndPc' = "kick"
        /\ txHead' = NextSlot(txHead)
        /\ UNCHANGED <<txSegments, txBuffers, txTail, txSemCount, sndBuf>>
        /\ UNCHANGED <<chkPc, chkHead, chkCount, dmaPtr, dmaBusy, dmaBuf>>
        /\ UNCHANGED <<pool, stack>>
    BY <1>7, SenderIdleChecker DEF SendAdvance, checker, dma
  <2>2. /\ InFlight \in 0 .. NTx - 1
        /\ InFlight' = InFlight + 1 /\ NPub' = NPub /\ NPub = InFlight + 1
    <3>1. /\ HeldCredit = 1 /\ HeldCredit' = 0
          /\ AdvancePending = 1 /\ AdvancePending' = 0
      BY <2>1 DEF HeldCredit, AdvancePending, Held
    <3>2. QED
      BY <1>a, <2>1, <3>1 DEF InFlight, NPub, TypeOK, RingShape
  <2>3. \A i \in Slots : Dist(i)' = Dist(i)
    BY <2>1 DEF Dist
  <2>4. HeadAt'
    <3>1. Dist(txHead) = InFlight /\ txHead \in Slots /\ txTail \in Slots
      BY <1>a, <2>2 DEF RingShape, HeadAt, TypeOK
    <3>2. DistFrom(txTail, NextSlot(txHead)) =
            IF InFlight = NTx - 1 THEN 0 ELSE InFlight + 1
      BY <3>1, DistNext DEF Dist
    <3>3. QED
      BY <2>1, <2>2, <3>2 DEF HeadAt, Dist
  <2>5. PubFilled' /\ FreeUsed'
    BY <1>a, <2>1, <2>2, <2>3 DEF RingShape, PubFilled, FreeUsed
  <2>6. DmaInside'
    <3>1. PICK k \in 0 .. NPub : DmaAt(k)
      BY <1>a DEF RingShape, DmaInside
    <3>2. DmaAt(k)'
      BY <1>a, <2>1, <2>2, <2>3, <3>1 DEF DmaAt, TypeOK
    <3>3. QED
      BY <2>2, <3>1, <3>2 DEF DmaInside
  <2>7. QED
    BY <1>a, <2>1, <2>2, <2>4, <2>5, <2>6
    DEF RingShape, DmaReading, BuffersApart, CheckerCurrent
<1>11. CASE CheckTxReclaim
  <2> DEFINE b == txBuffers[txTail]
  <2>1. /\ chkPc = "loop" /\ chkCount > 0 /\ txSegments[txTail].used
        /\ ~(txTail = chkHead /\ chkCount # NTx)
        /\ pool' = IF b # NULL THEN pool \cup {b} ELSE pool
        /\ txBuffers' = [txBuffers EXCEPT ![txTail] = NULL]
        /\ txSegments' = [txSegments EXCEPT ![txTail] =
                            [@ EXCEPT !.used = TRUE, !.wrap = txTail = NTx - 1]]
        /\ chkCount' = chkCount - 1
        /\ txSemCount' = IF txSemCount < NTx THEN txSemCount + 1
                                             ELSE txSemCount
        /\ txTail' = NextSlot(txTail)
        /\ UNCHANGED <<txHead, sndPc, sndBuf, chkPc, chkHead>>
        /\ UNCHANGED <<dmaPtr, dmaBusy, dmaBuf, stack>>
    BY <1>11 DEF CheckTxReclaim, CheckTxMayReclaim, sender, dma
  <2>2. /\ txTail \in Slots /\ txHead \in Slots /\ dmaPtr \in Slots
        /\ chkHead = txHead /\ chkCount = NTx - txSemCount
        /\ txSemCount \in 0 .. NTx - 1 /\ txSemCount' = txSemCount + 1
    BY <1>a, <2>1 DEF TypeOK, CheckerCurrent
  <2>3. NTx - txSemCount = InFlight + HeldCredit /\ HeldCredit \in {0, 1}
    BY <1>a DEF InFlight, HeldCredit, TypeOK
  \* The break at tail == head stops the loop before a slot the sender is
  \* filling: only a frame in flight can be reclaimed.
  <2>4. InFlight \in 1 .. NTx
    <3> SUFFICES ASSUME InFlight = 0 PROVE FALSE
      BY <1>c
    <3>1. chkCount = 1
      BY <2>1, <2>2, <2>3
    <3>2. Dist(txHead) = 0
      BY <1>a DEF RingShape, HeadAt
    <3>3. txHead = txTail
      BY <2>2, <3>2, DistZero DEF Dist
    <3>4. QED
      BY <2>1, <2>2, <3>1, <3>3
  <2>5. InFlight' = InFlight - 1 /\ NPub' = NPub - 1
    <3>1. /\ HeldCredit' = HeldCredit /\ AdvancePending' = AdvancePending
          /\ AdvancePending \in {0, 1}
      BY <2>1 DEF HeldCredit, AdvancePending, Held
    <3>2. QED
      BY <2>2, <2>3, <3>1 DEF InFlight, NPub
  <2>6. \A i \in Slots :
          /\ Dist(i) \in 0 .. NTx - 1
          /\ Dist(i)' = IF i = txTail THEN NTx - 1 ELSE Dist(i) - 1
          /\ Dist(i) = 0 <=> i = txTail
    BY <2>1, <2>2, DistRange, DistShift, DistZero DEF Dist
  <2>7. \A i \in Slots : i # txTail =>
          /\ txSegments'[i] = txSegments[i] /\ txBuffers'[i] = txBuffers[i]
    BY <1>a, <2>1 DEF TypeOK
  <2>8. txSegments'[txTail].used /\ txBuffers'[txTail] = NULL
    BY <1>a, <2>1, <2>2 DEF TypeOK, Descriptor
  <2>9. b \in Buffers /\ pool' = pool \cup {b}
    <3>1. Dist(txTail) = 0 /\ 0 < NPub
      BY <1>c, <2>2, <2>4, <2>6
    <3>2. b \in Buffers
      BY <1>a, <2>2, <3>1 DEF RingShape, PubFilled
    <3>3. QED
      BY <2>1, <3>2
  <2>10. sndPc = "publish" => txHead # txTail
    <3>1. sndPc = "publish" => HeldCredit = 1
      BY DEF HeldCredit, Held
    <3>2. sndPc = "publish" => InFlight # NTx
      BY <2>2, <2>3, <3>1
    <3>3. QED
      BY <1>a, <2>2, <2>4, <2>6, <3>2 DEF RingShape, HeadAt
  <2>11. InFlight' \in 0 .. NTx /\ HeadAt'
    <3>1. CASE InFlight = NTx
      <4>1. txHead = txTail
        BY <1>a, <2>2, <2>6, <3>1 DEF RingShape, HeadAt
      <4>2. QED
        BY <2>1, <2>2, <2>5, <2>6, <3>1, <4>1 DEF HeadAt
    <3>2. CASE InFlight # NTx
      <4>1. Dist(txHead) = InFlight /\ txHead # txTail
        BY <1>a, <2>2, <2>4, <2>6, <3>2 DEF RingShape, HeadAt
      <4>2. QED
        BY <2>1, <2>2, <2>4, <2>5, <2>6, <4>1 DEF HeadAt
    <3>3. QED
      BY <3>1, <3>2
  <2>12. PubFilled'
    <3> SUFFICES ASSUME NEW i \in Slots, Dist(i)' < NPub'
                 PROVE  txBuffers'[i] \in Buffers
                        /\ txSegments'[i].address = txBuffers'[i]
      BY DEF PubFilled
    <3>1. i # txTail /\ Dist(i) < NPub
      BY <1>c, <2>2, <2>5, <2>6
    <3>2. QED
      BY <1>a, <2>7, <3>1 DEF RingShape, PubFilled
  <2>13. FreeUsed'
    <3> SUFFICES ASSUME NEW i \in Slots, Dist(i)' >= NPub'
                 PROVE  /\ txSegments'[i].used
                        /\ txBuffers'[i] = IF sndPc' = "publish" /\ i = txHead'
                                             THEN sndBuf' ELSE NULL
      BY DEF FreeUsed
    <3>1. CASE i = txTail
      BY <2>1, <2>8, <2>10, <3>1
    <3>2. CASE i # txTail
      <4>1. Dist(i) >= NPub
        BY <1>c, <2>2, <2>5, <2>6, <3>2
      <4>2. QED
        BY <1>a, <2>1, <2>7, <3>2, <4>1 DEF RingShape, FreeUsed
    <3>3. QED
      BY <3>1, <3>2
  <2>14. DmaInside'
    <3>1. PICK k \in 0 .. NPub : DmaAt(k)
      BY <1>a DEF RingShape, DmaInside
    <3>2. k \in 1 .. NTx
      <4>1. Dist(txTail) = 0 /\ 0 < NPub
        BY <1>c, <2>2, <2>4, <2>6
      <4>2. QED
        BY <1>c, <2>1, <2>2, <3>1, <4>1 DEF DmaAt
    <3>3. Dist(dmaPtr)' = k - 1
      <4>1. CASE k = NTx
        <5>1. dmaPtr = txTail
          BY <2>2, <2>6, <3>1, <4>1 DEF DmaAt
        <5>2. QED
          BY <2>1, <2>2, <2>6, <4>1, <5>1
      <4>2. CASE k # NTx
        <5>1. Dist(dmaPtr) = k /\ dmaPtr # txTail
          BY <2>2, <2>6, <3>1, <3>2, <4>2 DEF DmaAt
        <5>2. QED
          BY <2>1, <2>2, <2>6, <5>1
      <4>3. QED
        BY <4>1, <4>2
    <3>4. \A i \in Slots : Dist(i)' < k - 1 => txSegments'[i].used
      <4> SUFFICES ASSUME NEW i \in Slots, Dist(i)' < k - 1, i # txTail
                   PROVE  txSegments'[i].used
        BY <2>8
      <4>1. Dist(i) < k
        BY <2>6, <3>2
      <4>2. QED
        BY <2>7, <3>1, <4>1 DEF DmaAt
    <3>5. \A i \in Slots : k - 1 <= Dist(i)' /\ Dist(i)' < NPub' =>
                            ~txSegments'[i].used
      <4> SUFFICES ASSUME NEW i \in Slots, k - 1 <= Dist(i)', Dist(i)' < NPub'
                   PROVE  ~txSegments'[i].used
        OBVIOUS
      <4>1. i # txTail /\ k <= Dist(i) /\ Dist(i) < NPub
        BY <1>c, <2>5, <2>6, <3>2
      <4>2. QED
        BY <2>7, <3>1, <4>1 DEF DmaAt
    <3>6. DmaAt(k - 1)'
      BY <3>2, <3>3, <3>4, <3>5 DEF DmaAt
    <3>7. QED
      BY <1>c, <2>5, <3>1, <3>2, <3>6 DEF DmaInside
  <2>15. DmaReading'
    <3>1. dmaBusy => dmaPtr # txTail
      BY <1>a, <2>1 DEF RingShape, DmaReading
    <3>2. QED
      BY <1>a, <2>1, <2>2, <2>7, <3>1 DEF RingShape, DmaReading
  <2>16. BuffersApart'
    <3>1. \A i \in Slots : i # txTail => txBuffers[i] # b
      BY <1>a, <2>2, <2>9 DEF BuffersApart
    <3>2. sndPc \in {"take", "fill"} => sndBuf # b /\ sndBuf \in Buffers
      BY <1>a, <2>2 DEF BuffersApart, SenderHolds
    <3>3. b \notin stack
      BY <1>a, <2>2, <2>9 DEF BuffersApart
    <3>4. QED
      BY <1>a, <2>1, <2>2, <2>7, <2>8, <2>9, <3>1, <3>2, <3>3
      DEF BuffersApart, TypeOK
  <2>17. CheckerCurrent'
    BY <2>1, <2>2 DEF CheckerCurrent
  <2>20. QED
    BY <2>11, <2>12, <2>13, <2>14, <2>15, <2>16, <2>17 DEF RingShape
<1>13. CASE DmaFetch
  <2>1. /\ ~txSegments[dmaPtr].used /\ dmaBusy' = TRUE
        /\ dmaBuf' = txSegments[dmaPtr].address
        /\ UNCHANGED <<txSegments, txBuffers, txHead, txTail, txSemCount>>
        /\ UNCHANGED <<sndPc, sndBuf, chkPc, chkHead, chkCount, dmaPtr>>
        /\ UNCHANGED <<pool, stack>>
    BY <1>13 DEF DmaFetch, txRing, sender, checker
  <2>2. InFlight' = InFlight /\ NPub' = NPub
    BY <2>1, CountsStable DEF Held
  <2>3. DmaReading'
    BY <2>1 DEF DmaReading
  <2>4. QED
    BY <1>a, <2>1, <2>2, <2>3, RingCoreStable
    DEF RingShape, BuffersApart, CheckerCurrent
<1>14. CASE DmaComplete
  <2>1. /\ dmaBusy /\ dmaBusy' = FALSE
        /\ txSegments' = [txSegments EXCEPT ![dmaPtr].used = TRUE]
        /\ dmaPtr' = IF txSegments[dmaPtr].wrap THEN 0 ELSE dmaPtr + 1
        /\ UNCHANGED <<txBuffers, txHead, txTail, txSemCount>>
        /\ UNCHANGED <<sndPc, sndBuf, chkPc, chkHead, chkCount, pool, stack>>
    BY <1>14 DEF DmaComplete, sender, checker
  <2>2. dmaPtr' = NextSlot(dmaPtr) /\ dmaPtr \in Slots /\ txTail \in Slots
    BY <1>a, <2>1, DmaStep DEF TypeOK
  <2>3. InFlight' = InFlight /\ NPub' = NPub
    BY <2>1, CountsStable DEF Held
  <2>4. \A i \in Slots : Dist(i)' = Dist(i) /\ Dist(i) \in 0 .. NTx - 1
    BY <1>a, <2>1, DistRange DEF Dist, TypeOK
  <2>5. \A i \in Slots :
          /\ txSegments'[i].address = txSegments[i].address
          /\ txSegments'[i].used <=> (i = dmaPtr \/ txSegments[i].used)
    BY <1>a, <2>1 DEF TypeOK, Descriptor
  <2>6. PICK k \in 0 .. NPub : DmaAt(k)
    BY <1>a DEF RingShape, DmaInside
  <2>7. k < NPub /\ Dist(dmaPtr) = k /\ k < NTx
    <3>1. ~txSegments[dmaPtr].used
      BY <1>a, <2>1 DEF RingShape, DmaReading
    <3>2. k # NTx
      BY <2>2, <2>4, <2>6, <3>1 DEF DmaAt
    <3>3. Dist(dmaPtr) = k
      BY <2>6, <3>2 DEF DmaAt
    <3>4. k # NPub
      BY <1>a, <2>2, <3>1, <3>3 DEF RingShape, FreeUsed
    <3>5. QED
      BY <1>c, <2>2, <2>4, <2>6, <3>2, <3>3, <3>4
  <2>8. HeadAt'
    BY <1>a, <2>1, <2>3, <2>4 DEF RingShape, HeadAt, TypeOK
  <2>12. PubFilled'
    BY <1>a, <2>1, <2>3, <2>4, <2>5 DEF RingShape, PubFilled
  <2>13. FreeUsed'
    BY <1>a, <2>1, <2>3, <2>4, <2>5 DEF RingShape, FreeUsed
  <2>9. DmaAt(k + 1)'
    <3>1. Dist(dmaPtr)' = IF k + 1 = NTx THEN 0 ELSE k + 1
      BY <2>1, <2>2, <2>7, DistNext DEF Dist
    <3>2. \A i \in Slots : Dist(i)' < k + 1 => txSegments'[i].used
      <4> SUFFICES ASSUME NEW i \in Slots, Dist(i) < k + 1, i # dmaPtr
                   PROVE  txSegments[i].used
        BY <2>4, <2>5
      <4>1. Dist(i) # k
        BY <2>2, <2>7, DistInjective DEF Dist
      <4>2. QED
        BY <2>4, <2>6, <2>7, <4>1 DEF DmaAt
    <3>3. \A i \in Slots : k + 1 <= Dist(i)' /\ Dist(i)' < NPub' =>
                            ~txSegments'[i].used
      <4> SUFFICES ASSUME NEW i \in Slots, k + 1 <= Dist(i), Dist(i) < NPub
                   PROVE  ~txSegments'[i].used
        BY <2>3, <2>4
      <4>1. i # dmaPtr
        BY <2>7
      <4>2. QED
        BY <1>c, <2>4, <2>5, <2>6, <2>7, <4>1 DEF DmaAt
    <3>4. QED
      BY <3>1, <3>2, <3>3, <2>3 DEF DmaAt
  <2>10. DmaInside'
    BY <1>c, <2>3, <2>7, <2>9 DEF DmaInside
  <2>11. QED
    BY <1>a, <2>1, <2>3, <2>8, <2>10, <2>12, <2>13
    DEF RingShape, DmaReading, BuffersApart, CheckerCurrent
<1>8. CASE SendKick
  <2>1. InFlight' = InFlight /\ NPub' = NPub
    BY <1>8, CountsStable DEF SendKick, Held, txRing
  <2>2. RingShape'
    BY <1>a, <1>8, <2>1, RingShapeStable DEF SendKick, txRing
  <2>3. QED
    BY <1>a, <1>8, <2>2 DEF SendKick, BuffersApart, CheckerCurrent,
       txRing, checker
<1>9. CASE CheckTxStart \/ CheckTxCount \/ CheckTxDone \/ DmaHalt
           \/ SendHandler \/ UNCHANGED vars
  <2>1. /\ UNCHANGED <<txSegments, txBuffers, txHead, txTail, txSemCount>>
        /\ UNCHANGED <<sndPc, sndBuf, dmaPtr, dmaBusy, dmaBuf, pool, stack>>
    BY <1>9 DEF CheckTxStart, CheckTxCount, CheckTxDone, DmaHalt,
       SendHandler, vars, txRing, sender, checker, dma
  <2>2. InFlight' = InFlight /\ NPub' = NPub
    BY <2>1, CountsStable DEF Held
  <2>3. RingShape'
    BY <1>a, <2>1, <2>2, RingShapeStable
  <2>4. BuffersApart'
    BY <1>a, <2>1 DEF BuffersApart
  <2>5. CheckerCurrent'
    BY <1>a, <1>9, <2>1 DEF CheckerCurrent, CheckTxStart, CheckTxCount,
       CheckTxDone, DmaHalt, SendHandler, vars, checker
  <2>6. QED
    BY <2>3, <2>4, <2>5
<1>20. QED
  BY <1>1, <1>2, <1>3, <1>4, <1>5, <1>6, <1>7, <1>8, <1>9, <1>11, <1>13,
     <1>14 DEF Next

(* The TX state is always well typed: in particular the DMA pointer, the  *)
(* indices and the credit count stay within the ring's bounds.            *)
THEOREM TypeCorrect == Spec => []TypeOK
<1>1. Spec => []TypeInv
  BY InitTypeInv, NextTypeInv, PTL DEF Spec
<1>2. QED
  BY <1>1, PTL DEF TypeInv


\* A descriptor the DMA may read lies in the published segment, so the
\* invariant gives it the buffer of its slot, which the ring alone owns.
LEMMA IInvImpliesOwned == IInv => TxDmaReadsOwned
<1> SUFFICES ASSUME IInv PROVE TxDmaReadsOwned
  OBVIOUS
<1> USE NTxAssumption, BuffersAssumption
<1>1. ASSUME NEW i \in Slots, ~txSegments[i].used
      PROVE  OwnedByRing(i, txSegments[i].address)
  <2>1. Dist(i) \in Nat /\ NPub \in Nat
    BY DistRange, NPubRange DEF IInv, TypeInv, TypeOK, RingShape, Dist
  <2>2. ~(Dist(i) >= NPub)
    BY <1>1 DEF IInv, RingShape, FreeUsed
  <2>3. Dist(i) < NPub
    BY <2>1, <2>2
  <2>4. txBuffers[i] \in Buffers /\ txSegments[i].address = txBuffers[i]
    BY <2>3 DEF IInv, RingShape, PubFilled
  <2>5. txBuffers[i] \notin pool \cup stack
    BY <2>4, BuffersAssumption DEF IInv, BuffersApart
  <2>6. QED
    BY <2>4, <2>5 DEF OwnedByRing
<1>2. dmaBusy => OwnedByRing(dmaPtr, dmaBuf)
  BY <1>1 DEF IInv, TypeInv, TypeOK, RingShape, DmaReading
<1>3. QED
  BY <1>1, <1>2 DEF TxDmaReadsOwned

(* The DMA never reads a buffer the driver has given away, for every ring  *)
(* of at least two descriptors, provided the EMAC task running             *)
(* emacps_check_tx is never preempted by emacps_send_message.              *)
THEOREM TxDmaReadsOwnedThm ==
  ASSUME NTx >= 2, SenderPreempts = FALSE
  PROVE  Spec => []TxDmaReadsOwned
<1>1. Init => IInv
  BY InitIInv
<1>2. IInv /\ [Next]_vars => IInv'
  BY NextIInv
<1>3. IInv => TxDmaReadsOwned
  BY IInvImpliesOwned
<1>4. QED
  BY <1>1, <1>2, <1>3, PTL DEF Spec

=============================================================================
