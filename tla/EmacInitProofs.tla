---------------------------- MODULE EmacInitProofs ----------------------------
(***************************************************************************)
(* Proofs about init_dma for every number of RX and TX slots, of buffers   *)
(* and of calls.                                                           *)
(***************************************************************************)
EXTENDS EmacInitInv, FiniteSetTheorems, TLAPS

USE InitConstAssumption

RxDesc == [address : Bufs \cup {NoBuf}, new : BOOLEAN, wrap : BOOLEAN]

LEMMA ClonedRxRingType == ClonedRxRing \in [RxSlots -> RxDesc]
BY DEF ClonedRxRing, RxDesc, RxSlots

LEMMA DescUpdate ==
  ASSUME NEW d \in RxDesc, NEW b \in Bufs \cup {NoBuf}
  PROVE  /\ SetAddressRx(d, b) \in RxDesc
         /\ SetAddressRx(d, b) = [address |-> b, new |-> d.new, wrap |-> d.wrap]
         /\ SetWrapRx(d) \in RxDesc
         /\ d.wrap => SetWrapRx(d) = d
<1>1. SetAddressRx(d, b) = [address |-> b, new |-> d.new, wrap |-> d.wrap]
  BY DEF SetAddressRx, RxDesc
<1>2. SetWrapRx(d) \in RxDesc
  BY DEF SetWrapRx, RxDesc
<1>3. d.wrap => SetWrapRx(d) = d
  BY DEF SetWrapRx, RxDesc
<1>4. QED
  BY <1>1, <1>2, <1>3 DEF RxDesc

LEMMA TypeInit == Init => InitTypeOK
<1> SUFFICES ASSUME Init PROVE InitTypeOK
  OBVIOUS
<1>1. /\ initPc \in {"idle", "loop", "done", "failed"}
      /\ iIndex \in 0 .. NRx /\ calls \in 0 .. MaxCalls
      /\ semCount \in 0 .. NTx
  BY DEF Init
<1>6. semCreated \in BOOLEAN
  BY Zenon DEF Init
<1>2. /\ rxBuffers \in [RxSlots -> Bufs \cup {NoBuf}]
      /\ txBuffers \in [TxSlots -> Bufs \cup {NoBuf}]
      /\ txUsed \in [TxSlots -> BOOLEAN]
  BY DEF Init
<1>3. rxSegments \in [RxSlots -> RxDesc]
  BY ClonedRxRingType DEF Init
<1>4. pool \in SUBSET Bufs /\ others \in SUBSET Bufs
  BY DEF Init
<1>5. QED
  BY <1>1, <1>2, <1>3, <1>4, <1>6 DEF InitTypeOK, RxDesc

LEMMA TypeNext ==
  ASSUME InitTypeOK, [InitNext]_initVars
  PROVE  InitTypeOK'
<1> USE DEF InitTypeOK, RxSlots, TxSlots, RxDesc
<1>1. CASE InitStart
  <2>1. semCreated' \in BOOLEAN /\ semCount' \in 0 .. NTx
    <3>1. CASE semCreated
      BY <1>1, <3>1 DEF InitStart
    <3>2. CASE ~semCreated
      BY <1>1, <3>2 DEF InitStart
    <3>3. QED
      BY <3>1, <3>2
  <2>2. QED
    BY <1>1, <2>1, ClonedRxRingType DEF InitStart
<1>2. CASE InitReuse
  BY <1>2, DescUpdate DEF InitReuse
<1>3. CASE InitAlloc
  BY <1>3, DescUpdate DEF InitAlloc
<1>4. CASE InitAllocFail
  BY <1>4 DEF InitAllocFail
<1>5. CASE InitFinish
  BY <1>5, DescUpdate DEF InitFinish
<1>6. CASE \E b \in Bufs : StackTake(b) \/ StackRelease(b)
  BY <1>6 DEF StackTake, StackRelease
<1>7. CASE \E b \in Bufs, i \in TxSlots : TxInFlight(b, i)
  BY <1>7 DEF TxInFlight
<1>8. CASE UNCHANGED initVars
  BY <1>8 DEF initVars
<1>9. QED
  BY <1>1, <1>2, <1>3, <1>4, <1>5, <1>6, <1>7, <1>8 DEF InitNext

(* init_dma, the stack and the TX path never give a variable of the       *)
(* driver a value of the wrong kind: the loop index stays within the RX    *)
(* ring and the semaphore count within 0 .. NTx.                           *)
THEOREM InitTypeCorrect == InitSpec => []InitTypeOK
BY TypeInit, TypeNext, PTL DEF InitSpec

-----------------------------------------------------------------------------
(* The inductive invariant, when init_dma is called again only after a    *)
(* failed call.                                                            *)

LEMMA DescFields ==
  ASSUME NEW d \in RxDesc, NEW a, NEW w \in BOOLEAN,
         ~d.new, d.wrap <=> w, d.address = a
  PROVE  d = [address |-> a, new |-> FALSE, wrap |-> w]
BY DEF RxDesc

LEMMA ClonedRxRingFields ==
  ASSUME NEW i \in RxSlots
  PROVE  /\ ClonedRxRing[i].address = NoBuf /\ ~ClonedRxRing[i].new
         /\ ClonedRxRing[i].wrap <=> i = NRx - 1
BY DEF ClonedRxRing

LEMMA IInvInit == Init => InitIInv
<1> SUFFICES ASSUME Init PROVE InitIInv
  OBVIOUS
<1>1. InitTypeOK
  BY TypeInit
<1>2. Partition
  BY DEF Init, Partition, RxSlots, TxSlots
<1>3. BeforeDone /\ InLoop
  BY DEF Init, BeforeDone, InLoop
<1>4. QED
  BY <1>1, <1>2, <1>3 DEF InitIInv

LEMMA IInvNext ==
  ASSUME ~ReinitAfterRun, InitIInv, [InitNext]_initVars
  PROVE  InitIInv'
<1> USE DEF InitIInv
<1>0. InitTypeOK'
  BY TypeNext
<1>1. CASE InitStart
  <2>1. initPc \in {"idle", "failed"}
    BY <1>1 DEF InitStart
  <2>2. Partition'
    BY <1>1 DEF InitStart, Partition
  <2>3. BeforeDone'
    <3>1. CASE semCreated
      BY <1>1, <2>1, <3>1 DEF InitStart, BeforeDone
    <3>2. CASE ~semCreated
      BY <1>1, <3>2 DEF InitStart, BeforeDone
    <3>3. QED
      BY <3>1, <3>2
  <2>4. InLoop'
    <3>1. semCreated'
      <4>1. CASE semCreated
        BY <1>1, <4>1 DEF InitStart
      <4>2. CASE ~semCreated
        BY <1>1, <4>2 DEF InitStart
      <4>3. QED
        BY <4>1, <4>2
    <3>2. \A i \in RxSlots :
            /\ ~rxSegments'[i].new
            /\ rxSegments'[i].wrap <=> i = NRx - 1
            /\ rxSegments'[i].address = NoBuf
      BY <1>1, ClonedRxRingFields DEF InitStart
    <3>3. iIndex' = 0
      BY <1>1 DEF InitStart
    <3>4. QED
      BY <3>1, <3>2, <3>3 DEF InLoop, RxSlots
  <2>5. QED
    BY <1>0, <2>2, <2>3, <2>4
<1>2. CASE InitReuse
  <2>1. Partition' /\ BeforeDone'
    BY <1>2 DEF InitReuse, Partition, BeforeDone
  <2>2. InLoop'
    <3>1. SUFFICES ASSUME NEW i \in RxSlots
                   PROVE  /\ ~rxSegments'[i].new
                          /\ rxSegments'[i].wrap <=> i = NRx - 1
                          /\ i < iIndex' => rxBuffers'[i] # NoBuf /\ rxSegments'[i].address = rxBuffers'[i]
                          /\ i >= iIndex' => rxSegments'[i].address = NoBuf
      BY <1>2 DEF InitReuse, InLoop
    <3>2. CASE i = iIndex
      <4>1. rxSegments'[i] = [address |-> rxBuffers[i], new |-> rxSegments[i].new,
                              wrap |-> rxSegments[i].wrap]
        BY <1>2, <3>2, DescUpdate DEF InitReuse, InitTypeOK, RxDesc, RxSlots
      <4>2. QED
        BY <1>2, <3>2, <4>1 DEF InitReuse, InLoop, InitTypeOK, RxSlots
    <3>3. CASE i # iIndex
      BY <1>2, <3>3 DEF InitReuse, InLoop, InitTypeOK, RxSlots
    <3>4. QED
      BY <3>2, <3>3
  <2>3. QED
    BY <1>0, <2>1, <2>2

<1>3. CASE InitAlloc
  <2>1. PICK nb \in pool :
          /\ pool' = pool \ {nb}
          /\ rxBuffers' = [rxBuffers EXCEPT ![iIndex] = nb]
          /\ rxSegments' = [rxSegments EXCEPT ![iIndex] = SetAddressRx(@, nb)]
    BY <1>3 DEF InitAlloc
  <2>2. /\ initPc = "loop" /\ iIndex \in RxSlots /\ rxBuffers[iIndex] = NoBuf
        /\ iIndex' = iIndex + 1
        /\ UNCHANGED <<initPc, txBuffers, semCreated, semCount, others>>
    BY <1>3 DEF InitAlloc, InitTypeOK, RxSlots
  <2>3. nb \in Bufs /\ nb # NoBuf
    BY <2>1 DEF InitTypeOK
  <2>4. /\ \A i \in RxSlots : rxBuffers[i] # nb
        /\ \A j \in TxSlots : txBuffers[j] # nb
        /\ nb \notin others
    BY <2>1, <2>3 DEF Partition
  <2>5. Partition'
    <3>1. pool' \cap others' = {}
      BY <2>1, <2>2 DEF Partition
    <3>2. ASSUME NEW i \in RxSlots, rxBuffers'[i] # NoBuf
          PROVE  /\ rxBuffers'[i] \notin pool' \cup others'
                 /\ \A j \in RxSlots : j # i => rxBuffers'[j] # rxBuffers'[i]
                 /\ \A j \in TxSlots : txBuffers'[j] # rxBuffers'[i]
      BY <2>1, <2>2, <2>4, <3>2 DEF Partition, InitTypeOK
    <3>3. ASSUME NEW i \in TxSlots, txBuffers'[i] # NoBuf
          PROVE  /\ txBuffers'[i] \notin pool' \cup others'
                 /\ \A j \in TxSlots : j # i => txBuffers'[j] # txBuffers'[i]
      BY <2>1, <2>2, <3>3 DEF Partition
    <3>4. ASSUME NEW b \in Bufs
          PROVE  \/ b \in pool' \/ b \in others'
                 \/ \E i \in RxSlots : rxBuffers'[i] = b
                 \/ \E i \in TxSlots : txBuffers'[i] = b
      <4>1. CASE b = nb
        BY <2>1, <2>2, <4>1 DEF InitTypeOK
      <4>2. CASE b # nb
        <5>1. \/ b \in pool \/ b \in others
              \/ \E i \in RxSlots : rxBuffers[i] = b
              \/ \E i \in TxSlots : txBuffers[i] = b
          BY DEF Partition
        <5>2. \A i \in RxSlots : rxBuffers[i] = b => rxBuffers'[i] = b
          BY <2>1, <2>2 DEF InitTypeOK
        <5>3. QED
          BY <5>1, <5>2, <2>1, <2>2, <4>2
      <4>3. QED
        BY <4>1, <4>2
    <3>5. QED
      BY <3>1, <3>2, <3>3, <3>4 DEF Partition
  <2>6. BeforeDone'
    BY <2>2 DEF BeforeDone
  <2>7. InLoop'
    <3>1. SUFFICES ASSUME NEW i \in RxSlots
                   PROVE  /\ ~rxSegments'[i].new
                          /\ rxSegments'[i].wrap <=> i = NRx - 1
                          /\ i < iIndex' => rxBuffers'[i] # NoBuf /\ rxSegments'[i].address = rxBuffers'[i]
                          /\ i >= iIndex' => rxSegments'[i].address = NoBuf
      BY <2>2 DEF InLoop
    <3>2. CASE i = iIndex
      <4>1. rxSegments'[i] = [address |-> nb, new |-> rxSegments[i].new,
                              wrap |-> rxSegments[i].wrap]
        BY <2>1, <2>2, <2>3, <3>2, DescUpdate DEF InitTypeOK, RxDesc, RxSlots
      <4>2. QED
        BY <2>1, <2>2, <2>3, <3>2, <4>1 DEF InLoop, InitTypeOK, RxSlots
    <3>3. CASE i # iIndex
      BY <2>1, <2>2, <3>3 DEF InLoop, InitTypeOK, RxSlots
    <3>4. QED
      BY <3>2, <3>3
  <2>8. QED
    BY <1>0, <2>5, <2>6, <2>7

<1>4. CASE InitAllocFail
  BY <1>0, <1>4 DEF InitAllocFail, Partition, BeforeDone, InLoop
<1>5. CASE InitFinish
  <2>1. txBuffers' = txBuffers
    BY <1>5 DEF InitFinish, BeforeDone, InitTypeOK
  <2>2. Partition'
    BY <1>5, <2>1 DEF InitFinish, Partition
  <2>3. QED
    BY <1>0, <1>5, <2>2 DEF InitFinish, BeforeDone, InLoop
<1>6. CASE \E b \in Bufs : StackTake(b)
  <2>1. PICK b \in Bufs : StackTake(b)
    BY <1>6
  <2>2. Partition'
    BY <2>1 DEF StackTake, Partition, InitTypeOK
  <2>3. QED
    BY <1>0, <2>1, <2>2 DEF StackTake, BeforeDone, InLoop
<1>7. CASE \E b \in Bufs : StackRelease(b)
  <2>1. PICK b \in Bufs : StackRelease(b)
    BY <1>7
  <2>2. Partition'
    BY <2>1 DEF StackRelease, Partition, InitTypeOK
  <2>3. QED
    BY <1>0, <2>1, <2>2 DEF StackRelease, BeforeDone, InLoop
<1>8. CASE \E b \in Bufs, i \in TxSlots : TxInFlight(b, i)
  <2>1. PICK b \in Bufs, i \in TxSlots : TxInFlight(b, i)
    BY <1>8
  <2>2. /\ \A k \in RxSlots : rxBuffers[k] # b
        /\ \A j \in TxSlots : txBuffers[j] # b
        /\ b \notin pool
    BY <2>1 DEF TxInFlight, Partition, InitTypeOK
  <2>3. Partition'
    BY <2>1, <2>2 DEF TxInFlight, Partition, InitTypeOK
  <2>4. QED
    BY <1>0, <2>1, <2>3 DEF TxInFlight, BeforeDone, InLoop
<1>9. CASE UNCHANGED initVars
  BY <1>0, <1>9 DEF initVars, Partition, BeforeDone, InLoop
<1>10. QED
  BY <1>1, <1>2, <1>3, <1>4, <1>5, <1>6, <1>7, <1>8, <1>9 DEF InitNext

\* Under Partition every buffer has exactly one holder.
LEMMA PartitionNoLeak ==
  ASSUME InitTypeOK, Partition
  PROVE  InitNoLeak
<1> SUFFICES ASSUME NEW b \in Bufs PROVE Cardinality(InitHolders(b)) = 1
  BY DEF InitNoLeak
<1>1. SUFFICES \E h : InitHolders(b) = {h}
  BY FS_Singleton
<1>2. CASE b \in pool
  <2>1. /\ \A i \in RxSlots : rxBuffers[i] # b
        /\ \A j \in TxSlots : txBuffers[j] # b
        /\ b \notin others
    BY <1>2 DEF Partition, InitTypeOK
  <2>2. InitHolders(b) = {<<"pool">>}
    BY <1>2, <2>1 DEF InitHolders
  <2>3. QED
    BY <2>2
<1>3. CASE b \in others
  <2>1. /\ \A i \in RxSlots : rxBuffers[i] # b
        /\ \A j \in TxSlots : txBuffers[j] # b
        /\ b \notin pool
    BY <1>3 DEF Partition, InitTypeOK
  <2>2. InitHolders(b) = {<<"stack">>}
    BY <1>3, <2>1 DEF InitHolders
  <2>3. QED
    BY <2>2
<1>4. CASE \E i \in RxSlots : rxBuffers[i] = b
  <2>1. PICK i \in RxSlots : rxBuffers[i] = b
    BY <1>4
  <2>2. /\ \A k \in RxSlots : k # i => rxBuffers[k] # b
        /\ \A j \in TxSlots : txBuffers[j] # b
        /\ b \notin pool \cup others
    BY <2>1 DEF Partition, InitTypeOK
  <2>3. InitHolders(b) = {<<"rx", i>>}
    BY <2>1, <2>2 DEF InitHolders
  <2>4. QED
    BY <2>3
<1>5. CASE \E i \in TxSlots : txBuffers[i] = b
  <2>1. PICK i \in TxSlots : txBuffers[i] = b
    BY <1>5
  <2>2. /\ \A k \in TxSlots : k # i => txBuffers[k] # b
        /\ \A k \in RxSlots : rxBuffers[k] # b
        /\ b \notin pool \cup others
    BY <2>1 DEF Partition, InitTypeOK
  <2>3. InitHolders(b) = {<<"tx", i>>}
    BY <2>1, <2>2 DEF InitHolders
  <2>4. QED
    BY <2>3
<1>6. QED
  BY <1>2, <1>3, <1>4, <1>5 DEF Partition

\* The step that returns 0 leaves the rings ready.
LEMMA ReadyStep ==
  ASSUME InitIInv, [InitNext]_initVars, initPc = "loop", initPc' = "done"
  PROVE  RingsReady'
<1> USE DEF InitIInv
<1>1. InitFinish
  BY DEF InitNext, InitStart, InitReuse, InitAlloc, InitAllocFail,
         StackTake, StackRelease, TxInFlight, initVars
<1>2. /\ iIndex = NRx /\ semCreated /\ semCount = NTx
      /\ UNCHANGED <<rxBuffers, semCount>>
  BY <1>1 DEF InitFinish, InLoop, BeforeDone
<1>3. ASSUME NEW i \in RxSlots
      PROVE  /\ rxBuffers'[i] # NoBuf
             /\ rxSegments'[i] = [address |-> rxBuffers'[i], new |-> FALSE,
                                  wrap |-> i = NRx - 1]
  <2>1. /\ rxBuffers[i] # NoBuf /\ rxSegments[i].address = rxBuffers[i]
        /\ ~rxSegments[i].new /\ (rxSegments[i].wrap <=> i = NRx - 1)
    BY <1>2 DEF InLoop, RxSlots
  <2>2. rxSegments[i] \in RxDesc
    BY DEF InitTypeOK, RxDesc
  <2>3. rxSegments'[i] = rxSegments[i]
    <3>1. CASE i = NRx - 1
      BY <1>1, <2>1, <2>2, <3>1, DescUpdate DEF InitFinish, InitTypeOK, RxSlots
    <3>2. CASE i # NRx - 1
      BY <1>1, <3>2 DEF InitFinish, InitTypeOK, RxSlots
    <3>3. QED
      BY <3>1, <3>2
  <2>4. rxSegments[i] = [address |-> rxBuffers[i], new |-> FALSE,
                         wrap |-> i = NRx - 1]
    BY <2>1, <2>2, DescFields
  <2>5. QED
    BY <1>2, <2>1, <2>3, <2>4
<1>4. \A i, j \in RxSlots : i # j => rxBuffers'[i] # rxBuffers'[j]
  BY <1>2, <1>3 DEF Partition
<1>5. \A i \in TxSlots : txUsed'[i] /\ txBuffers'[i] = NoBuf
  BY <1>1 DEF InitFinish
<1>6. QED
  BY <1>2, <1>3, <1>4, <1>5 DEF RingsReady

(* However many calls of init_dma failed for want of a buffer, and as long *)
(* as it is not called again after it succeeded, no buffer is lost or held *)
(* twice: a retry posts the buffers the failed calls left in               *)
(* pxDMA_rx_buffers and takes new ones only for the empty slots.           *)
THEOREM InitNoLeakThm ==
  ASSUME ~ReinitAfterRun
  PROVE  InitSpec => []InitNoLeak
<1>1. InitSpec => []InitIInv
  BY IInvInit, IInvNext, PTL DEF InitSpec
<1>2. InitIInv => InitNoLeak
  BY PartitionNoLeak DEF InitIInv
<1>3. QED
  BY <1>1, <1>2, PTL

(* Under the same calls, the call of init_dma that returns 0 leaves both  *)
(* rings and the TX semaphore as the rest of the driver expects them.     *)
THEOREM InitReadyThm ==
  ASSUME ~ReinitAfterRun
  PROVE  InitSpec => InitReady
<1>1. InitSpec => []InitIInv
  BY IInvInit, IInvNext, PTL DEF InitSpec
<1>2. InitIInv /\ [InitNext]_initVars
        => [initPc = "loop" /\ initPc' = "done" => RingsReady']_initVars
  BY ReadyStep
<1>3. QED
  BY <1>1, <1>2, PTL DEF InitSpec, InitReady

=============================================================================
