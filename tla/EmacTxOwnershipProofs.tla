------------------------- MODULE EmacTxOwnershipProofs -------------------------
(***************************************************************************)
(* Proofs that the TX path loses no buffer, holds none twice, and keeps    *)
(* the semaphore's credits equal to the free descriptors, for every ring   *)
(* of at least two descriptors when emacps_check_tx is not preempted.      *)
(***************************************************************************)
EXTENDS EmacTxProofs, FiniteSetTheorems

USE NTxAssumption, BuffersAssumption

\* The slot emacps_send_message is about to fill holds no buffer.
LEMMA FillSlotEmpty ==
  ASSUME IInv, sndPc = "fill"
  PROVE  txBuffers[txHead] = NULL
<1>1. HeldCredit = 1 /\ AdvancePending = 0
  BY DEF HeldCredit, Held, AdvancePending
<1>2. InFlight \in 0 .. NTx - 1 /\ NPub = InFlight
  BY <1>1 DEF IInv, TypeInv, TypeOK, RingShape, InFlight, NPub
<1>3. Dist(txHead) = InFlight
  BY <1>2 DEF IInv, RingShape, HeadAt
<1>4. Dist(txHead) >= NPub
  BY <1>2, <1>3
<1>5. QED
  BY <1>4 DEF IInv, TypeInv, TypeOK, RingShape, FreeUsed

\* The step of each actor keeps every buffer somewhere.
LEMMA CoveredNext ==
  ASSUME IInv, BuffersCovered, [Next]_vars
  PROVE  BuffersCovered'
<1> SUFFICES ASSUME NEW b \in Buffers
             PROVE  \/ b \in pool' \/ b \in stack'
                    \/ \E i \in Slots : txBuffers'[i] = b
                    \/ sndPc' \in {"take", "fill"} /\ sndBuf' = b
  BY DEF BuffersCovered
<1>0. /\ \/ b \in pool \/ b \in stack
         \/ \E i \in Slots : txBuffers[i] = b
         \/ sndPc \in {"take", "fill"} /\ sndBuf = b
      /\ TypeOK
  BY DEF BuffersCovered, IInv, TypeInv
<1>1. CASE \E c \in Buffers : StackAlloc(c)
  BY <1>0, <1>1 DEF StackAlloc, txRing, sender
<1>2. CASE \E c \in Buffers, len \in Lengths : SendStart(c, len)
  BY <1>0, <1>2 DEF SendStart, txRing, sender
<1>3. CASE SendTimeout
  BY <1>0, <1>3 DEF SendTimeout, txRing
<1>4. CASE SendFill
  <2>1. txBuffers[txHead] = NULL
    BY <1>4, FillSlotEmpty DEF SendFill
  <2>2. txBuffers' = [txBuffers EXCEPT ![txHead] = sndBuf]
        /\ UNCHANGED <<pool, stack>> /\ sndPc' = "publish"
    BY <1>4 DEF SendFill
  <2>3. CASE sndPc \in {"take", "fill"} /\ sndBuf = b
    <3>1. txBuffers'[txHead] = b
      BY <2>2, <2>3, <1>0 DEF TypeOK
    <3>2. QED
      BY <3>1, <1>0 DEF TypeOK
  <2>4. CASE \E i \in Slots : txBuffers[i] = b
    <3>1. PICK i \in Slots : txBuffers[i] = b
      BY <2>4
    <3>2. i # txHead
      BY <3>1, <2>1, BuffersAssumption
    <3>3. txBuffers'[i] = b
      BY <3>1, <3>2, <2>2, <1>0 DEF TypeOK
    <3>4. QED
      BY <3>3
  <2>5. QED
    BY <1>0, <2>2, <2>3, <2>4
<1>5. CASE SendKick
  BY <1>0, <1>5 DEF SendKick, txRing
<1>6. CASE CheckTxReclaim
  <2>1. /\ pool' = IF txBuffers[txTail] # NULL THEN pool \cup {txBuffers[txTail]}
                                                ELSE pool
        /\ txBuffers' = [txBuffers EXCEPT ![txTail] = NULL]
        /\ UNCHANGED <<stack, sndPc, sndBuf>>
    BY <1>6 DEF CheckTxReclaim, sender
  <2>2. pool \subseteq pool'
    BY <2>1
  <2>3. CASE \E i \in Slots : txBuffers[i] = b
    <3>1. PICK i \in Slots : txBuffers[i] = b
      BY <2>3
    <3>2. CASE i = txTail
      BY <2>1, <3>1, <3>2, BuffersAssumption
    <3>3. CASE i # txTail
      BY <2>1, <3>1, <3>3, <1>0 DEF TypeOK
    <3>4. QED
      BY <3>2, <3>3
  <2>4. QED
    BY <1>0, <2>1, <2>2, <2>3
<1>7. CASE \/ SendTake \/ SendPublish \/ SendAdvance
           \/ CheckTxStart \/ CheckTxCount \/ CheckTxDone
           \/ DmaFetch \/ DmaComplete \/ DmaHalt \/ SendHandler
  BY <1>0, <1>7 DEF SendTake, SendPublish, SendAdvance, CheckTxStart,
                    CheckTxCount, CheckTxDone, DmaFetch, DmaComplete,
                    DmaHalt, SendHandler, txRing, sender, checker, dma
<1>8. CASE UNCHANGED vars
  BY <1>0, <1>8 DEF vars, txRing, sender
<1>9. QED
  BY <1>1, <1>2, <1>3, <1>4, <1>5, <1>6, <1>7, <1>8 DEF Next

\* With every buffer somewhere and the ring's buffers apart, each buffer
\* has one holder.
LEMMA CoveredOwnership ==
  ASSUME IInv, BuffersCovered
  PROVE  TxBufferOwnership
<1> SUFFICES ASSUME NEW b \in Buffers PROVE Cardinality(Holders(b)) = 1
  BY DEF TxBufferOwnership
<1>1. SUFFICES \E h : Holders(b) = {h}
  BY FS_Singleton
<1>0. /\ TypeOK
      /\ \A i \in Slots : txBuffers[i] # NULL => txBuffers[i] \notin pool \cup stack
      /\ \A i, j \in Slots : i # j /\ txBuffers[i] # NULL =>
           txBuffers[i] # txBuffers[j]
      /\ sndPc \in {"take", "fill"} =>
           /\ sndBuf \notin pool \cup stack
           /\ \A i \in Slots : txBuffers[i] # sndBuf
      /\ pool \cap stack = {}
  BY DEF IInv, TypeInv, BuffersApart
<1>2. CASE b \in pool
  <2>1. /\ \A i \in Slots : txBuffers[i] # b
        /\ b \notin stack
        /\ ~(sndPc \in {"take", "fill"} /\ sndBuf = b)
    BY <1>0, <1>2
  <2>2. Holders(b) = {"pool"}
    BY <1>2, <2>1 DEF Holders
  <2>3. QED
    BY <2>2
<1>3. CASE b \in stack
  <2>1. /\ \A i \in Slots : txBuffers[i] # b
        /\ b \notin pool
        /\ ~(sndPc \in {"take", "fill"} /\ sndBuf = b)
    BY <1>0, <1>3
  <2>2. Holders(b) = {"stack"}
    BY <1>3, <2>1 DEF Holders
  <2>3. QED
    BY <2>2
<1>4. CASE \E i \in Slots : txBuffers[i] = b
  <2>1. PICK i \in Slots : txBuffers[i] = b
    BY <1>4
  <2>2. /\ \A j \in Slots : j # i => txBuffers[j] # b
        /\ b \notin pool \cup stack
        /\ ~(sndPc \in {"take", "fill"} /\ sndBuf = b)
    BY <1>0, <2>1, BuffersAssumption
  <2>3. Holders(b) = {i}
    BY <2>1, <2>2 DEF Holders
  <2>4. QED
    BY <2>3
<1>5. CASE sndPc \in {"take", "fill"} /\ sndBuf = b
  <2>1. /\ \A i \in Slots : txBuffers[i] # b
        /\ b \notin pool \cup stack
    BY <1>0, <1>5
  <2>2. Holders(b) = {"sender"}
    BY <1>5, <2>1 DEF Holders
  <2>3. QED
    BY <2>2
<1>6. QED
  BY <1>2, <1>3, <1>4, <1>5 DEF BuffersCovered

LEMMA InitOwnInv == Init => OwnInv
<1> SUFFICES ASSUME Init PROVE OwnInv
  OBVIOUS
<1>1. IInv
  BY InitIInv
<1>2. BuffersCovered
  BY DEF Init, BuffersCovered
<1>3. QED
  BY <1>1, <1>2 DEF OwnInv

LEMMA NextOwnInv ==
  ASSUME NTx >= 2, SenderPreempts = FALSE, OwnInv, [Next]_vars
  PROVE  OwnInv'
BY NextIInv, CoveredNext DEF OwnInv

(* No TX buffer is lost or held twice, for every ring of at least two      *)
(* descriptors, when emacps_check_tx is not preempted: the timeout path    *)
(* releases the buffer, emacps_send_message stores it only in an empty     *)
(* slot, and emacps_check_tx releases each stored buffer once.             *)
THEOREM TxBufferOwnershipThm ==
  ASSUME NTx >= 2, SenderPreempts = FALSE
  PROVE  Spec => []TxBufferOwnership
<1>1. Init => OwnInv
  BY InitOwnInv
<1>2. OwnInv /\ [Next]_vars => OwnInv'
  BY NextOwnInv
<1>3. OwnInv => TxBufferOwnership
  BY CoveredOwnership DEF OwnInv
<1>4. QED
  BY <1>1, <1>2, <1>3, PTL DEF Spec

-----------------------------------------------------------------------------
(* Counting the slots of a stretch of the ring.                            *)

\* The n slots from t onwards are n slots.
LEMMA StretchCard ==
  ASSUME NEW t \in Slots, NEW n \in 0 .. NTx
  PROVE  /\ IsFiniteSet({i \in Slots : DistFrom(t, i) < n})
         /\ Cardinality({i \in Slots : DistFrom(t, i) < n}) = n
<1> DEFINE S == {i \in Slots : DistFrom(t, i) < n}
           f == [i \in S |-> DistFrom(t, i)]
<1>1. f \in [S -> 0 .. n - 1]
  BY DistRange DEF Slots
<1>2. f \in Injection(S, 0 .. n - 1)
  BY <1>1, DistInjective DEF Injection, IsInjective
<1>3. ASSUME NEW k \in 0 .. n - 1
      PROVE  \E i \in S : f[i] = k
  <2> DEFINE j == IF t + k < NTx THEN t + k ELSE t + k - NTx
  <2>1. j \in Slots /\ DistFrom(t, j) = k
    BY DEF Slots, DistFrom
  <2>2. QED
    BY <2>1
<1>4. f \in Surjection(S, 0 .. n - 1)
  BY <1>1, <1>3 DEF Surjection
<1>5. IsFiniteSet(0 .. n - 1) /\ Cardinality(0 .. n - 1) = n
  BY FS_Interval
<1>6. QED
  BY <1>2, <1>4, <1>5, FS_Injection

\* While emacps_send_message holds a credit and has not yet published, the
\* head slot ends the published stretch.
LEMMA HeadEndsStretch ==
  ASSUME IInv, sndPc \in {"fill", "publish"}
  PROVE  /\ NPub = NTx - txSemCount - 1 /\ NPub \in 0 .. NTx - 1
         /\ Dist(txHead) = NPub
<1>1. HeldCredit = 1 /\ AdvancePending = 0
  BY DEF HeldCredit, Held, AdvancePending
<1>2. InFlight \in 0 .. NTx - 1 /\ NPub = InFlight
  BY <1>1 DEF IInv, TypeInv, TypeOK, RingShape, InFlight, NPub
<1>3. QED
  BY <1>1, <1>2 DEF IInv, RingShape, HeadAt, InFlight

\* The slots holding a buffer: the published stretch, and the head slot
\* once emacps_send_message has stored its buffer there.
FilledSlots == {i \in Slots : txBuffers[i] # NULL}

PubStretch == {i \in Slots : Dist(i) < NPub}

LEMMA FilledSlotsShape ==
  ASSUME IInv
  PROVE  FilledSlots = PubStretch \cup
                       (IF sndPc = "publish" THEN {txHead} ELSE {})
<1>1. NPub \in Nat
  BY NPubRange DEF IInv, TypeInv, RingShape
<1>2. ASSUME NEW i \in Slots, Dist(i) < NPub
      PROVE  txBuffers[i] # NULL
  BY <1>2 DEF IInv, RingShape, PubFilled
<1>3. ASSUME NEW i \in Slots, ~(Dist(i) < NPub)
      PROVE  txBuffers[i] # NULL <=> sndPc = "publish" /\ i = txHead
  <2>1. Dist(i) >= NPub
    BY <1>1, <1>3, DistRange DEF Dist, IInv, TypeInv, TypeOK
  <2>2. txBuffers[i] = IF sndPc = "publish" /\ i = txHead THEN sndBuf ELSE NULL
    BY <2>1 DEF IInv, RingShape, FreeUsed
  <2>3. sndPc = "publish" => sndBuf \in Buffers
    BY DEF IInv, TypeInv, SenderHolds
  <2>4. QED
    BY <2>2, <2>3
<1>4. sndPc = "publish" => ~(Dist(txHead) < NPub) /\ txHead \in Slots
  BY HeadEndsStretch DEF IInv, TypeInv, TypeOK
<1>5. QED
  BY <1>2, <1>3, <1>4 DEF FilledSlots, PubStretch

LEMMA IInvCredits ==
  ASSUME IInv
  PROVE  TxCreditsMatch
<1>0. TypeOK /\ InFlight \in 0 .. NTx /\ txTail \in Slots
  BY DEF IInv, TypeInv, TypeOK, RingShape
<1>1. NPub \in 0 .. NTx
  BY <1>0, NPubRange
<1>2. IsFiniteSet(PubStretch) /\ Cardinality(PubStretch) = NPub
  BY <1>0, <1>1, StretchCard DEF PubStretch, Dist
<1>3. CASE sndPc = "publish"
  <2>1. FilledSlots = PubStretch \cup {txHead} /\ txHead \notin PubStretch
    BY <1>3, FilledSlotsShape, HeadEndsStretch DEF PubStretch
  <2>2. Cardinality(FilledSlots) = NPub + 1
    BY <1>2, <2>1, FS_AddElement
  <2>3. NPub = NTx - txSemCount - 1 /\ CreditHeld = 0
    BY <1>3, HeadEndsStretch DEF CreditHeld
  <2>4. QED
    BY <1>0, <1>1, <2>2, <2>3 DEF TxCreditsMatch, FilledSlots, TypeOK
<1>4. CASE sndPc # "publish"
  <2>1. Cardinality(FilledSlots) = NPub
    BY <1>2, <1>4, FilledSlotsShape
  <2>2. NPub + CreditHeld = NTx - txSemCount
    <3>1. CASE sndPc = "fill"
      <4>1. CreditHeld = 1
        BY <3>1 DEF CreditHeld
      <4>2. QED
        BY <1>0, <3>1, <4>1, HeadEndsStretch DEF TypeOK
    <3>2. CASE sndPc = "advance"
      <4>1. CreditHeld = 0 /\ HeldCredit = 1 /\ AdvancePending = 1
        BY <3>2 DEF CreditHeld, HeldCredit, Held, AdvancePending
      <4>2. QED
        BY <1>0, <4>1 DEF NPub, InFlight, TypeOK
    <3>3. CASE sndPc \notin {"fill", "publish", "advance"}
      <4>1. CreditHeld = 0 /\ HeldCredit = 0 /\ AdvancePending = 0
        BY <3>3 DEF CreditHeld, HeldCredit, Held, AdvancePending
      <4>2. QED
        BY <1>0, <4>1 DEF NPub, InFlight, TypeOK
    <3>4. QED
      BY <1>4, <3>1, <3>2, <3>3
  <2>3. CreditHeld \in 0 .. 1
    BY DEF CreditHeld
  <2>4. QED
    BY <1>0, <1>1, <2>1, <2>2, <2>3 DEF TxCreditsMatch, FilledSlots, TypeOK
<1>5. QED
  BY <1>3, <1>4

(* The semaphore's count plus the descriptors holding a buffer plus the    *)
(* credit emacps_send_message has taken and not yet used is always NTx,    *)
(* for every ring of at least two descriptors when emacps_check_tx is not  *)
(* preempted: each credit taken is matched by a slot filled, each slot     *)
(* reclaimed by a credit given back, and xSemaphoreGive never fails.       *)
THEOREM TxCreditsMatchThm ==
  ASSUME NTx >= 2, SenderPreempts = FALSE
  PROVE  Spec => []TxCreditsMatch
<1>1. Init => IInv
  BY InitIInv
<1>2. IInv /\ [Next]_vars => IInv'
  BY NextIInv
<1>3. IInv => TxCreditsMatch
  BY IInvCredits
<1>4. QED
  BY <1>1, <1>2, <1>3, PTL DEF Spec

=============================================================================
