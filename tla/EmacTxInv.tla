------------------------------ MODULE EmacTxInv ------------------------------
(***************************************************************************)
(* The inductive invariants behind the TX safety properties of EmacTx.     *)
(* They describe the ring as the code maintains it: going forward from     *)
(* txTail, first the slots whose frames the DMA has sent, then those it is *)
(* still to send, then the free ones; txHead ends the published segment.   *)
(***************************************************************************)
EXTENDS EmacTx

(* Every descriptor carries WRAP exactly when it is the last of the ring:  *)
(* clean_dma_txdescs, emacps_send_message and emacps_check_tx all write    *)
(* WRAP as "index = ipconfigNIC_N_TX_DESC - 1", and the DMA only sets      *)
(* USED.  The DMA pointer stays inside the ring only because of it.        *)
WrapOnLast == \A i \in Slots : txSegments[i].wrap <=> i = NTx - 1

(* A sender past its first step holds a buffer from the IP stack. *)
SenderHolds == sndPc # "idle" => sndBuf \in Buffers

TypeInv == TypeOK /\ WrapOnLast /\ SenderHolds

\* emacps_send_message has taken a credit and not yet advanced txHead.
Held == sndPc \in {"fill", "publish", "advance"}

HeldCredit == IF Held THEN 1 ELSE 0

\* The number of slots from txTail up to txHead that hold a frame.
InFlight == NTx - txSemCount - HeldCredit

\* How far slot i lies ahead of slot t, going forward round the ring.
DistFrom(t, i) == IF i >= t THEN i - t ELSE i + NTx - t

\* How far slot i lies ahead of txTail.
Dist(i) == DistFrom(txTail, i)

\* The number of slots from txTail on whose descriptor is published.
AdvancePending == IF sndPc = "advance" THEN 1 ELSE 0

NPub == InFlight + AdvancePending

\* txHead ends the segment of slots holding a frame (a full ring ends
\* where it starts).
HeadAt == Dist(txHead) = IF InFlight = NTx THEN 0 ELSE InFlight

\* Each published slot holds a buffer, and its descriptor points at it.
PubFilled ==
  \A i \in Slots : Dist(i) < NPub =>
    /\ txBuffers[i] \in Buffers
    /\ txSegments[i].address = txBuffers[i]

\* The other slots are USED and hold no buffer, except the head slot that
\* emacps_send_message has filled and not yet published.
FreeUsed ==
  \A i \in Slots : Dist(i) >= NPub =>
    /\ txSegments[i].used
    /\ txBuffers[i] = IF sndPc = "publish" /\ i = txHead THEN sndBuf ELSE NULL

\* The DMA has sent the first k published slots and its pointer is at the
\* k-th; the rest of the published ones still have USED clear.
DmaAt(k) ==
  /\ Dist(dmaPtr) = IF k = NTx THEN 0 ELSE k
  /\ \A i \in Slots : Dist(i) < k => txSegments[i].used
  /\ \A i \in Slots : k <= Dist(i) /\ Dist(i) < NPub => ~txSegments[i].used

DmaInside == \E k \in 0 .. NPub : DmaAt(k)

\* A frame being read comes from the descriptor the DMA points at.
DmaReading ==
  dmaBusy => ~txSegments[dmaPtr].used /\ dmaBuf = txSegments[dmaPtr].address

RingShape ==
  /\ InFlight \in 0 .. NTx
  /\ HeadAt /\ PubFilled /\ FreeUsed /\ DmaInside /\ DmaReading

\* Buffers in the ring are distinct and neither free nor with the stack;
\* the one emacps_send_message holds before storing it is in neither.
BuffersApart ==
  /\ \A i \in Slots : txBuffers[i] # NULL => txBuffers[i] \notin pool \cup stack
  /\ \A i, j \in Slots : i # j /\ txBuffers[i] # NULL =>
        txBuffers[i] # txBuffers[j]
  /\ sndPc \in {"take", "fill"} =>
        /\ sndBuf \notin pool \cup stack
        /\ \A i \in Slots : txBuffers[i] # sndBuf
  /\ pool \cap stack = {}

\* While emacps_check_tx runs the sender takes no step, so its snapshot of
\* txHead is current and uxCount tracks the credits it gives back.
CheckerCurrent ==
  /\ chkPc \in {"count", "loop"} => chkHead = txHead
  /\ chkPc = "loop" => chkCount = NTx - txSemCount

(* The inductive invariant for TxDmaReadsOwned, when the EMAC task has the *)
(* higher priority and the ring has at least two descriptors: the ring has *)
(* the shape emacps_send_message and emacps_check_tx maintain, its buffers *)
(* are owned by it alone, and emacps_check_tx works on a current snapshot. *)
IInv == TypeInv /\ RingShape /\ BuffersApart /\ CheckerCurrent

(* No buffer is lost: each is free, with the stack, stored in a slot of   *)
(* pxDMA_tx_buffers, or held by emacps_send_message before it stores it.   *)
BuffersCovered ==
  \A b \in Buffers :
    \/ b \in pool \/ b \in stack
    \/ \E i \in Slots : txBuffers[i] = b
    \/ sndPc \in {"take", "fill"} /\ sndBuf = b

(* The inductive invariant for TxBufferOwnership and TxCreditsMatch.       *)
OwnInv == IInv /\ BuffersCovered

=============================================================================
