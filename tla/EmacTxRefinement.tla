--------------------------- MODULE EmacTxRefinement ---------------------------
(***************************************************************************)
(* The TX ring of EmacTx seen as the queue of EmacTxQueue.                 *)
(*                                                                         *)
(*  - held: the buffer emacps_send_message holds from its length check to  *)
(*    the descriptor write that clears USED;                               *)
(*  - queue: the buffers of the descriptors with USED clear, read from the *)
(*    DMA's queue pointer onwards round the ring;                          *)
(*  - sent: the buffers still in pxDMA_tx_buffers whose descriptor the DMA *)
(*    has marked USED again.                                               *)
(*                                                                         *)
(* SendStart maps to Submit or Reject, SendTimeout to Drop, SendPublish to *)
(* Enqueue, DmaComplete to Transmit, a CheckTxReclaim of a slot with a     *)
(* buffer to Release; every other step leaves the image unchanged.         *)
(***************************************************************************)
EXTENDS EmacTx, Sequences

heldBar == IF sndPc \in {"take", "fill", "publish"} THEN {sndBuf} ELSE {}

\* The number of descriptors the DMA still has to send.
Pending == Cardinality({i \in Slots : ~txSegments[i].used})

queueBar == [k \in 1 .. Pending |-> txSegments[(dmaPtr + k - 1) % NTx].address]

sentBar ==
  {txBuffers[i] : i \in {j \in Slots : txBuffers[j] # NULL /\ txSegments[j].used}}
    \ heldBar

TxQ == INSTANCE EmacTxQueue
         WITH Capacity <- NTx, held <- heldBar, queue <- queueBar,
              sent <- sentBar

(* emacps_send_message, emacps_check_tx, the DMA and the interrupt        *)
(* together behave as the abstract queue: frames go out in the order the  *)
(* descriptors were published, each once, a buffer is released only after *)
(* its frame was sent, and no more than NTx frames are in the ring.        *)
TxQueueSpec == TxQ!QSpec

=============================================================================
