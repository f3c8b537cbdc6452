------------------------------- MODULE EmacTx -------------------------------
(***************************************************************************)
(* The transmit path of the Xilinx UltraScale+ GEM driver of FreeRTOS+TCP  *)
(* (x_emacpsif_dma.c): the TX descriptor ring txSegments, the parallel     *)
(* table pxDMA_tx_buffers, the indices txHead/txTail, the counting         *)
(* semaphore xTXDescriptorSemaphore, and the four actors that touch them:  *)
(*                                                                         *)
(*  - the IP task, inside emacps_send_message (one step per shared access);*)
(*  - the EMAC task, inside emacps_check_tx (one step per loop iteration); *)
(*  - the GEM TX DMA engine, which transmits descriptors whose USED bit is *)
(*    clear and follows the WRAP bit;                                      *)
(*  - the TX-complete interrupt, emacps_send_handler.                      *)
(*                                                                         *)
(* Buffers are model values; a descriptor's length and LAST bit are data   *)
(* that no property here tells apart and are left out.                     *)
(***************************************************************************)
EXTENDS Naturals, FiniteSets

CONSTANTS
  NTx,            \* ipconfigNIC_N_TX_DESC
  Buffers,        \* the network buffers of the pool
  NULL,           \* the null pointer
  MinFrame,       \* sizeof( struct xARP_PACKET )
  MaxFrame,       \* dmaRX_TX_BUFFER_SIZE
  Lengths,        \* the xDataLength values the IP stack may pass
  SenderPreempts  \* TRUE: the IP task may run in the middle of emacps_check_tx

ASSUME NTxAssumption == NTx \in Nat \ {0}
ASSUME BuffersAssumption == NULL \notin Buffers
ASSUME LengthsAssumption ==
  /\ MinFrame \in Nat /\ MaxFrame \in Nat
  /\ Lengths \subseteq Nat
ASSUME SenderPreemptsAssumption == SenderPreempts \in BOOLEAN

VARIABLES
  txSegments,   \* [Slots -> [address, used, wrap]]: the TX buffer descriptors
  txBuffers,    \* pxDMA_tx_buffers[ xEMACIndex ]
  txHead,       \* xemacpsif->txHead
  txTail,       \* xemacpsif->txTail
  txSemCount,   \* uxSemaphoreGetCount( xTXDescriptorSemaphore )
  txBusy,       \* xemacpsif->txBusy
  txIsrEvent,   \* the EMAC_IF_TX_EVENT bit of xemacpsif->isr_events
  sndPc,        \* where the IP task is in emacps_send_message
  sndBuf,       \* pxBuffer of emacps_send_message
  chkPc,        \* where the EMAC task is in emacps_check_tx
  chkHead,      \* the local head of emacps_check_tx
  chkCount,     \* the local uxCount of emacps_check_tx
  dmaPtr,       \* the GEM's transmit queue pointer (a slot index)
  dmaGo,        \* the GEM transmitter is running (STARTTX was written)
  dmaBusy,      \* the GEM is reading the frame of descriptor dmaPtr
  dmaBuf,       \* the buffer address it fetched from that descriptor
  txIrq,        \* the TXCOMPL status bit, pending interrupt
  pool,         \* buffers free in the network-buffer pool
  stack         \* buffers held by the IP stack, ready to be sent

txRing == <<txSegments, txBuffers, txHead, txTail, txSemCount>>
sender == <<sndPc, sndBuf>>
checker == <<chkPc, chkHead, chkCount>>
dma == <<dmaPtr, dmaGo, dmaBusy, dmaBuf, txIrq>>
vars == <<txRing, txBusy, txIsrEvent, sender, checker, dma, pool, stack>>

Slots == 0 .. NTx - 1

\* The slot after i, as "if( ++head == ipconfigNIC_N_TX_DESC ) head = 0".
NextSlot(i) == IF i + 1 = NTx THEN 0 ELSE i + 1

\* A descriptor: address word and the USED and WRAP bits of the flags word.
Descriptor == [address : Buffers \cup {NULL}, used : BOOLEAN, wrap : BOOLEAN]

-----------------------------------------------------------------------------
(* Initialisation: init_dma ends with clean_dma_txdescs and creates the    *)
(* counting semaphore with NTx credits.                                    *)

\* clean_dma_txdescs: every descriptor USED, WRAP on the last, no buffers.
CleanTxSegments == [i \in Slots |-> [address |-> NULL, used |-> TRUE,
                                     wrap |-> i = NTx - 1]]

Init ==
  /\ txSegments = CleanTxSegments
  /\ txBuffers = [i \in Slots |-> NULL]
  /\ txHead = 0
  /\ txTail = 0
  /\ txSemCount = NTx
  /\ txBusy = FALSE
  /\ txIsrEvent = FALSE
  /\ sndPc = "idle" /\ sndBuf = NULL
  /\ chkPc = "idle" /\ chkHead = 0 /\ chkCount = 0
  /\ dmaPtr = 0 /\ dmaGo = FALSE /\ dmaBusy = FALSE /\ dmaBuf = NULL
  /\ txIrq = FALSE
  /\ pool = Buffers
  /\ stack = {}

-----------------------------------------------------------------------------
(* The IP stack: takes a buffer from the pool to fill it with a frame.     *)

StackAlloc(b) ==
  /\ b \in pool
  /\ pool' = pool \ {b}
  /\ stack' = stack \cup {b}
  /\ UNCHANGED <<txRing, txBusy, txIsrEvent, sender, checker, dma>>

-----------------------------------------------------------------------------
(* emacps_send_message, run by the IP task.  When SenderPreempts is FALSE  *)
(* the EMAC task has the higher priority, so the IP task takes no step     *)
(* while emacps_check_tx is running.                                       *)

SenderMayRun == SenderPreempts \/ chkPc = "idle"

\* xValidLength
ValidLength(len) == MinFrame <= len /\ len <= MaxFrame

\* Entry with pxBuffer of length len.  A wrong length breaks out of the
\* do-while and, as iReleaseAfterSend is set, releases the buffer.
SendStart(b, len) ==
  /\ sndPc = "idle" /\ SenderMayRun
  /\ b \in stack
  /\ stack' = stack \ {b}
  /\ IF ValidLength(len)
       THEN /\ sndPc' = "take" /\ sndBuf' = b /\ UNCHANGED pool
       ELSE /\ pool' = pool \cup {b} /\ UNCHANGED sender
  /\ UNCHANGED <<txRing, txBusy, txIsrEvent, checker, dma>>

\* xSemaphoreTake succeeds: one TX credit.
SendTake ==
  /\ sndPc = "take" /\ SenderMayRun
  /\ txSemCount > 0
  /\ txSemCount' = txSemCount - 1
  /\ sndPc' = "fill"
  /\ UNCHANGED <<txSegments, txBuffers, txHead, txTail, sndBuf>>
  /\ UNCHANGED <<txBusy, txIsrEvent, checker, dma, pool, stack>>

\* Mutant: the timeout path forgets to release the buffer.
SendTimeoutNoRelease ==
  /\ sndPc = "take" /\ SenderMayRun
  /\ txSemCount = 0
  /\ sndPc' = "idle" /\ sndBuf' = NULL
  /\ UNCHANGED <<txRing, txBusy, txIsrEvent, checker, dma, pool, stack>>

\* xSemaphoreTake times out after 5 s: the buffer is released, no START.
SendTimeout ==
  /\ sndPc = "take" /\ SenderMayRun
  /\ txSemCount = 0
  /\ pool' = pool \cup {sndBuf}
  /\ sndPc' = "idle" /\ sndBuf' = NULL
  /\ UNCHANGED <<txRing, txBusy, txIsrEvent, checker, dma, stack>>

\* Mutant: the descriptor is published before pxDMA_tx_buffers is set.
SendFillPublishFirst ==
  /\ sndPc = "fill" /\ SenderMayRun
  /\ txBuffers' = [txBuffers EXCEPT ![txHead] = sndBuf]
  /\ txSegments' = [txSegments EXCEPT ![txHead] =
                      [address |-> txBuffers[txHead], used |-> FALSE,
                       wrap |-> txHead = NTx - 1]]
  /\ sndPc' = "publish"
  /\ UNCHANGED <<txHead, txTail, txSemCount, sndBuf>>
  /\ UNCHANGED <<txBusy, txIsrEvent, checker, dma, pool, stack>>

\* pxDMA_tx_buffers[ head ] = pxBuffer->pucEthernetBuffer (and the flush).
SendFill ==
  /\ sndPc = "fill" /\ SenderMayRun
  /\ txBuffers' = [txBuffers EXCEPT ![txHead] = sndBuf]
  /\ sndPc' = "publish"
  /\ UNCHANGED <<txSegments, txHead, txTail, txSemCount, sndBuf>>
  /\ UNCHANGED <<txBusy, txIsrEvent, checker, dma, pool, stack>>

\* Mutant: the WRAP bit is not set on the last descriptor.
SendPublishNoWrap ==
  /\ sndPc = "publish" /\ SenderMayRun
  /\ txSegments' = [txSegments EXCEPT ![txHead] =
                      [address |-> txBuffers[txHead], used |-> FALSE,
                       wrap |-> FALSE]]
  /\ sndPc' = "advance"
  /\ UNCHANGED <<txBuffers, txHead, txTail, txSemCount, sndBuf>>
  /\ UNCHANGED <<txBusy, txIsrEvent, checker, dma, pool, stack>>

\* The address is read back from pxDMA_tx_buffers[ head ]; the flags word
\* is written with USED clear and WRAP on the last slot.
SendPublish ==
  /\ sndPc = "publish" /\ SenderMayRun
  /\ txSegments' = [txSegments EXCEPT ![txHead] =
                      [address |-> txBuffers[txHead], used |-> FALSE,
                       wrap |-> txHead = NTx - 1]]
  /\ sndPc' = "advance"
  /\ UNCHANGED <<txBuffers, txHead, txTail, txSemCount, sndBuf>>
  /\ UNCHANGED <<txBusy, txIsrEvent, checker, dma, pool, stack>>

\* xemacpsif->txHead = head after the increment.
SendAdvance ==
  /\ sndPc = "advance" /\ SenderMayRun
  /\ txHead' = NextSlot(txHead)
  /\ sndPc' = "kick"
  /\ UNCHANGED <<txSegments, txBuffers, txTail, txSemCount, sndBuf>>
  /\ UNCHANGED <<txBusy, txIsrEvent, checker, dma, pool, stack>>

\* Mutant: STARTTX is skipped while txBusy is still set.
SendKickIfIdle ==
  /\ sndPc = "kick" /\ SenderMayRun
  /\ txBusy' = TRUE
  /\ dmaGo' = IF txBusy THEN dmaGo ELSE TRUE
  /\ sndPc' = "idle" /\ sndBuf' = NULL
  /\ UNCHANGED <<txRing, txIsrEvent, checker, dmaPtr, dmaBusy, dmaBuf, txIrq,
                 pool, stack>>

\* dsb(), txBusy = pdTRUE, STARTTX written to NWCTRL, read back, dsb().
SendKick ==
  /\ sndPc = "kick" /\ SenderMayRun
  /\ txBusy' = TRUE
  /\ dmaGo' = TRUE
  /\ sndPc' = "idle" /\ sndBuf' = NULL
  /\ UNCHANGED <<txRing, txIsrEvent, checker, dmaPtr, dmaBusy, dmaBuf, txIrq,
                 pool, stack>>

-----------------------------------------------------------------------------
(* emacps_check_tx, run by the EMAC task when it finds EMAC_IF_TX_EVENT.   *)

\* The task clears the event and calls emacps_check_tx, which reads
\* txTail and txHead into locals.
CheckTxStart ==
  /\ chkPc = "idle"
  /\ txIsrEvent
  /\ txIsrEvent' = FALSE
  /\ chkHead' = txHead
  /\ chkPc' = "count"
  /\ UNCHANGED <<txRing, txBusy, sender, chkCount, dma, pool, stack>>

\* uxCount = ipconfigNIC_N_TX_DESC - uxSemaphoreGetCount( ... )
CheckTxCount ==
  /\ chkPc = "count"
  /\ chkCount' = NTx - txSemCount
  /\ chkPc' = "loop"
  /\ UNCHANGED <<txRing, txBusy, txIsrEvent, sender, chkHead, dma, pool, stack>>

\* Mutant: the loop without the test of the USED bit.
CheckTxMayReclaimNoUsed ==
  /\ chkCount > 0
  /\ ~(txTail = chkHead /\ chkCount # NTx)

\* The while condition and the break of emacps_check_tx.
CheckTxMayReclaim ==
  /\ chkCount > 0
  /\ txSegments[txTail].used
  /\ ~(txTail = chkHead /\ chkCount # NTx)

\* Mutant: the iteration forgets xSemaphoreGive.
CheckTxReclaimNoGive ==
  /\ chkPc = "loop"
  /\ CheckTxMayReclaim
  /\ pool' = IF txBuffers[txTail] # NULL THEN pool \cup {txBuffers[txTail]}
                                         ELSE pool
  /\ txBuffers' = [txBuffers EXCEPT ![txTail] = NULL]
  /\ txSegments' = [txSegments EXCEPT ![txTail] =
                      [@ EXCEPT !.used = TRUE, !.wrap = txTail = NTx - 1]]
  /\ chkCount' = chkCount - 1
  /\ txTail' = NextSlot(txTail)
  /\ UNCHANGED <<txHead, txSemCount, txBusy, txIsrEvent, sender, chkPc,
                 chkHead, dma, stack>>

\* One iteration: release the buffer, reset the flags to USED (and WRAP),
\* give one credit back (xSemaphoreGive fails at the maximum count NTx),
\* advance txTail.
CheckTxReclaim ==
  /\ chkPc = "loop"
  /\ CheckTxMayReclaim
  /\ pool' = IF txBuffers[txTail] # NULL THEN pool \cup {txBuffers[txTail]}
                                         ELSE pool
  /\ txBuffers' = [txBuffers EXCEPT ![txTail] = NULL]
  /\ txSegments' = [txSegments EXCEPT ![txTail] =
                      [@ EXCEPT !.used = TRUE, !.wrap = txTail = NTx - 1]]
  /\ chkCount' = chkCount - 1
  /\ txSemCount' = IF txSemCount < NTx THEN txSemCount + 1 ELSE txSemCount
  /\ txTail' = NextSlot(txTail)
  /\ UNCHANGED <<txHead, txBusy, txIsrEvent, sender, chkPc, chkHead, dma, stack>>

CheckTxDone ==
  /\ chkPc = "loop"
  /\ ~CheckTxMayReclaim
  /\ chkPc' = "idle"
  /\ UNCHANGED <<txRing, txBusy, txIsrEvent, sender, chkHead, chkCount, dma>>
  /\ UNCHANGED <<pool, stack>>

-----------------------------------------------------------------------------
(* The GEM transmitter and its interrupt.                                  *)

\* The transmitter fetches a descriptor with USED clear and starts reading
\* the frame at its address.
DmaFetch ==
  /\ dmaGo /\ ~dmaBusy
  /\ ~txSegments[dmaPtr].used
  /\ dmaBusy' = TRUE
  /\ dmaBuf' = txSegments[dmaPtr].address
  /\ UNCHANGED <<txRing, txBusy, txIsrEvent, sender, checker, dmaPtr, dmaGo>>
  /\ UNCHANGED <<txIrq, pool, stack>>

\* The frame is sent: the DMA sets USED, raises TXCOMPL and moves to the
\* next descriptor, or to slot 0 after one with WRAP.
DmaComplete ==
  /\ dmaBusy
  /\ txSegments' = [txSegments EXCEPT ![dmaPtr].used = TRUE]
  /\ dmaPtr' = IF txSegments[dmaPtr].wrap THEN 0 ELSE dmaPtr + 1
  /\ dmaBusy' = FALSE /\ dmaBuf' = NULL
  /\ txIrq' = TRUE
  /\ UNCHANGED <<txBuffers, txHead, txTail, txSemCount, dmaGo>>
  /\ UNCHANGED <<txBusy, txIsrEvent, sender, checker, pool, stack>>

\* A descriptor with USED set stops the transmitter.
DmaHalt ==
  /\ dmaGo /\ ~dmaBusy
  /\ txSegments[dmaPtr].used
  /\ dmaGo' = FALSE
  /\ UNCHANGED <<txRing, txBusy, txIsrEvent, sender, checker, dmaPtr, dmaBusy>>
  /\ UNCHANGED <<dmaBuf, txIrq, pool, stack>>

\* emacps_send_handler: read back TXSR, set EMAC_IF_TX_EVENT, clear txBusy,
\* notify the EMAC task.
SendHandler ==
  /\ txIrq
  /\ txIrq' = FALSE
  /\ txIsrEvent' = TRUE
  /\ txBusy' = FALSE
  /\ UNCHANGED <<txRing, sender, checker, dmaPtr, dmaGo, dmaBusy, dmaBuf>>
  /\ UNCHANGED <<pool, stack>>

-----------------------------------------------------------------------------

Next ==
  \/ \E b \in Buffers : StackAlloc(b)
  \/ \E b \in Buffers, len \in Lengths : SendStart(b, len)
  \/ SendTake \/ SendTimeout \/ SendFill \/ SendPublish \/ SendAdvance
  \/ SendKick
  \/ CheckTxStart \/ CheckTxCount \/ CheckTxReclaim \/ CheckTxDone
  \/ DmaFetch \/ DmaComplete \/ DmaHalt \/ SendHandler

Spec == Init /\ [][Next]_vars

(* The hardware and the EMAC task always make progress; so does the IP    *)
(* task once inside emacps_send_message.  The IP stack need not send.     *)
Fairness ==
  /\ WF_vars(DmaFetch) /\ WF_vars(DmaComplete) /\ WF_vars(DmaHalt)
  /\ WF_vars(SendHandler)
  /\ WF_vars(CheckTxStart) /\ WF_vars(CheckTxCount)
  /\ WF_vars(CheckTxReclaim) /\ WF_vars(CheckTxDone)
  /\ WF_vars(SendTake \/ SendFill \/ SendPublish \/ SendAdvance \/ SendKick)

FairSpec == Spec /\ Fairness

-----------------------------------------------------------------------------
(* Properties.                                                             *)

TypeOK ==
  /\ txSegments \in [Slots -> Descriptor]
  /\ txBuffers \in [Slots -> Buffers \cup {NULL}]
  /\ txHead \in Slots /\ txTail \in Slots
  /\ txSemCount \in 0 .. NTx
  /\ txBusy \in BOOLEAN /\ txIsrEvent \in BOOLEAN
  /\ sndPc \in {"idle", "take", "fill", "publish", "advance", "kick"}
  /\ sndBuf \in Buffers \cup {NULL}
  /\ chkPc \in {"idle", "count", "loop"}
  /\ chkHead \in Slots /\ chkCount \in 0 .. NTx
  /\ dmaPtr \in Slots /\ dmaGo \in BOOLEAN /\ dmaBusy \in BOOLEAN
  /\ dmaBuf \in Buffers \cup {NULL} /\ txIrq \in BOOLEAN
  /\ pool \in SUBSET Buffers /\ stack \in SUBSET Buffers

(* The DMA never reads a buffer the driver has given away: a descriptor   *)
(* with USED clear points at the buffer pxDMA_tx_buffers holds for it, as *)
(* does the descriptor whose frame the DMA is reading, and that buffer is  *)
(* neither free in the pool nor back with the stack.  emacps_check_tx      *)
(* releasing a slot emacps_send_message is still filling, or one whose     *)
(* frame is still being sent, breaks it.                                   *)
OwnedByRing(i, b) == b \in Buffers /\ b = txBuffers[i] /\ b \notin pool \cup stack

TxDmaReadsOwned ==
  /\ \A i \in Slots : ~txSegments[i].used => OwnedByRing(i, txSegments[i].address)
  /\ dmaBusy => OwnedByRing(dmaPtr, dmaBuf)

(* Every buffer has exactly one owner: the pool, the IP stack, the IP task *)
(* inside emacps_send_message before it is stored in the ring, or one slot *)
(* of pxDMA_tx_buffers.  No buffer is lost and none is released twice.    *)
Holders(b) ==
  {i \in Slots : txBuffers[i] = b}
    \cup (IF b \in pool THEN {"pool"} ELSE {})
    \cup (IF b \in stack THEN {"stack"} ELSE {})
    \cup (IF sndBuf = b /\ sndPc \in {"take", "fill"} THEN {"sender"} ELSE {})

TxBufferOwnership == \A b \in Buffers : Cardinality(Holders(b)) = 1

(* The credits match the ring: the semaphore count plus the descriptors   *)
(* holding a buffer plus a credit taken by emacps_send_message and not yet *)
(* stored is NTx, whenever emacps_check_tx is not between two statements  *)
(* of one iteration (iterations are single steps here).                   *)
CreditHeld == IF sndPc = "fill" THEN 1 ELSE 0

TxCreditsMatch ==
  txSemCount + Cardinality({i \in Slots : txBuffers[i] # NULL}) + CreditHeld
    = NTx

(* Every descriptor emacps_send_message publishes (USED cleared) is       *)
(* eventually transmitted by the DMA: the STARTTX written after each       *)
(* publication is never lost, and the DMA never stops short of it.        *)
TxEventuallyTransmitted ==
  \A i \in Slots : ~txSegments[i].used ~> txSegments[i].used

(* Every buffer the driver holds in pxDMA_tx_buffers eventually goes back *)
(* to the pool, even when the IP stack sends nothing more: a TX-complete   *)
(* interrupt followed by emacps_check_tx returns every completed slot.     *)
TxEventuallyReclaimed ==
  \A b \in Buffers : (\E i \in Slots : txBuffers[i] = b)
                       ~> (\A i \in Slots : txBuffers[i] # b)

=============================================================================
