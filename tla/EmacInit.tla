------------------------------- MODULE EmacInit -------------------------------
(***************************************************************************)
(* init_dma of x_emacpsif_dma.c, one step per RX slot, across repeated     *)
(* calls.  Each call takes fresh descriptor memory, creates and clones the *)
(* RX ring (every descriptor cleared, WRAP on the last), creates the TX    *)
(* semaphore unless it exists, then posts a buffer in every RX slot: the   *)
(* one pxDMA_rx_buffers still holds from an earlier call, or a new one     *)
(* from pxGetNetworkBufferWithDescriptor, which fails (timeout 0) when the *)
(* pool is empty and makes init_dma return -1.  A call that reaches the    *)
(* end sets WRAP on the last RX slot and runs clean_dma_txdescs.           *)
(*                                                                         *)
(* pxDMA_rx_buffers, pxDMA_tx_buffers and xTXDescriptorSemaphore are file  *)
(* statics and keep their values from one call to the next.  Who calls     *)
(* init_dma again is the interface layer (NetworkInterface.c): after a     *)
(* failed call, and, if ReinitAfterRun, after a successful one once the    *)
(* TX path has been used.  The vendor calls (ring create, clone, alloc,    *)
(* to-hw) cannot fail on a ring of this size and alignment and are not     *)
(* given failure outcomes.                                                 *)
(***************************************************************************)
EXTENDS Naturals, FiniteSets

CONSTANTS
  NRx,            \* ipconfigNIC_N_RX_DESC
  NTx,            \* ipconfigNIC_N_TX_DESC
  Bufs,           \* the network buffers
  NoBuf,          \* NULL
  MaxCalls,       \* the number of calls of init_dma in one run
  ReinitAfterRun  \* init_dma may be called again after it succeeded

ASSUME InitConstAssumption ==
  /\ NRx \in Nat \ {0} /\ NTx \in Nat \ {0}
  /\ NoBuf \notin Bufs /\ MaxCalls \in Nat /\ ReinitAfterRun \in BOOLEAN

VARIABLES
  initPc,      \* "idle" before the first call, "loop", "done" or "failed"
  iIndex,      \* the loop index of init_dma
  calls,       \* the number of calls so far
  rxBuffers,   \* pxDMA_rx_buffers[ xEMACIndex ]
  rxSegments,  \* xemacpsif->rxSegments
  txBuffers,   \* pxDMA_tx_buffers[ xEMACIndex ]
  txUsed,      \* the USED bits of xemacpsif->txSegments
  semCreated,  \* xTXDescriptorSemaphore[ xEMACIndex ] != NULL
  semCount,    \* its count
  pool,        \* the free network buffers
  others       \* buffers held elsewhere in the stack

initVars == <<initPc, iIndex, calls, rxBuffers, rxSegments, txBuffers, txUsed,
              semCreated, semCount, pool, others>>

RxSlots == 0 .. NRx - 1
TxSlots == 0 .. NTx - 1

\* XEmacPs_BdRingClone of the cleared template: address 0, NEW clear, WRAP
\* on the last descriptor.
ClonedRxRing == [i \in RxSlots |-> [address |-> NoBuf, new |-> FALSE,
                                    wrap |-> i = NRx - 1]]

\* XEmacPs_BdSetAddressRx: the address bits are replaced, NEW and WRAP kept.
SetAddressRx(d, b) == [d EXCEPT !.address = b]

\* address |= XEMACPS_RXBUF_WRAP_MASK: the WRAP bit is set, the rest kept.
SetWrapRx(d) == [d EXCEPT !.wrap = TRUE]

(* Before the first call some buffers are free and the rest are held by   *)
(* the stack; nothing is in the rings and no semaphore exists.            *)
Init ==
  /\ initPc = "idle" /\ iIndex = 0 /\ calls = 0
  /\ rxBuffers = [i \in RxSlots |-> NoBuf]
  /\ rxSegments = ClonedRxRing
  /\ txBuffers = [i \in TxSlots |-> NoBuf]
  /\ txUsed = [i \in TxSlots |-> TRUE]
  /\ semCreated = FALSE /\ semCount = 0
  /\ pool \in SUBSET Bufs /\ others = Bufs \ pool

(* A call of init_dma: the rings are allocated, created and cloned and the *)
(* semaphore is created with NTx credits if it does not exist yet.         *)
InitStart ==
  /\ calls < MaxCalls
  /\ \/ initPc \in {"idle", "failed"}
     \/ initPc = "done" /\ ReinitAfterRun
  /\ calls' = calls + 1
  /\ rxSegments' = ClonedRxRing
  /\ IF semCreated THEN UNCHANGED <<semCreated, semCount>>
                   ELSE semCreated' = TRUE /\ semCount' = NTx
  /\ iIndex' = 0 /\ initPc' = "loop"
  /\ UNCHANGED <<rxBuffers, txBuffers, txUsed, pool, others>>

\* Mutant: a new buffer is taken for every slot, held or not.
InitReuseAlsoAlloc ==
  /\ initPc = "loop" /\ iIndex < NRx
  /\ rxBuffers[iIndex] # NoBuf
  /\ \E nb \in pool :
       /\ pool' = pool \ {nb}
       /\ rxBuffers' = [rxBuffers EXCEPT ![iIndex] = nb]
       /\ rxSegments' = [rxSegments EXCEPT ![iIndex] =
                           SetAddressRx(@, nb)]
  /\ iIndex' = iIndex + 1
  /\ UNCHANGED <<initPc, calls, txBuffers, txUsed, semCreated, semCount,
                 others>>

\* Mutant: a held buffer is kept but its address is not written again.
InitReuseNoAddress ==
  /\ initPc = "loop" /\ iIndex < NRx
  /\ rxBuffers[iIndex] # NoBuf
  /\ iIndex' = iIndex + 1
  /\ UNCHANGED <<initPc, calls, rxBuffers, rxSegments, txBuffers, txUsed,
                 semCreated, semCount, pool, others>>

(* The slot still holds a buffer from an earlier call: it is posted again. *)
InitReuse ==
  /\ initPc = "loop" /\ iIndex < NRx
  /\ rxBuffers[iIndex] # NoBuf
  /\ rxSegments' = [rxSegments EXCEPT ![iIndex] =
                      SetAddressRx(@, rxBuffers[iIndex])]
  /\ iIndex' = iIndex + 1
  /\ UNCHANGED <<initPc, calls, rxBuffers, txBuffers, txUsed, semCreated,
                 semCount, pool, others>>

(* The slot is empty and a buffer is free: it is taken and posted.        *)
InitAlloc ==
  /\ initPc = "loop" /\ iIndex < NRx
  /\ rxBuffers[iIndex] = NoBuf
  /\ \E nb \in pool :
       /\ pool' = pool \ {nb}
       /\ rxBuffers' = [rxBuffers EXCEPT ![iIndex] = nb]
       /\ rxSegments' = [rxSegments EXCEPT ![iIndex] = SetAddressRx(@, nb)]
  /\ iIndex' = iIndex + 1
  /\ UNCHANGED <<initPc, calls, txBuffers, txUsed, semCreated, semCount,
                 others>>

(* The slot is empty and no buffer is free: init_dma returns -1.          *)
InitAllocFail ==
  /\ initPc = "loop" /\ iIndex < NRx
  /\ rxBuffers[iIndex] = NoBuf /\ pool = {}
  /\ initPc' = "failed"
  /\ UNCHANGED <<iIndex, calls, rxBuffers, rxSegments, txBuffers, txUsed,
                 semCreated, semCount, pool, others>>

(* After the loop: WRAP on the last RX slot, then clean_dma_txdescs (every *)
(* TX descriptor USED, no buffers), then the register set-up, which the    *)
(* model does not follow, and return 0.                                    *)
InitFinish ==
  /\ initPc = "loop" /\ iIndex = NRx
  /\ rxSegments' = [rxSegments EXCEPT ![NRx - 1] = SetWrapRx(@)]
  /\ txBuffers' = [i \in TxSlots |-> NoBuf]
  /\ txUsed' = [i \in TxSlots |-> TRUE]
  /\ initPc' = "done"
  /\ UNCHANGED <<iIndex, calls, rxBuffers, semCreated, semCount, pool, others>>

-----------------------------------------------------------------------------
(* The rest of the system between calls.                                   *)

\* The stack takes a free buffer or releases one it holds.
StackTake(b) ==
  /\ b \in pool
  /\ pool' = pool \ {b} /\ others' = others \cup {b}
  /\ UNCHANGED <<initPc, iIndex, calls, rxBuffers, rxSegments, txBuffers,
                 txUsed, semCreated, semCount>>

StackRelease(b) ==
  /\ b \in others
  /\ others' = others \ {b} /\ pool' = pool \cup {b}
  /\ UNCHANGED <<initPc, iIndex, calls, rxBuffers, rxSegments, txBuffers,
                 txUsed, semCreated, semCount>>

(* After a successful init_dma, emacps_send_message has taken a credit    *)
(* and put a frame in TX slot i (EmacTx follows its steps); the frame is   *)
(* in flight.                                                              *)
TxInFlight(b, i) ==
  /\ initPc = "done" /\ semCount > 0
  /\ b \in others /\ txBuffers[i] = NoBuf
  /\ semCount' = semCount - 1
  /\ others' = others \ {b}
  /\ txBuffers' = [txBuffers EXCEPT ![i] = b]
  /\ txUsed' = [txUsed EXCEPT ![i] = FALSE]
  /\ UNCHANGED <<initPc, iIndex, calls, rxBuffers, rxSegments, semCreated,
                 pool>>

InitNext ==
  \/ InitStart \/ InitReuse \/ InitAlloc \/ InitAllocFail \/ InitFinish
  \/ \E b \in Bufs : StackTake(b) \/ StackRelease(b)
  \/ \E b \in Bufs, i \in TxSlots : TxInFlight(b, i)

InitSpec == Init /\ [][InitNext]_initVars

-----------------------------------------------------------------------------
(* Properties.                                                             *)

InitTypeOK ==
  /\ initPc \in {"idle", "loop", "done", "failed"}
  /\ iIndex \in 0 .. NRx /\ calls \in 0 .. MaxCalls
  /\ rxBuffers \in [RxSlots -> Bufs \cup {NoBuf}]
  /\ rxSegments \in [RxSlots -> [address : Bufs \cup {NoBuf},
                                 new : BOOLEAN, wrap : BOOLEAN]]
  /\ txBuffers \in [TxSlots -> Bufs \cup {NoBuf}]
  /\ txUsed \in [TxSlots -> BOOLEAN]
  /\ semCreated \in BOOLEAN /\ semCount \in 0 .. NTx
  /\ pool \in SUBSET Bufs /\ others \in SUBSET Bufs

(* No buffer is lost or held twice across calls of init_dma, failed ones  *)
(* included: each is free, held by the stack, in one RX slot or in one TX  *)
(* slot.  A call that takes a new buffer for a slot that still holds one,  *)
(* or that forgets a buffer it posted before failing, breaks it.           *)
InitHolders(b) ==
  {<<"rx", i>> : i \in {i \in RxSlots : rxBuffers[i] = b}}
    \cup {<<"tx", i>> : i \in {i \in TxSlots : txBuffers[i] = b}}
    \cup (IF b \in pool THEN {<<"pool">>} ELSE {})
    \cup (IF b \in others THEN {<<"stack">>} ELSE {})

InitNoLeak == \A b \in Bufs : Cardinality(InitHolders(b)) = 1

(* When init_dma returns 0, however many calls failed before it, the      *)
(* rings are as the driver's other functions expect them (the Init of     *)
(* EmacRx and EmacTx, and section 8 of the design): every RX slot holds    *)
(* its own buffer, its descriptor points at it with NEW clear and WRAP on *)
(* the last slot only; every TX descriptor is USED, no TX buffer is held,  *)
(* and the semaphore has a credit for every TX descriptor.                 *)
RingsReady ==
  /\ \A i \in RxSlots :
       /\ rxBuffers[i] # NoBuf
       /\ rxSegments[i] = [address |-> rxBuffers[i], new |-> FALSE,
                           wrap |-> i = NRx - 1]
  /\ \A i, j \in RxSlots : i # j => rxBuffers[i] # rxBuffers[j]
  /\ \A i \in TxSlots : txUsed[i] /\ txBuffers[i] = NoBuf
  /\ semCount = NTx

InitReady == [][initPc = "loop" /\ initPc' = "done" => RingsReady']_initVars

=============================================================================
