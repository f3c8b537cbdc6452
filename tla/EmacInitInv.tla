---------------------------- MODULE EmacInitInv ----------------------------
(***************************************************************************)
(* The inductive invariant behind InitNoLeak and InitReady when init_dma   *)
(* is called again only after it failed.                                   *)
(***************************************************************************)
EXTENDS EmacInit

\* Every buffer is free, held by the stack or in a ring slot, and in one of
\* these places only.
Partition ==
  /\ pool \cap others = {}
  /\ \A i \in RxSlots : rxBuffers[i] # NoBuf =>
        /\ rxBuffers[i] \notin pool \cup others
        /\ \A j \in RxSlots : j # i => rxBuffers[j] # rxBuffers[i]
        /\ \A j \in TxSlots : txBuffers[j] # rxBuffers[i]
  /\ \A i \in TxSlots : txBuffers[i] # NoBuf =>
        /\ txBuffers[i] \notin pool \cup others
        /\ \A j \in TxSlots : j # i => txBuffers[j] # txBuffers[i]
  /\ \A b \in Bufs :
        \/ b \in pool \/ b \in others
        \/ \E i \in RxSlots : rxBuffers[i] = b
        \/ \E i \in TxSlots : txBuffers[i] = b

\* Until a call succeeds, the TX side is as clean_dma_txdescs left it and
\* the semaphore, once created, holds all its credits; inside a call the
\* slots behind the loop index are posted and the ones ahead are as cloned.
BeforeDone ==
  initPc # "done" =>
    /\ \A j \in TxSlots : txBuffers[j] = NoBuf
    /\ semCreated => semCount = NTx

InLoop ==
  initPc = "loop" =>
    /\ semCreated
    /\ \A i \in RxSlots :
          /\ ~rxSegments[i].new
          /\ rxSegments[i].wrap <=> i = NRx - 1
          /\ i < iIndex => rxBuffers[i] # NoBuf /\ rxSegments[i].address = rxBuffers[i]
          /\ i >= iIndex => rxSegments[i].address = NoBuf

InitIInv == InitTypeOK /\ Partition /\ BeforeDone /\ InLoop

=============================================================================
