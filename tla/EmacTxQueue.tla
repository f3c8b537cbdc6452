----------------------------- MODULE EmacTxQueue -----------------------------
(***************************************************************************)
(* What the TX path of the driver promises the IP stack, with the ring,    *)
(* the semaphore and the DMA pointer abstracted away.  A buffer the stack  *)
(* passes to emacps_send_message is held by the driver, then either        *)
(* dropped back to the pool or queued for the wire; the wire sends the     *)
(* queue in order, each frame once; a sent frame's buffer goes back to the *)
(* pool.  At most Capacity frames are queued or sent and not yet released. *)
(***************************************************************************)
EXTENDS Naturals, Sequences, FiniteSets

CONSTANTS
  Buffers,   \* the network buffers
  Capacity   \* the number of descriptors

VARIABLES
  pool,   \* free buffers
  stack,  \* buffers the IP stack holds
  held,   \* the buffer emacps_send_message holds before it is queued
  queue,  \* the frames queued for the wire, oldest first
  sent    \* the frames sent whose buffers are not yet released

qvars == <<pool, stack, held, queue, sent>>

QInit ==
  /\ pool = Buffers /\ stack = {} /\ held = {}
  /\ queue = <<>> /\ sent = {}

\* The stack takes a free buffer to build a frame in.
Alloc(b) ==
  /\ b \in pool
  /\ pool' = pool \ {b} /\ stack' = stack \cup {b}
  /\ UNCHANGED <<held, queue, sent>>

\* The stack hands a frame to the driver, which has at most one at a time.
Submit(b) ==
  /\ b \in stack /\ held = {}
  /\ stack' = stack \ {b} /\ held' = {b}
  /\ UNCHANGED <<pool, queue, sent>>

\* The driver refuses a frame outright (its length is wrong).
Reject(b) ==
  /\ b \in stack
  /\ stack' = stack \ {b} /\ pool' = pool \cup {b}
  /\ UNCHANGED <<held, queue, sent>>

\* The driver gives up on the frame it holds (no descriptor came in time).
Drop ==
  /\ held # {}
  /\ pool' = pool \cup held /\ held' = {}
  /\ UNCHANGED <<stack, queue, sent>>

\* The held frame joins the end of the queue, if there is room for it.
Enqueue ==
  /\ held # {}
  /\ Len(queue) + Cardinality(sent) < Capacity
  /\ queue' = Append(queue, CHOOSE b \in held : TRUE)
  /\ held' = {}
  /\ UNCHANGED <<pool, stack, sent>>

\* The oldest queued frame goes out on the wire.
Transmit ==
  /\ queue # <<>>
  /\ sent' = sent \cup {Head(queue)}
  /\ queue' = Tail(queue)
  /\ UNCHANGED <<pool, stack, held>>

\* The buffer of a sent frame is released.
Release(b) ==
  /\ b \in sent
  /\ sent' = sent \ {b} /\ pool' = pool \cup {b}
  /\ UNCHANGED <<stack, held, queue>>

QNext ==
  \/ \E b \in Buffers : Alloc(b) \/ Submit(b) \/ Reject(b) \/ Release(b)
  \/ Drop \/ Enqueue \/ Transmit

QSpec == QInit /\ [][QNext]_qvars

=============================================================================
