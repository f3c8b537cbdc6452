\* Safety of the receive path: three slots, five buffers (two spare), seven
\* frames of both verdicts, room for one batch in the IP task's queue.
CONSTANTS
  r1 = r1
  r2 = r2
  r3 = r3
  r4 = r4
  r5 = r5
  NoBuf = NoBuf
  RxBufs <- MCRxBufs
  Kinds <- MCKinds
  AcceptedKinds <- MCAcceptedKinds
  NRx = 3
  MaxFrames = 7
  QueueLen = 1
  MaxStalls = 0
SPECIFICATION RxSpec
SYMMETRY MCRxSymmetry
\* Once the bounded supply of frames is consumed the driver waits for the
\* wire: the model stops where the system idles.
CHECK_DEADLOCK FALSE
INVARIANT RxTypeOK
INVARIANT RxBufferOwnership
INVARIANT RxDescriptorsMatch
INVARIANT RxDeliveredInOrder
