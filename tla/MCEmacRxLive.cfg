\* Liveness of the receive path under fairness of the RX interrupt, the
\* EMAC task and the IP task: three slots, four buffers, four frames.
CONSTANTS
  r1 = r1
  r2 = r2
  r3 = r3
  r4 = r4
  r5 = r5
  NoBuf = NoBuf
  RxBufs <- MCRxBufs4
  Kinds <- MCKinds
  AcceptedKinds <- MCAcceptedKinds
  NRx = 3
  MaxFrames = 4
  QueueLen = 1
  MaxStalls = 0
SPECIFICATION RxFairSpec
\* Once the bounded supply of frames is consumed the driver waits for the
\* wire: the model stops where the system idles.
CHECK_DEADLOCK FALSE
PROPERTY RxEventuallyHandled
