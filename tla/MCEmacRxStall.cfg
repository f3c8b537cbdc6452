\* Recovery from the RX-path stall under fairness of the EMAC task, the RX
\* interrupt, the IP task and the periodic probe: three slots, four
\* buffers, three frames, two stalls, so that a stall can begin with the
\* remembered count zero and with it not zero.
CONSTANTS
  r1 = r1
  r2 = r2
  r3 = r3
  r4 = r4
  r5 = r5
  NoBuf = NoBuf
  RxBufs <- MCRxBufs4
  Kinds <- MCKinds
  AcceptedKinds <- MCAcceptedKinds
  NRx = 3
  MaxFrames = 3
  QueueLen = 1
  MaxStalls = 2
SPECIFICATION RxFairSpec
\* Once the bounded supply of frames and stalls is consumed the driver
\* waits for the wire: the model stops where the system idles.
CHECK_DEADLOCK FALSE
PROPERTY RxStallRecovered
