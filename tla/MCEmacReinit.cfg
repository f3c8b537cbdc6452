\* init_dma called again after it succeeded and frames were sent: three RX
\* slots, two TX slots, five buffers, three calls.
CONSTANTS
  n1 = n1
  n2 = n2
  n3 = n3
  n4 = n4
  n5 = n5
  NoBuf = NoBuf
  Bufs <- MCBufs
  NRx = 3
  NTx = 2
  MaxCalls = 3
  ReinitAfterRun = TRUE
SPECIFICATION InitSpec
SYMMETRY MCBufSymmetry
\* The model ends once every buffer sits in a ring and init_dma is not
\* called again; from there EmacRx and EmacTx follow the driver.
CHECK_DEADLOCK FALSE
PROPERTY InitReady
