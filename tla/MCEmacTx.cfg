CONSTANTS
  b1 = b1
  b2 = b2
  b3 = b3
  b4 = b4
  NULL = NULL
  Buffers <- MCBuffers4
  MinFrame <- MCMinFrame
  MaxFrame <- MCMaxFrame
  Lengths <- MCLengths
  NTx = 3
  SenderPreempts = FALSE
SPECIFICATION Spec
SYMMETRY MCSymmetry4
INVARIANT TypeOK
INVARIANT TxDmaReadsOwned
INVARIANT TxBufferOwnership
INVARIANT TxCreditsMatch
PROPERTY TxQueueSpec
