CONSTANTS
  b1 = b1
  b2 = b2
  b3 = b3
  b4 = b4
  NULL = NULL
  Buffers <- MCBuffers
  MinFrame <- MCMinFrame
  MaxFrame <- MCMaxFrame
  Lengths <- MCLengths
  NTx = 2
  SenderPreempts = TRUE
SPECIFICATION Spec
SYMMETRY MCSymmetry
INVARIANT TxDmaReadsOwned
