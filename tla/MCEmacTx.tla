------------------------------ MODULE MCEmacTx ------------------------------
(* Small instances of EmacTx for TLC.                                      *)
EXTENDS EmacTxInv, EmacTxRefinement, TLC

CONSTANTS b1, b2, b3, b4

MCBuffers == {b1, b2, b3}
MCBuffers4 == {b1, b2, b3, b4}

\* sizeof( struct xARP_PACKET ) is 42; with ipBUFFER_PADDING of 14 the
\* largest frame is 1536 - 14.  Both boundaries and one step past each.
MCMinFrame == 42
MCMaxFrame == 1522
MCLengths == {MCMinFrame - 1, MCMinFrame, MCMaxFrame, MCMaxFrame + 1}

MCSymmetry == Permutations(MCBuffers)
MCSymmetry4 == Permutations(MCBuffers4)
=============================================================================
