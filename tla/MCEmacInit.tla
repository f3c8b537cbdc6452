------------------------------ MODULE MCEmacInit ------------------------------
(* Instances of EmacInit for TLC.                                          *)
EXTENDS EmacInitInv, TLC

CONSTANTS n1, n2, n3, n4, n5

MCBufs == {n1, n2, n3, n4, n5}

MCBufSymmetry == Permutations(MCBufs)
=============================================================================
