------------------------------- MODULE MCEmacRx -------------------------------
(* Instances of EmacRx for TLC. *)
EXTENDS EmacRxInv, TLC

CONSTANTS r1, r2, r3, r4, r5

MCRxBufs == {r1, r2, r3, r4, r5}

MCRxBufs4 == {r1, r2, r3, r4}

MCKinds == {"accepted", "refused"}

MCAcceptedKinds == {"accepted"}

MCRxSymmetry == Permutations(MCRxBufs)
=============================================================================
