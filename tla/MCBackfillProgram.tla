------------------------- MODULE MCBackfillProgram -------------------------
(* Small instances of the on-chain program for TLC. *)
EXTENDS BackfillProgram, TLC

CONSTANTS a1, a2, s1, s2, o1, o2

MCAuthority == {a1, a2}
MCSigner == {s1, s2}
MCOrderKey == {o1, o2}
MCMarket == {"Btc", "Eth"}
MCPrice == {1, 2}

\* Oracle owners, enclave keys and order keys are interchangeable.
MCSymmetry ==
  Permutations(MCAuthority) \cup Permutations(MCSigner) \cup Permutations(MCOrderKey)
=============================================================================
