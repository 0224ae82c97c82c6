--------------------------- MODULE MCHubValidators ---------------------------
(* Small instances of HubValidators for TLC. *)
EXTENDS HubValidators, TLC

CONSTANTS s1, s2, s3, k1, k2

MCShareds == {s1, s2, s3}
MCOneKey == {k1}
MCTwoKeys == {k1, k2}

SharedSymmetry == Permutations(MCShareds)
===============================================================================
