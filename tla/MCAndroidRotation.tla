------------------------- MODULE MCAndroidRotation --------------------------
(* Instance of AndroidRotation for TLC.                                    *)
EXTENDS AndroidRotationProofs, TLC

CONSTANTS k2, k3

MCHistoryPeers == <<"primary", "readback">>

Symmetry ==
  Permutations(Sessions) \cup Permutations(Publications)
    \cup Permutations(Logins) \cup Permutations({k2, k3})
=============================================================================
