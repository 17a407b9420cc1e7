----------------------------- MODULE MCRotation -----------------------------
(* Owner-key rotation on small instances.  Publication objects are alike,  *)
(* and so are the keys the CSRNG has yet to return.                        *)
EXTENDS OwnerKeyRotationProofs, TLC

Interchangeable ==
  Permutations(Publications) \cup Permutations(Keys \ {FirstKey})

=============================================================================
