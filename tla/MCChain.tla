------------------------------ MODULE MCChain ------------------------------
(* Two owner keys and two cosigners.  Two signer sets can govern; one is   *)
(* too small and one lists a key thrice.  The owner keys are alike, and so *)
(* are the cosigners with their IDs.                                       *)
EXTENDS IdentityChainProofs, TLC

CONSTANTS owner, left, right, k1, k2, s0, s1, s2

Set(k) == owner :> k @@ left :> s1 @@ right :> s2

Proposals ==
  {Set(k1), Set(k2), left :> s1 @@ right :> s2, owner :> s0 @@ left :> s0 @@ right :> s0}

SwapOwners == k1 :> k2 @@ k2 :> k1
SwapCosigners == left :> right @@ right :> left @@ s1 :> s2 @@ s2 :> s1
Same ==
  [x \in {owner, left, right, k1, k2, s0, s1, s2} |-> x]

Interchangeable ==
  {SwapOwners @@ Same, SwapCosigners @@ Same, SwapOwners @@ SwapCosigners @@ Same}

=============================================================================
