---------------------------- MODULE MCSubmission ----------------------------
(* Small instances of IdentitySubmission; replay nonces are alike.         *)
EXTENDS IdentitySubmissionProofs, TLC

Interchangeable == Permutations(Nonces)

=============================================================================
