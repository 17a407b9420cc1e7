-------------------------- MODULE MCAndroidStorage --------------------------
(* The Android container file on small instances; sessions are alike and   *)
(* so are importing processes.                                             *)
EXTENDS AndroidStorageProofs, TLC

Interchangeable == Permutations(Sessions) \cup Permutations(Importers)

=============================================================================
