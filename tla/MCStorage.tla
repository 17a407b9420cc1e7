------------------------------ MODULE MCStorage ------------------------------
(* The Python container file on small instances: three distinguishable     *)
(* containers, so that old, new and a still older content differ.          *)
EXTENDS ContainerStorageProofs, TLC

=============================================================================
