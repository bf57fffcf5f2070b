----------------------------- MODULE MCStorage -----------------------------
(* Instances of StorageAdapter for TLC. *)
EXTENDS StorageAdapter, TLC

Interchangeable == Permutations(Owners)
=============================================================================
