---------------------------- MODULE MCEventGroup ----------------------------
(* Instances of PosixEventGroup for TLC. *)
EXTENDS PosixEventGroup, TLC

AllMasks == SUBSET Bits

Interchangeable == Permutations(Callers) \cup Permutations(Bits)
=============================================================================
