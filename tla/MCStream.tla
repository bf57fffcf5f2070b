------------------------------ MODULE MCStream ------------------------------
(* Instances of PosixStream for TLC. *)
EXTENDS PosixStream, TLC

CONSTANTS a, b

Short == {<<a>>, <<b, a>>}
Long == {<<a>>, <<a, b, a>>}

Interchangeable == Permutations(Writers) \cup Permutations(Readers)
=============================================================================
