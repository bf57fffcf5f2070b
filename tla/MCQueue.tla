------------------------------ MODULE MCQueue ------------------------------
(* Instances of PosixQueue for TLC. *)
EXTENDS PosixQueue
=============================================================================
