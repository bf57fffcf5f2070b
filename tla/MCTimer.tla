------------------------------ MODULE MCTimer ------------------------------
(* Instances of PosixTimer for TLC. *)
EXTENDS PosixTimer
=============================================================================
