------------------------------ MODULE MCThread ------------------------------
(* PosixThread for TLC: two controllers with the same rights. *)
EXTENDS PosixThread
=============================================================================
