---------------------------- MODULE MCWorkqueue ----------------------------
(* Instances of PosixWorkqueue for TLC: every item may go to every queue. *)
EXTENDS PosixWorkqueue

AllTargets == [w \in Works |-> Queues]
=============================================================================
