------------------------------ MODULE MCPower ------------------------------
(* Instances of PowerManager for TLC. *)
EXTENDS PowerManager, TLC

CONSTANTS IdleAfter, StandbyAfter, DeepAfter

Thresholds == (IDLE :> IdleAfter) @@ (STANDBY :> StandbyAfter) @@ (DEEP_SLEEP :> DeepAfter)
=============================================================================
