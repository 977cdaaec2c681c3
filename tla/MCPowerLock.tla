------------------------------ MODULE MCPowerLock ------------------------------
(* The power lock for TLC; its constants are numbers. *)
EXTENDS PowerLock
=============================================================================
