-------------------------- MODULE MCPowerManager4 --------------------------
(***************************************************************************)
(* Instances of PowerManager4 for model checking.                          *)
(***************************************************************************)
EXTENDS PowerManager4
=============================================================================
