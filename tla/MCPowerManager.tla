--------------------------- MODULE MCPowerManager ---------------------------
(***************************************************************************)
(* Instances of PowerManager for model checking.                           *)
(***************************************************************************)
EXTENDS PowerManager
=============================================================================
