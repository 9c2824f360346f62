---------------------------- MODULE MCHeartbeat ----------------------------
(***************************************************************************)
(* Instances of Heartbeat for model checking.                              *)
(***************************************************************************)
EXTENDS Heartbeat
=============================================================================
