---------------------------- MODULE MCBoardBoot ----------------------------
(***************************************************************************)
(* Instances of BoardBoot for model checking.                              *)
(***************************************************************************)
EXTENDS BoardBoot

=============================================================================
