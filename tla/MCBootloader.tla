---------------------------- MODULE MCBootloader ----------------------------
(***************************************************************************)
(* Instances of Bootloader for model checking.                             *)
(***************************************************************************)
EXTENDS Bootloader
=============================================================================
