----------------------------- MODULE MCBootLog -----------------------------
(***************************************************************************)
(* TLC instance of BootLog: three slots and bytes of six values, so that   *)
(* the log fills, slots are reused and the start byte wraps.               *)
(***************************************************************************)
EXTENDS BootLog

=============================================================================
