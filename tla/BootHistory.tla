---------------------------- MODULE BootHistory ----------------------------
(***************************************************************************)
(* What the boot log of a port promises to its readers: a bounded list of  *)
(* boot times, oldest first.  A new boot time goes to the end and, once    *)
(* the list is full, pushes the oldest one out.                            *)
(*                                                                         *)
(* The list lives in EEPROM and recording a boot takes several writes, so  *)
(* the promise has one exception, stated here instead of hidden: while a   *)
(* full list is being extended, and after a reset in the middle of that,   *)
(* the oldest entry may read as something else.  No other entry may.       *)
(***************************************************************************)
EXTENDS Naturals, Sequences

CONSTANTS
    Capacity,   \* how many boot times the list holds
    Words       \* what four bytes of EEPROM can read as

VARIABLE log

Init == log = << >>

Record(time) ==
    log' = Append(IF Len(log) = Capacity THEN Tail(log) ELSE log, time)

SpoilOldest(word) ==
    /\ Len(log) = Capacity
    /\ log' = [log EXCEPT ![1] = word]

Erase == log' = << >>

Next ==
    \/ \E word \in Words : Record(word) \/ SpoilOldest(word)
    \/ Erase

Spec == Init /\ [][Next]_log
=============================================================================
