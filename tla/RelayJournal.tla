---------------------------- MODULE RelayJournal ----------------------------
(***************************************************************************)
(* What the power manager promises of its relays and their journal,        *)
(* without the program that keeps the promise: a relay is switched only    *)
(* between the two entries that announce and confirm it, one relay at a    *)
(* time, and the confirming entry says how the relay is.  A reset can come *)
(* anywhere; it takes the power, and leaves the journal.                   *)
(*                                                                         *)
(* Latched relays are the exception: a reset may leave them on, something  *)
(* else than the journal's keeper switches them too, and so nothing ties   *)
(* their entries to their power but that there is one open entry at most.  *)
(***************************************************************************)
CONSTANTS
    Ports,
    Latched         \* ports whose relay is a latch

VARIABLES
    powered,        \* the ports that are on
    record          \* the journal: is a port "on", "off", or being switched, "open"

Init ==
    /\ powered = {}
    /\ record = [p \in Ports |-> "off"]

\* a relay operation is announced, when no other is under way
Open(p) ==
    /\ \A q \in Ports : record[q] # "open"
    /\ record' = [record EXCEPT ![p] = "open"]
    /\ UNCHANGED powered

Switch(p) ==
    /\ record[p] = "open" \/ p \in Latched
    /\ powered' \in {powered \union {p}, powered \ {p}}
    /\ UNCHANGED record

\* the operation is confirmed, or given up after a reset
Close(p) ==
    /\ record[p] = "open"
    /\ \E entry \in {"on", "off"} :
          /\ p \notin Latched => (entry = "on" <=> p \in powered)
          /\ record' = [record EXCEPT ![p] = entry]
    /\ UNCHANGED powered

Reset ==
    /\ powered' \in SUBSET (powered \intersect Latched)
    /\ UNCHANGED record

\* the journal is written anew, with nothing on that it could miss
Clear ==
    /\ powered \subseteq Latched
    /\ record' = [p \in Ports |-> "off"]
    /\ UNCHANGED powered

Next ==
    \/ \E p \in Ports : Open(p) \/ Switch(p) \/ Close(p)
    \/ Reset
    \/ Clear

Spec == Init /\ [][Next]_<<powered, record>>
=============================================================================
