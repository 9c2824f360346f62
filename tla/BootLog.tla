------------------------------ MODULE BootLog ------------------------------
(***************************************************************************)
(* The boot log of one port (Record::BootLog): a ring buffer of boot times *)
(* in EEPROM, with a start byte, a count byte and Capacity four-byte       *)
(* slots.  Device::start calls addEntry once per boot.                     *)
(*                                                                         *)
(* One action per EEPROM write, because the board may lose power or be     *)
(* reset by its watchdog between any two writes, and in the middle of the  *)
(* four bytes of one slot.  Whatever is in EEPROM survives; the call that  *)
(* was running does not.                                                   *)
(***************************************************************************)
EXTENDS Naturals, Sequences

CONSTANTS
    Capacity,   \* BootLog::capacity
    ByteSize,   \* number of values of a byte, 256 on the board
    Times,      \* boot times
    Torn        \* what a slot reads as when some of its bytes are still old

ASSUME CapacityAssumption == Capacity \in Nat \ {0}
\* start is a byte that only grows, so it wraps: the capacity divides 256
ASSUME ByteSizeAssumption ==
    /\ ByteSize \in Nat
    /\ \E k \in 2 .. ByteSize : ByteSize = Capacity * k
ASSUME TornAssumption == Torn \notin Times

Words == Times \union {Torn}
Slots == 0 .. Capacity - 1

VARIABLES
    start,      \* getStart(): the byte at address + 0
    count,      \* getCount(): the byte at address + 1
    slots,      \* the words at address + 2 + 4 * index
    pc,         \* the EEPROM write that the running call makes next
    time        \* the argument of the running addEntry

vars == <<start, count, slots, pc, time>>

TypeOK ==
    /\ start \in 0 .. ByteSize - 1
    /\ count \in 0 .. Capacity
    /\ slots \in [Slots -> Words]
    /\ pc \in {"idle", "put", "rest", "commit", "setStart", "setCount"}
    /\ time \in Times
-----------------------------------------------------------------------------
\* Record::init has just run on a board with arbitrary words in its EEPROM.
Init ==
    /\ start = 0
    /\ count = 0
    /\ slots \in [Slots -> {Torn}]
    /\ pc = "idle"
    /\ time \in Times

\* Mutant of AddIndex: right until the log has been full once.
AddIndexIgnoresStart == count % Capacity

\* addEntry: byte index = (start + count) % capacity
AddIndex == (start + count) % Capacity

\* getEntry(i) for i < count; it answers 0 for the others
GetEntry(i) == slots[(start + i) % Capacity]

AddEntry(t) ==
    /\ pc = "idle"
    /\ pc' = "put"
    /\ time' = t
    /\ UNCHANGED <<start, count, slots>>

\* EEPROM.put writes the slot byte by byte: the first bytes ...
PutFirstBytes ==
    /\ pc = "put"
    /\ pc' = "rest"
    /\ slots' = [slots EXCEPT ![AddIndex] = Torn]
    /\ UNCHANGED <<start, count, time>>

\* ... and the last one.
PutLastByte ==
    /\ pc = "rest"
    /\ pc' = "commit"
    /\ slots' = [slots EXCEPT ![AddIndex] = time]
    /\ UNCHANGED <<start, count, time>>

\* Mutant of Commit: the count grows past the capacity.
CommitUnbounded ==
    /\ pc = "commit"
    /\ pc' = "idle"
    /\ count' = count + 1
    /\ UNCHANGED <<start, slots, time>>

\* "if there's no more space, overwrite the oldest entry"
Commit ==
    /\ pc = "commit"
    /\ pc' = "idle"
    /\ IF count = Capacity
       THEN start' = (start + 1) % ByteSize /\ UNCHANGED count
       ELSE count' = count + 1 /\ UNCHANGED start
    /\ UNCHANGED <<slots, time>>

(***************************************************************************)
(* BootLog::init, two writes.  It is called from Record::init only, at a   *)
(* boot that finds no magic number; the magic number is written last, so a *)
(* reset in the middle of BootLog::init runs it again from the start.      *)
(***************************************************************************)
BeginInit ==
    /\ pc = "idle"
    /\ pc' = "setStart"
    /\ UNCHANGED <<start, count, slots, time>>

InitSetStart ==
    /\ pc = "setStart"
    /\ start' = 0
    /\ pc' = "setCount"
    /\ UNCHANGED <<count, slots, time>>

InitSetCount ==
    /\ pc = "setCount"
    /\ count' = 0
    /\ pc' = "idle"
    /\ UNCHANGED <<start, slots, time>>

Reset ==
    /\ pc # "idle"
    /\ pc' = IF pc \in {"setStart", "setCount"} THEN "setStart" ELSE "idle"
    /\ UNCHANGED <<start, count, slots, time>>

Next ==
    \/ \E t \in Times : AddEntry(t)
    \/ PutFirstBytes \/ PutLastByte \/ Commit
    \/ BeginInit \/ InitSetStart \/ InitSetCount
    \/ Reset

Spec == Init /\ [][Next]_vars
-----------------------------------------------------------------------------
\* The list that getCount and getEntry show.  Nothing reads the log while
\* Record::init is erasing it.
Shown ==
    IF pc \in {"setStart", "setCount"} THEN << >>
    ELSE [i \in 1 .. count |-> GetEntry(i - 1)]

History == INSTANCE BootHistory WITH log <- Shown

(***************************************************************************)
(* The ring buffer behaves as the bounded list of BootHistory: whatever    *)
(* the interleaving of addEntry's EEPROM writes with resets, and however   *)
(* often the start byte wraps, readers see boot times in the order they    *)
(* were recorded, a recorded boot pushes out the oldest one only, and an   *)
(* interrupted addEntry can change nothing but the oldest entry of a full  *)
(* log.                                                                    *)
(***************************************************************************)
ImplementsHistory == History!Spec
=============================================================================
