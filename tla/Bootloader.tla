----------------------------- MODULE Bootloader -----------------------------
(***************************************************************************)
(* The bootloader of the version 3 board (Caterina.c) and the firmware     *)
(* update that the node controller carries out through it.                 *)
(*                                                                         *)
(* The node controller writes the new firmware page by page over USB; it   *)
(* is itself powered by the board that it updates.  A power failure in the *)
(* middle leaves a board without its firmware and a node controller        *)
(* without power, so the bootloader switches the node controller on if a   *)
(* byte in EEPROM says so.                                                 *)
(*                                                                         *)
(* The bootloader runs CDC_Task and a timer interrupt.  The node           *)
(* controller (avrdude, and the procedure of bootloader/README.md around   *)
(* it) is external and is modelled by the commands it sends.  The unit of  *)
(* data is a page; page 0 has the reset vector.                            *)
(***************************************************************************)
EXTENDS Integers

CONSTANTS
    PageCount,        \* pages of the application section
    TimeoutPeriod,    \* TIMEOUT_PERIOD, 8000 ms
    EndTimeout,       \* TIMEOUT_PERIOD - 500
    Faults            \* what goes wrong: "power", "host"

Pages == 0 .. PageCount - 1

ASSUME PageAssumption == PageCount \in Nat \ {0}
ASSUME TimeoutAssumption == TimeoutPeriod \in Nat /\ EndTimeout \in 0 .. TimeoutPeriod
ASSUME UpdateFaultAssumption == Faults \subseteq {"power", "host"}

VARIABLES
    flash,          \* the content of each page
    blmode,         \* EEPROM 0x40
    ncPower,        \* the latching relay of the node controller
    pc,             \* what the processor does
    page,           \* CurrAddress
    Timeout,
    readable,       \* the application section is enabled for reading
    host            \* the node controller: is it up, is it in a session with
                    \* the bootloader, which page is next; has a session ended
                    \* with success

vars == <<flash, blmode, ncPower, pc, page, Timeout, readable, host>>

Content == {"old", "new", "blank", "junk"}
Modes == {"off", "sd", "emmc"}
Hosts == [state : {"off", "idle", "session"}, next : 0 .. PageCount, done : BOOLEAN]

TypeOK ==
    /\ flash \in [Pages -> Content]
    /\ blmode \in Modes
    /\ ncPower \in BOOLEAN
    /\ pc \in {"main", "wait", "erase", "block", "sketch"}
    /\ page \in 0 .. PageCount
    /\ pc \in {"erase", "block"} => page \in Pages
    /\ Timeout \in 0 .. TimeoutPeriod + 1
    /\ readable \in BOOLEAN
    /\ host \in Hosts

\* all pages come from the same firmware
Whole == \E c \in {"old", "new"} : \A p \in Pages : flash[p] = c
Updated == \A p \in Pages : flash[p] = "new"

Host(state) == [host EXCEPT !.state = state, !.next = 0]
-----------------------------------------------------------------------------
(* the bootloader *)

Init ==
    /\ flash = [p \in Pages |-> "old"]
    /\ blmode = "off"
    /\ ncPower = FALSE
    /\ pc = "main"
    /\ page = 0
    /\ Timeout = 0
    /\ readable = TRUE
    /\ host = [state |-> "off", next |-> 0, done |-> FALSE]

\* Mutant of Main: the node controller is switched on for one of the media only
MainForgets ==
    /\ pc = "main"
    /\ ncPower' = (ncPower \/ blmode = "sd")
    /\ Timeout' = 0
    /\ pc' = "wait"
    /\ UNCHANGED <<flash, blmode, page, readable, host>>

\* main, up to its loop.  TURN_ON_NC has no effect if it is on.
Main ==
    /\ pc = "main"
    /\ ncPower' = (ncPower \/ blmode # "off")
    /\ Timeout' = 0
    /\ pc' = "wait"
    /\ UNCHANGED <<flash, blmode, page, readable, host>>

\* ISR(TIMER1_COMPA_vect); it is off while a block is read or written.  The
\* first word of a section that is not readable is anything.  A host that
\* keeps up its session sends the next command before the time is over.
TimerInterrupt ==
    /\ pc \in {"wait", "erase"}
    /\ readable => flash[0] # "blank"
    /\ Timeout <= TimeoutPeriod
    /\ host.state = "session" /\ pc = "wait" => Timeout < TimeoutPeriod
    /\ Timeout' = Timeout + 1
    /\ UNCHANGED <<flash, blmode, ncPower, pc, page, readable, host>>

\* "Time out and start the sketch if one is present"
StartSketch ==
    /\ pc = "wait" /\ Timeout > TimeoutPeriod
    /\ pc' = "sketch"
    /\ UNCHANGED <<flash, blmode, ncPower, page, Timeout, readable, host>>

\* CDC_Task, 'e': all pages are erased, and the timer runs on
ChipErase ==
    /\ pc = "wait" /\ host.state = "session" /\ host.next = 0
    /\ pc' = "erase" /\ page' = 0
    /\ UNCHANGED <<flash, blmode, ncPower, Timeout, readable, host>>

\* Mutant of ErasePage: the loop ends one page later
ErasePagePastEnd ==
    /\ pc = "erase"
    /\ flash' = [flash EXCEPT ![page] = "blank"]
    /\ readable' = FALSE
    /\ page' = page + 1
    /\ pc' = IF page = PageCount THEN "wait" ELSE "erase"
    /\ UNCHANGED <<blmode, ncPower, Timeout, host>>

ErasePage ==
    /\ pc = "erase"
    /\ flash' = [flash EXCEPT ![page] = "blank"]
    /\ readable' = FALSE
    /\ page' = page + 1
    /\ pc' = IF page' = PageCount THEN "wait" ELSE "erase"
    /\ UNCHANGED <<blmode, ncPower, Timeout, host>>

\* CDC_Task, 'A' and 'B', and ReadWriteMemoryBlock up to the first byte of data
BeginBlock ==
    /\ pc = "wait" /\ host.state = "session" /\ host.next < PageCount
    /\ Timeout' = 0
    /\ page' = host.next
    /\ flash' = [flash EXCEPT ![page'] = "blank"]
    /\ readable' = FALSE
    /\ pc' = "block"
    /\ UNCHANGED <<blmode, ncPower, host>>

\* the rest of ReadWriteMemoryBlock, with the bytes of the host
EndBlock ==
    /\ pc = "block" /\ host.state = "session"
    /\ flash' = [flash EXCEPT ![page] = "new"]
    /\ host' = [host EXCEPT !.next = @ + 1]
    /\ page' = page + 1
    /\ pc' = "wait"
    /\ UNCHANGED <<blmode, ncPower, Timeout, readable>>

\* FetchNextCommandByte returns zeros when the host has gone and waits, with
\* no time limit, when it is only silent.
EndBlockUnattached ==
    /\ pc = "block" /\ host.state = "off"
    /\ flash' = [flash EXCEPT ![page] = "junk"]
    /\ page' = page + 1
    /\ pc' = "wait"
    /\ UNCHANGED <<blmode, ncPower, Timeout, readable, host>>

\* 'g', by which the host compares what it has written
ReadBlock ==
    /\ pc = "wait" /\ host.state = "session" /\ host.next = PageCount
    /\ ~ readable
    /\ Timeout' = 0
    /\ readable' = TRUE
    /\ UNCHANGED <<flash, blmode, ncPower, pc, page, host>>

\* Mutant of LeaveProgramming: the section is left as it is
LeaveProgrammingUnreadable ==
    /\ pc = "wait" /\ host.state = "session" /\ host.next = PageCount
    /\ Timeout' = EndTimeout
    /\ readable' = readable
    /\ host' = [Host("idle") EXCEPT !.done = TRUE]
    /\ UNCHANGED <<flash, blmode, ncPower, pc, page>>

\* 'E', the end of the session; the section is made readable for hosts that do
\* not compare
LeaveProgramming ==
    /\ pc = "wait" /\ host.state = "session" /\ host.next = PageCount
    /\ Timeout' = EndTimeout
    /\ readable' = TRUE
    /\ host' = [Host("idle") EXCEPT !.done = TRUE]
    /\ UNCHANGED <<flash, blmode, ncPower, pc, page>>
-----------------------------------------------------------------------------
(* The firmware, where it is all there.  What a part of it does is not      *)
(* known; it is taken not to write to EEPROM or to the relays.              *)

\* startNextDevice: the node controller is the first to be started
SketchStartsNC ==
    /\ pc = "sketch" /\ Whole /\ ~ ncPower
    /\ ncPower' = TRUE
    /\ UNCHANGED <<flash, blmode, pc, page, Timeout, readable, host>>

\* commandBLFlag
SketchSetsMode(mode) ==
    /\ pc = "sketch" /\ Whole
    /\ blmode' = mode
    /\ UNCHANGED <<flash, ncPower, pc, page, Timeout, readable, host>>
-----------------------------------------------------------------------------
(* the node controller *)

HostBoots ==
    /\ host.state = "off" /\ ncPower
    /\ host' = Host("idle")
    /\ UNCHANGED <<flash, blmode, ncPower, pc, page, Timeout, readable>>

\* steps 1 and 6 of the procedure
HostAsksForPower ==
    /\ host.state = "idle" /\ ~ host.done /\ blmode = "off"
    /\ \E mode \in Modes \ {"off"} : SketchSetsMode(mode)

HostEndsUpdate ==
    /\ host.state = "idle" /\ host.done /\ blmode # "off"
    /\ SketchSetsMode("off")

\* steps 2 and 3, after step 1: the board is reset, by the port or by its reset
\* line, and avrdude is started.  program-wagman.sh takes these two steps only,
\* and sets no mode: its caller has to have taken step 1.
HostBeginsSession ==
    /\ host.state = "idle" /\ ~ host.done /\ blmode # "off"
    /\ host' = Host("session")
    /\ pc' = "main"
    /\ page' = 0
    /\ readable' = TRUE
    /\ UNCHANGED <<flash, blmode, ncPower, Timeout>>

\* the sketch was started in the middle of the session
HostFails ==
    /\ host.state = "session" /\ pc = "sketch"
    /\ host' = Host("idle")
    /\ UNCHANGED <<flash, blmode, ncPower, pc, page, Timeout, readable>>

\* avrdude dies, is slow, or the node controller restarts
HostDies ==
    /\ "host" \in Faults
    /\ host.state = "session"
    /\ \E state \in {"idle", "off"} : host' = Host(state)
    /\ UNCHANGED <<flash, blmode, ncPower, pc, page, Timeout, readable>>

\* the page that is being written is lost; so is the latch of the relay
PowerFailure ==
    /\ "power" \in Faults
    /\ flash' \in IF pc \in {"block", "erase"}
                  THEN {[flash EXCEPT ![page] = c] : c \in {flash[page], "blank", "junk"}}
                  ELSE {flash}
    /\ ncPower' = FALSE
    /\ host' = Host("off")
    /\ pc' = "main"
    /\ page' = 0
    /\ Timeout' = 0
    /\ readable' = TRUE
    /\ UNCHANGED blmode
-----------------------------------------------------------------------------
Program ==
    \/ Main \/ StartSketch \/ ErasePage \/ EndBlock \/ EndBlockUnattached
    \/ SketchStartsNC
Session == BeginBlock \/ ReadBlock \/ LeaveProgramming
Update == HostBoots \/ HostAsksForPower \/ HostBeginsSession \/ HostFails \/ HostEndsUpdate

Next ==
    \/ Program \/ TimerInterrupt \/ Session \/ ChipErase \/ Update
    \/ HostDies \/ PowerFailure

Spec == Init /\ [][Next]_vars

\* The processor and its timer do not stop; a node controller that has power
\* boots, and one that is up carries on with the update, from the beginning if
\* it must.
FairSpec ==
    /\ Spec
    /\ WF_vars(Program)
    /\ WF_vars(TimerInterrupt /\ readable)
    /\ WF_vars(Session)
    /\ WF_vars(Update)
-----------------------------------------------------------------------------
(* Properties *)

\* The dead node of the README ("restricted to only the bootloader state and
\* Node-controller that is permanently turned off") does not occur: when the
\* firmware is not all there and the bootloader waits or has given up waiting,
\* the node controller has power, wherever power failures have cut the update.
\* This rests on the update having begun with step 1 of the README; a bare call
\* of program-wagman.sh does not give it.
NodeControllerServed == pc \in {"wait", "sketch"} /\ ~ Whole => ncPower

\* The update ends, with the new firmware running and the bootloader's mode
\* reset, once power failures and failures of the host have come to an end,
\* from whatever they have left in flash.  (An erase of the chip does not stop
\* the timer, so that a session with one may be cut off every time; the script
\* program-wagman.sh does without.)
UpdateEnds ==
    <>[][~ PowerFailure /\ ~ HostDies /\ ~ ChipErase]_vars =>
        <>[](Updated /\ pc = "sketch" /\ blmode = "off" /\ ncPower)

\* "WagMan has no firmware beyond a working bootloader (until the new firmware
\* is completely committed to the memory)": what is started is all there.
OnlyWholeSketchRuns == pc = "sketch" => Whole
=============================================================================
