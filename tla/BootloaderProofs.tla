-------------------------- MODULE BootloaderProofs --------------------------
(***************************************************************************)
(* The update through the bootloader never strands the node controller,    *)
(* for every size of the firmware and all timeouts.                        *)
(***************************************************************************)
EXTENDS Bootloader, TLAPS

\* A block that is being written belongs to the host's next page, if the host
\* is still there.
BlockNext == pc = "block" /\ host.state = "session" => host.next \in Pages

\* Past main, a mode other than off means that the node controller has power.
ModePowers == pc # "main" /\ blmode # "off" => ncPower

\* Firmware that is not all there is always covered by the mode: nothing writes
\* to flash while the mode is off, and nothing but whole firmware sets it to off.
PartialCovered == ~ Whole => blmode # "off"

\* The host has power while it is up, and is in a session, or has left one in
\* the middle of a page, only under a mode other than off.
HostPowered == host.state # "off" => ncPower
WritingCovered == host.state = "session" \/ pc \in {"erase", "block"} => blmode # "off"

Inv == TypeOK /\ BlockNext /\ ModePowers /\ PartialCovered /\ HostPowered /\ WritingCovered

\* The invariant gives what the README asks for.
LEMMA InvServes == Inv => NodeControllerServed
  BY DEF Inv, ModePowers, PartialCovered, NodeControllerServed

\* The variables have their types at first.
LEMMA InitType == Init => TypeOK
  <1> SUFFICES ASSUME Init PROVE TypeOK
    OBVIOUS
  <1>1. flash \in [Pages -> Content] /\ page \in 0 .. PageCount /\ Timeout \in 0 .. TimeoutPeriod + 1
    BY PageAssumption, TimeoutAssumption DEF Init, Content
  <1>2. ncPower \in BOOLEAN /\ readable \in BOOLEAN
    BY ZenonT(90) DEF Init
  <1>3. host \in Hosts
    BY PageAssumption DEF Init, Hosts
  <1>4. blmode \in Modes /\ pc = "main"
    BY DEF Init, Modes
  <1> QED BY <1>1, <1>2, <1>3, <1>4 DEF TypeOK

\* All pages are of the old firmware at first.
LEMMA InitInv == Init => Inv
  <1> SUFFICES ASSUME Init PROVE Inv
    OBVIOUS
  <1>1. TypeOK
    BY InitType
  <1>2. Whole
    BY DEF Init, Whole
  <1>3. BlockNext /\ ModePowers /\ HostPowered /\ WritingCovered
    BY DEF Init, BlockNext, ModePowers, HostPowered, WritingCovered
  <1> QED BY <1>1, <1>2, <1>3 DEF Inv, PartialCovered

\* What Host makes of a host.
LEMMA HostType ==
    ASSUME host \in Hosts, NEW s \in {"off", "idle", "session"}
    PROVE  /\ Host(s) \in Hosts /\ Host(s).state = s /\ Host(s).next = 0
           /\ [Host(s) EXCEPT !.done = TRUE] \in Hosts
           /\ [Host(s) EXCEPT !.done = TRUE].state = s
  <1>1. 0 \in 0 .. PageCount
    BY PageAssumption
  <1>2. Host(s) \in Hosts
    BY <1>1, ZenonT(90) DEF Host, Hosts
  <1>3. Host(s).state = s /\ Host(s).next = 0
    BY DEF Host, Hosts
  <1>4. [Host(s) EXCEPT !.done = TRUE] \in Hosts
    BY <1>2, ZenonT(90) DEF Hosts
  <1>5. [Host(s) EXCEPT !.done = TRUE].state = s
    BY <1>2, <1>3 DEF Hosts
  <1> QED BY <1>2, <1>3, <1>4, <1>5

\* A step that leaves the pages alone leaves the firmware whole or not.
LEMMA WholeKept == flash' = flash => (Whole' <=> Whole)
  BY DEF Whole
-----------------------------------------------------------------------------
(* the bootloader *)

\* main switches the node controller on if the mode says so.
LEMMA MainInv == Inv /\ Main => Inv'
  <1> SUFFICES ASSUME Inv, Main PROVE Inv'
    OBVIOUS
  <1>1. UNCHANGED <<flash, blmode, page, readable, host>> /\ pc' = "wait" /\ Timeout' = 0
    BY DEF Main
  <1>2. ncPower' \in BOOLEAN /\ (ncPower => ncPower') /\ (blmode # "off" => ncPower')
    BY ZenonT(90) DEF Main
  <1>3. TypeOK'
    BY <1>1, <1>2, TimeoutAssumption DEF Inv, TypeOK
  <1>4. PartialCovered'
    BY <1>1, WholeKept DEF Inv, PartialCovered
  <1>5. BlockNext' /\ ModePowers' /\ HostPowered' /\ WritingCovered'
    BY <1>1, <1>2 DEF Inv, BlockNext, ModePowers, HostPowered, WritingCovered
  <1> QED BY <1>3, <1>4, <1>5 DEF Inv

\* Steps that change nothing but the timer, the place in the program, and if
\* the section is readable.
LEMMA QuietInv ==
    ASSUME Inv, UNCHANGED <<flash, blmode, ncPower, host>>,
           Timeout' \in 0 .. TimeoutPeriod + 1, page' \in 0 .. PageCount,
           readable' \in BOOLEAN,
           \/ pc' = pc /\ page' = page
           \/ pc' \in {"wait", "sketch"} /\ pc # "main"
           \/ pc' = "erase" /\ pc = "wait" /\ page' \in Pages /\ host.state = "session"
    PROVE  Inv'
  <1>1. TypeOK'
    BY DEF Inv, TypeOK
  <1>2. PartialCovered'
    BY WholeKept DEF Inv, PartialCovered
  <1>3. BlockNext'
    BY DEF Inv, BlockNext
  <1>4. ModePowers' /\ HostPowered' /\ WritingCovered'
    BY DEF Inv, ModePowers, HostPowered, WritingCovered
  <1> QED BY <1>1, <1>2, <1>3, <1>4 DEF Inv

\* Steps of a session or an erase that write to flash, under a mode that is not
\* off.
LEMMA WriteInv ==
    ASSUME Inv, UNCHANGED <<blmode, ncPower>>, blmode # "off", pc # "main",
           flash' \in [Pages -> Content], page' \in 0 .. PageCount,
           Timeout' \in 0 .. TimeoutPeriod + 1, readable' \in BOOLEAN,
           host' \in Hosts, host'.state = host.state,
           \/ pc' = "wait"
           \/ pc' = "erase" /\ page' \in Pages
           \/ pc' = "block" /\ page' \in Pages /\ host'.next \in Pages
    PROVE  Inv'
  <1>1. TypeOK'
    BY DEF Inv, TypeOK
  <1>2. BlockNext'
    BY DEF BlockNext
  <1>3. PartialCovered'
    BY DEF PartialCovered
  <1>4. ModePowers' /\ HostPowered' /\ WritingCovered'
    BY DEF Inv, ModePowers, HostPowered, WritingCovered
  <1> QED BY <1>1, <1>2, <1>3, <1>4 DEF Inv

\* The timer, the start of the sketch, the erase command and the comparison of
\* what was written.
LEMMA QuietSteps == Inv /\ (TimerInterrupt \/ StartSketch \/ ChipErase \/ ReadBlock) => Inv'
  <1> SUFFICES ASSUME Inv, TimerInterrupt \/ StartSketch \/ ChipErase \/ ReadBlock PROVE Inv'
    OBVIOUS
  <1>t. Timeout \in 0 .. TimeoutPeriod + 1 /\ page \in 0 .. PageCount /\ readable \in BOOLEAN
    BY DEF Inv, TypeOK
  <1>1. CASE TimerInterrupt
    <2>1. UNCHANGED <<flash, blmode, ncPower, host, readable, pc, page>>
      BY <1>1 DEF TimerInterrupt
    <2>2. Timeout' \in 0 .. TimeoutPeriod + 1
      BY <1>1, <1>t, TimeoutAssumption DEF TimerInterrupt
    <2> QED BY <2>1, <2>2, <1>t, QuietInv
  <1>2. CASE StartSketch
    <2>1. /\ UNCHANGED <<flash, blmode, ncPower, host, readable, page, Timeout>>
          /\ pc' = "sketch" /\ pc = "wait"
      BY <1>2 DEF StartSketch
    <2> QED BY <2>1, <1>t, QuietInv
  <1>3. CASE ChipErase
    <2>1. /\ UNCHANGED <<flash, blmode, ncPower, host, readable, Timeout>>
          /\ pc' = "erase" /\ pc = "wait" /\ page' = 0 /\ host.state = "session"
      BY <1>3 DEF ChipErase
    <2>2. page' \in 0 .. PageCount /\ page' \in Pages
      BY <2>1, PageAssumption DEF Pages
    <2> QED BY <2>1, <2>2, <1>t, QuietInv
  <1>4. CASE ReadBlock
    <2>1. UNCHANGED <<flash, blmode, ncPower, host, pc, page>> /\ Timeout' = 0
      BY <1>4 DEF ReadBlock
    <2>2. Timeout' \in 0 .. TimeoutPeriod + 1
      BY <2>1, TimeoutAssumption
    <2>3. readable' \in BOOLEAN
      BY <1>4, ZenonT(90) DEF ReadBlock
    <2> QED BY <2>1, <2>2, <2>3, <1>t, QuietInv
  <1> QED BY <1>1, <1>2, <1>3, <1>4

\* A page is erased.
LEMMA ErasePageInv == Inv /\ ErasePage => Inv'
  <1> SUFFICES ASSUME Inv, ErasePage PROVE Inv'
    OBVIOUS
  <1>1. /\ UNCHANGED <<blmode, ncPower, Timeout, host>> /\ pc = "erase"
        /\ flash' = [flash EXCEPT ![page] = "blank"] /\ page' = page + 1
        /\ pc' = IF page' = PageCount THEN "wait" ELSE "erase"
    BY DEF ErasePage
  <1>2. page \in Pages /\ blmode # "off" /\ host \in Hosts /\ Timeout \in 0 .. TimeoutPeriod + 1
    BY <1>1 DEF Inv, TypeOK, WritingCovered
  <1>3. page' \in 0 .. PageCount /\ (page' # PageCount => page' \in Pages)
    BY <1>1, <1>2, PageAssumption DEF Pages
  <1>4. flash' \in [Pages -> Content]
    BY <1>1 DEF Inv, TypeOK, Content
  <1>5. readable' \in BOOLEAN
    BY ZenonT(90) DEF ErasePage
  <1> QED BY <1>1, <1>2, <1>3, <1>4, <1>5, WriteInv

\* A page is erased to be written.
LEMMA BeginBlockInv == Inv /\ BeginBlock => Inv'
  <1> SUFFICES ASSUME Inv, BeginBlock PROVE Inv'
    OBVIOUS
  <1>1. /\ UNCHANGED <<blmode, ncPower, host>> /\ pc = "wait" /\ pc' = "block"
        /\ page' = host.next /\ host.next < PageCount /\ host.state = "session"
        /\ flash' = [flash EXCEPT ![page'] = "blank"] /\ Timeout' = 0
    BY DEF BeginBlock
  <1>2. host \in Hosts /\ blmode # "off"
    BY <1>1 DEF Inv, TypeOK, WritingCovered
  <1>3. page' \in Pages /\ page' \in 0 .. PageCount /\ host'.next \in Pages
    BY <1>1, <1>2, PageAssumption DEF Pages, Hosts
  <1>4. flash' \in [Pages -> Content]
    BY <1>1, ZenonT(90) DEF Inv, TypeOK, Content
  <1>6. Timeout' \in 0 .. TimeoutPeriod + 1
    BY <1>1, TimeoutAssumption
  <1>5. readable' \in BOOLEAN
    BY ZenonT(90) DEF BeginBlock
  <1> QED BY <1>1, <1>2, <1>3, <1>4, <1>5, <1>6, WriteInv

\* A page is written, by the host or with zeros.
LEMMA EndBlockInv == Inv /\ (EndBlock \/ EndBlockUnattached) => Inv'
  <1> SUFFICES ASSUME Inv, EndBlock \/ EndBlockUnattached PROVE Inv'
    OBVIOUS
  <1>1. /\ UNCHANGED <<blmode, ncPower, Timeout, readable>> /\ pc = "block"
        /\ page' = page + 1 /\ pc' = "wait"
        /\ \E c \in {"new", "junk"} : flash' = [flash EXCEPT ![page] = c]
    BY DEF EndBlock, EndBlockUnattached
  <1>2. /\ page \in Pages /\ blmode # "off" /\ host \in Hosts
        /\ Timeout \in 0 .. TimeoutPeriod + 1 /\ readable \in BOOLEAN
    BY <1>1 DEF Inv, TypeOK, WritingCovered
  <1>3. page' \in 0 .. PageCount
    BY <1>1, <1>2, PageAssumption DEF Pages
  <1>4. flash' \in [Pages -> Content]
    BY <1>1 DEF Inv, TypeOK, Content
  <1>5. host' \in Hosts /\ host'.state = host.state
    <2>1. CASE EndBlock
      <3>1. host.state = "session" /\ host' = [host EXCEPT !.next = @ + 1]
        BY <2>1 DEF EndBlock
      <3>2. host.next \in Pages
        BY <1>1, <3>1 DEF Inv, BlockNext
      <3>3. host.next + 1 \in 0 .. PageCount
        BY <3>2, PageAssumption DEF Pages
      <3> QED BY <1>2, <3>1, <3>3 DEF Hosts
    <2>2. CASE EndBlockUnattached
      BY <1>2, <2>2 DEF EndBlockUnattached
    <2> QED BY <2>1, <2>2
  <1> QED BY <1>1, <1>2, <1>3, <1>4, <1>5, WriteInv
-----------------------------------------------------------------------------
(* the firmware, the node controller and the power *)

\* Steps that change nothing but the host, which has or needs no power, and may
\* begin a session from main under a mode that is not off.
LEMMA HostInv ==
    ASSUME Inv, UNCHANGED <<flash, blmode, ncPower>>,
           Timeout' \in 0 .. TimeoutPeriod + 1, page' \in 0 .. PageCount,
           readable' \in BOOLEAN,
           host' \in Hosts, host'.state = "off" \/ ncPower,
           host'.state = "session" => pc' = "main" /\ blmode # "off",
           pc' = "main" \/ (pc' = pc /\ page' = page)
    PROVE  Inv'
  <1>1. TypeOK'
    BY DEF Inv, TypeOK
  <1>2. PartialCovered'
    BY WholeKept DEF Inv, PartialCovered
  <1>3. BlockNext'
    BY DEF BlockNext
  <1>4. ModePowers' /\ HostPowered'
    BY DEF Inv, ModePowers, HostPowered
  <1>5. WritingCovered'
    BY DEF Inv, WritingCovered
  <1> QED BY <1>1, <1>2, <1>3, <1>4, <1>5 DEF Inv

\* The node controller boots when it has power, fails or dies, and only begins
\* a session when the mode is set.
LEMMA HostSteps == Inv /\ (HostBoots \/ HostBeginsSession \/ HostFails \/ HostDies) => Inv'
  <1> SUFFICES ASSUME Inv, HostBoots \/ HostBeginsSession \/ HostFails \/ HostDies PROVE Inv'
    OBVIOUS
  <1>t. /\ Timeout \in 0 .. TimeoutPeriod + 1 /\ page \in 0 .. PageCount
        /\ readable \in BOOLEAN /\ host \in Hosts
    BY DEF Inv, TypeOK
  <1>p. host.state # "off" => ncPower
    BY DEF Inv, HostPowered
  <1>1. CASE HostBoots
    <2>1. /\ UNCHANGED <<flash, blmode, ncPower, pc, page, Timeout, readable>>
          /\ host' = Host("idle") /\ ncPower
      BY <1>1 DEF HostBoots
    <2>2. host' \in Hosts /\ host'.state = "idle"
      BY <1>t, <2>1, HostType
    <2> QED BY <1>t, <2>1, <2>2, HostInv
  <1>2. CASE HostBeginsSession
    <2>1. /\ UNCHANGED <<flash, blmode, ncPower, Timeout>> /\ pc' = "main" /\ page' = 0
          /\ host' = Host("session") /\ host.state = "idle" /\ blmode # "off"
      BY <1>2 DEF HostBeginsSession
    <2>2. host' \in Hosts /\ host'.state = "session"
      BY <1>t, <2>1, HostType
    <2>3. readable' \in BOOLEAN
      BY <1>2, ZenonT(90) DEF HostBeginsSession
    <2>4. page' \in 0 .. PageCount
      BY <2>1, PageAssumption
    <2> QED BY <1>t, <1>p, <2>1, <2>2, <2>3, <2>4, HostInv
  <1>3. CASE HostFails
    <2>1. /\ UNCHANGED <<flash, blmode, ncPower, pc, page, Timeout, readable>>
          /\ host' = Host("idle") /\ host.state = "session"
      BY <1>3 DEF HostFails
    <2>2. host' \in Hosts /\ host'.state = "idle"
      BY <1>t, <2>1, HostType
    <2> QED BY <1>t, <1>p, <2>1, <2>2, HostInv
  <1>4. CASE HostDies
    <2>1. PICK s \in {"idle", "off"} : host' = Host(s)
      BY <1>4 DEF HostDies
    <2>2. /\ UNCHANGED <<flash, blmode, ncPower, pc, page, Timeout, readable>>
          /\ host.state = "session"
      BY <1>4 DEF HostDies
    <2>3. host' \in Hosts /\ host'.state = s
      BY <1>t, <2>1, HostType
    <2> QED BY <1>t, <1>p, <2>2, <2>3, HostInv
  <1> QED BY <1>1, <1>2, <1>3, <1>4

\* 'E' ends a session with success.
LEMMA LeaveProgrammingInv == Inv /\ LeaveProgramming => Inv'
  <1> SUFFICES ASSUME Inv, LeaveProgramming PROVE Inv'
    OBVIOUS
  <1>1. /\ UNCHANGED <<flash, blmode, ncPower, pc, page>> /\ Timeout' = EndTimeout
        /\ host' = [Host("idle") EXCEPT !.done = TRUE] /\ host.state = "session"
    BY DEF LeaveProgramming
  <1>2. host \in Hosts /\ page \in 0 .. PageCount /\ ncPower
    BY <1>1 DEF Inv, TypeOK, HostPowered
  <1>3. host' \in Hosts /\ host'.state = "idle"
    BY <1>1, <1>2, HostType
  <1>4. Timeout' \in 0 .. TimeoutPeriod + 1
    BY <1>1, TimeoutAssumption
  <1>5. readable' \in BOOLEAN
    BY ZenonT(90) DEF LeaveProgramming
  <1> QED BY <1>1, <1>2, <1>3, <1>4, <1>5, HostInv

\* The whole firmware starts the node controller.
LEMMA SketchStartsInv == Inv /\ SketchStartsNC => Inv'
  <1> SUFFICES ASSUME Inv, SketchStartsNC PROVE Inv'
    OBVIOUS
  <1>1. UNCHANGED <<flash, blmode, pc, page, Timeout, readable, host>>
    BY DEF SketchStartsNC
  <1>2. ncPower' = TRUE
    BY DEF SketchStartsNC
  <1>3. ncPower' \in BOOLEAN /\ ncPower'
    BY <1>2, ZenonT(90)
  <1>4. TypeOK'
    BY <1>1, <1>3 DEF Inv, TypeOK
  <1>5. PartialCovered'
    BY <1>1, WholeKept DEF Inv, PartialCovered
  <1>6. BlockNext' /\ ModePowers' /\ HostPowered' /\ WritingCovered'
    BY <1>1, <1>3 DEF Inv, BlockNext, ModePowers, HostPowered, WritingCovered
  <1> QED BY <1>4, <1>5, <1>6 DEF Inv

\* The whole firmware sets the mode as an idle host, which has power, asks.
LEMMA SetModeInv == Inv /\ (HostAsksForPower \/ HostEndsUpdate) => Inv'
  <1> SUFFICES ASSUME Inv, HostAsksForPower \/ HostEndsUpdate PROVE Inv'
    OBVIOUS
  <1>1. PICK mode \in Modes : SketchSetsMode(mode) /\ host.state = "idle"
    BY DEF HostAsksForPower, HostEndsUpdate, Modes
  <1>2. /\ UNCHANGED <<flash, ncPower, pc, page, Timeout, readable, host>>
        /\ blmode' = mode /\ pc = "sketch" /\ Whole /\ host.state = "idle"
    BY <1>1 DEF SketchSetsMode
  <1>3. ncPower
    BY <1>2 DEF Inv, HostPowered
  <1>4. TypeOK'
    BY <1>2 DEF Inv, TypeOK
  <1>5. PartialCovered'
    BY <1>2, WholeKept DEF PartialCovered
  <1>6. BlockNext' /\ ModePowers' /\ HostPowered' /\ WritingCovered'
    BY <1>2, <1>3 DEF BlockNext, ModePowers, HostPowered, WritingCovered
  <1> QED BY <1>4, <1>5, <1>6 DEF Inv

\* A power failure: the mode in EEPROM outlives it, and it only spoils a page
\* under a mode that is not off.
LEMMA PowerFailureInv == Inv /\ PowerFailure => Inv'
  <1> SUFFICES ASSUME Inv, PowerFailure PROVE Inv'
    OBVIOUS
  <1>1. /\ pc' = "main" /\ page' = 0 /\ Timeout' = 0 /\ blmode' = blmode
        /\ host' = Host("off")
    BY DEF PowerFailure
  <1>2. host' \in Hosts /\ host'.state = "off"
    BY <1>1, HostType DEF Inv, TypeOK
  <1>3. flash' = flash \/ (/\ pc \in {"block", "erase"}
                           /\ \E c \in {flash[page], "blank", "junk"} :
                                 flash' = [flash EXCEPT ![page] = c])
    BY DEF PowerFailure
  <1>4. flash' \in [Pages -> Content]
    BY <1>3 DEF Inv, TypeOK, Content
  <1>5. readable' \in BOOLEAN /\ ncPower' \in BOOLEAN
    BY ZenonT(90) DEF PowerFailure
  <1>6. page' \in 0 .. PageCount /\ Timeout' \in 0 .. TimeoutPeriod + 1
    BY <1>1, PageAssumption, TimeoutAssumption
  <1>7. TypeOK'
    BY <1>1, <1>2, <1>4, <1>5, <1>6 DEF Inv, TypeOK
  <1>8. PartialCovered'
    <2>1. CASE flash' = flash
      BY <1>1, <2>1, WholeKept DEF Inv, PartialCovered
    <2>2. CASE pc \in {"block", "erase"}
      BY <1>1, <2>2 DEF Inv, WritingCovered, PartialCovered
    <2> QED BY <1>3, <2>1, <2>2
  <1>9. BlockNext' /\ ModePowers' /\ HostPowered' /\ WritingCovered'
    BY <1>1, <1>2 DEF BlockNext, ModePowers, HostPowered, WritingCovered
  <1> QED BY <1>7, <1>8, <1>9 DEF Inv

\* Every step keeps the invariant.
LEMMA NextInv == Inv /\ [Next]_vars => Inv'
  <1> SUFFICES ASSUME Inv, [Next]_vars PROVE Inv'
    OBVIOUS
  <1>1. CASE Program
    BY <1>1, MainInv, QuietSteps, ErasePageInv, EndBlockInv, SketchStartsInv DEF Program
  <1>2. CASE TimerInterrupt \/ ChipErase
    BY <1>2, QuietSteps
  <1>3. CASE Session
    BY <1>3, BeginBlockInv, QuietSteps, LeaveProgrammingInv DEF Session
  <1>4. CASE Update
    BY <1>4, HostSteps, SetModeInv DEF Update
  <1>5. CASE HostDies
    BY <1>5, HostSteps
  <1>6. CASE PowerFailure
    BY <1>6, PowerFailureInv
  <1>7. CASE UNCHANGED vars
    BY <1>7 DEF vars, Inv, TypeOK, BlockNext, ModePowers, PartialCovered, HostPowered,
                WritingCovered, Whole
  <1> QED BY <1>1, <1>2, <1>3, <1>4, <1>5, <1>6, <1>7 DEF Next

\* Every variable of the bootloader and of the update keeps its type; the pages
\* that CDC_Task erases and writes are pages of the application section.
THEOREM TypeCorrect == Spec => []TypeOK
  <1>1. Inv => TypeOK
    BY DEF Inv
  <1> QED BY InitInv, NextInv, <1>1, PTL DEF Spec

\* Wherever power failures and failures of the host cut the update, the node
\* controller has power whenever the bootloader waits, or runs what it has,
\* without the whole firmware (main and TURN_ON_NC).
THEOREM ServedCorrect == Spec => []NodeControllerServed
  <1> QED BY InitInv, NextInv, InvServes, PTL DEF Spec
=============================================================================
