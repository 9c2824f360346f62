----------------------------- MODULE BoardBoot -----------------------------
(***************************************************************************)
(* The power manager together with the sensor test that setup() runs after *)
(* a power fault.  The two meet in the saved cause of the last reset, 0x41:*)
(* it decides if the test is run, and it decides if a device whose relay   *)
(* was being switched is disabled.  A test that hangs ends in a watchdog   *)
(* reset, which overwrites it.                                             *)
(*                                                                         *)
(* Two kinds of faulty hardware are part of the board: sensors that never  *)
(* answer, and devices that take down the supply whenever they are         *)
(* switched on.                                                            *)
(***************************************************************************)
EXTENDS PowerManager, SelfTest

CONSTANTS
    Hanging,        \* sensors that never answer
    Killers         \* ports whose devices take down the supply

ASSUME FaultyAssumption == Hanging \subseteq Sensors /\ Killers \subseteq Ports

boardVars == <<vars, testVars>>

\* where setup() calls checkSensors
Testing == pc = "setup" /\ magic /\ PowerFault /\ ~ TestDone

Hung == Testing /\ reading /\ sensor \in Hanging

\* the relay of a killer has closed
SupplyFails == pc = "turnedOn" /\ target \in Killers

BoardInit == Init /\ TestInit

TestSensors == Testing /\ Test(Hanging) /\ UNCHANGED vars

\* A step of the power manager, with what it means for the test: Record::init
\* clears the record of the sensors, a reset starts anew.
Manage(step) ==
    /\ ~ Testing /\ ~ SupplyFails
    /\ step
    /\ IF pc' = "bootloader" THEN Interrupt
       ELSE IF pc = "setup" /\ ~ magic THEN ClearHealth
       ELSE UNCHANGED testVars

BoardReset(cause) == Reset(cause) /\ Interrupt

\* the watchdog ends a test that hangs
WatchdogReset == Hung /\ BoardReset("watchdog")

SupplyReset == SupplyFails /\ BoardReset("power")

\* a reset that neither a sensor nor a device on the board has caused; it may
\* come before the watchdog while a test hangs
FaultReset ==
    /\ ~ SupplyFails
    /\ \E cause \in Faults : ~ (Hung /\ cause = "watchdog") /\ BoardReset(cause)

BoardProgram == TestSensors \/ Manage(Program) \/ WatchdogReset \/ SupplyReset

BoardNext ==
    \/ BoardProgram
    \/ Manage(Command)
    \/ Manage(TimeUnitEnds)
    \/ FaultReset

BoardSpec == BoardInit /\ [][BoardNext]_boardVars

FairBoardSpec ==
    /\ BoardSpec
    /\ WF_boardVars(BoardProgram)
    /\ SF_boardVars(Manage(EndPass(TRUE)))
-----------------------------------------------------------------------------
\* "Plausible that power off was caused by toggling this relay": on a board
\* that loses its power to killers only, the ports that the recovery treats as
\* the cause of it are killers.  Brown-outs and the watchdog may reset the board
\* in the middle of any other switch, of the recovery and of the sensor test,
\* and leave journal entries of their own.
BlamesKillers ==
    "power" \notin Faults /\ bootflags = "power" => suspects \subseteq Killers

\* "Plausible that power off was caused by toggling this relay": a device that
\* takes the supply down whenever it is switched on ends disabled, although
\* each boot after it runs the sensor test, a sensor that hangs there has the
\* cause of the reset overwritten before the recovery sees it, and the device
\* is then started again.  It is the bound on the faults of a sensor that ends
\* this, not the recovery.  (Stated for a board whose other resets end: each of
\* them can overwrite the cause as well.)
KillersDisabled ==
    <>[][~ FaultReset]_boardVars => \A p \in Killers \ {NC} : <>[] ~ enabled[p]
=============================================================================
