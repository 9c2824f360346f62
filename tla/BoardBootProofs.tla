-------------------------- MODULE BoardBootProofs --------------------------
(***************************************************************************)
(* The sensor test: its record of faults is exact and bounded, for every   *)
(* number of sensors, attempts and faults, alone and as a part of the      *)
(* board.  The power manager: what holds of it alone holds on the board,   *)
(* and the recovery blames the devices that take down the supply.          *)
(***************************************************************************)
EXTENDS BoardBoot, PowerManagerDisableProofs, TLAPS

\* A sensor that is being read, or read again, has a fault to spare.  This is
\* what makes the bound inductive: the health is looked at once, and up to
\* Attempts readings of the sensor rely on it.
Spared ==
    reading \/ attempt > 0 => sensor \in Sensors /\ interrupted[sensor] < MaxFaults

TestInv == TestTypeOK /\ HealthCounts /\ FaultsBounded /\ Spared

\* Nothing is recorded or interrupted at first.
LEMMA TestInitInv == TestInit => TestInv
  <1> SUFFICES ASSUME TestInit PROVE TestInv
    OBVIOUS
  <1> USE SensorAssumption, FaultsFit DEF TestInit
  <1>1. TestTypeOK
    <2>1. /\ health \in [Sensors -> 0 .. ByteSize - 1] /\ sensor \in 0 .. SensorCount
           /\ attempt \in 0 .. Attempts - 1 /\ interrupted \in [Sensors -> Nat]
      BY DEF TestTypeOK
    <2>2. reading \in BOOLEAN
      BY ZenonT(90) DEF TestInit
    <2> QED BY <2>1, <2>2 DEF TestTypeOK
  <1>2. HealthCounts /\ FaultsBounded
    BY DEF HealthCounts, FaultsBounded
  <1>3. Spared
    BY DEF Spared
  <1> QED BY <1>1, <1>2, <1>3 DEF TestInv

\* A sensor with too many faults is passed over.
LEMMA SkipSensorInv == TestInv /\ SkipSensor => TestInv'
  <1> SUFFICES ASSUME TestInv, SkipSensor PROVE TestInv'
    OBVIOUS
  <1> USE SensorAssumption, FaultsFit DEF TestInv, SkipSensor, NextSensor
  <1>1. TestTypeOK'
    BY DEF TestTypeOK
  <1>2. HealthCounts' /\ FaultsBounded'
    BY DEF HealthCounts, FaultsBounded
  <1>3. Spared'
    BY DEF Spared
  <1> QED BY <1>1, <1>2, <1>3

\* The increment does not wrap, since the health is below MaxFaults.
LEMMA BeginReadingInv == TestInv /\ BeginReading => TestInv'
  <1> SUFFICES ASSUME TestInv, BeginReading PROVE TestInv'
    OBVIOUS
  <1> USE SensorAssumption, FaultsFit
  <1>1. sensor \in Sensors /\ ~ reading /\ attempt \in Nat
    BY DEF TestInv, TestTypeOK, BeginReading, Sensors
  <1>2. health[sensor] = interrupted[sensor] /\ interrupted[sensor] \in Nat
    BY <1>1 DEF TestInv, TestTypeOK, HealthCounts
  <1>3. health[sensor] < MaxFaults
    <2>1. CASE attempt = 0
      BY <2>1 DEF BeginReading
    <2>2. CASE attempt > 0
      BY <1>2, <2>2 DEF TestInv, Spared
    <2> QED BY <1>1, <2>1, <2>2
  <1>4. (health[sensor] + 1) % ByteSize = health[sensor] + 1
    BY <1>2, <1>3
  <1>5. health' = [health EXCEPT ![sensor] = health[sensor] + 1]
    BY <1>4, ZenonT(90) DEF BeginReading
  <1>6. TestTypeOK'
    BY <1>1, <1>2, <1>3, <1>5 DEF TestInv, TestTypeOK, BeginReading
  <1>7. HealthCounts'
    BY <1>1, <1>2, <1>5 DEF TestInv, TestTypeOK, HealthCounts, BeginReading
  <1>8. FaultsBounded' /\ Spared'
    BY <1>1, <1>2, <1>3 DEF TestInv, FaultsBounded, Spared, BeginReading
  <1> QED BY <1>6, <1>7, <1>8 DEF TestInv

\* The decrement takes back the increment of the same reading.
LEMMA EndReadingInv ==
    ASSUME TestInv, NEW inRange \in BOOLEAN, EndReading(inRange)
    PROVE  TestInv'
  <1> USE SensorAssumption, FaultsFit
  <1>1. sensor \in Sensors /\ reading /\ sensor \in Nat /\ sensor < SensorCount
    BY DEF TestInv, Spared, EndReading, Sensors
  <1>2. /\ health[sensor] = interrupted[sensor] + 1
        /\ interrupted[sensor] \in Nat /\ interrupted[sensor] < MaxFaults
    BY <1>1 DEF TestInv, TestTypeOK, HealthCounts, Spared
  <1>3. (health[sensor] + ByteSize - 1) % ByteSize = interrupted[sensor]
    BY <1>2
  <1>4. health' = [health EXCEPT ![sensor] = interrupted[sensor]]
    BY <1>3, ZenonT(90) DEF EndReading
  <1>5. \/ sensor' = sensor + 1 /\ attempt' = 0
        \/ sensor' = sensor /\ attempt' = attempt + 1 /\ attempt # Attempts - 1
    BY DEF EndReading, NextSensor
  <1>6. reading' = FALSE /\ interrupted' = interrupted
    BY DEF EndReading
  <1>7. TestTypeOK'
    <2>1. /\ health' \in [Sensors -> 0 .. ByteSize - 1] /\ sensor' \in 0 .. SensorCount
           /\ attempt' \in 0 .. Attempts - 1 /\ interrupted' \in [Sensors -> Nat]
      BY <1>1, <1>2, <1>4, <1>5, <1>6 DEF TestInv, TestTypeOK
    <2>2. reading' \in BOOLEAN
      BY <1>6, ZenonT(90)
    <2> QED BY <2>1, <2>2 DEF TestTypeOK
  <1>8. HealthCounts'
    BY <1>1, <1>2, <1>4, <1>6 DEF TestInv, TestTypeOK, HealthCounts
  <1>9. FaultsBounded' /\ Spared'
    BY <1>1, <1>2, <1>5, <1>6 DEF TestInv, FaultsBounded, Spared
  <1> QED BY <1>7, <1>8, <1>9 DEF TestInv

\* A reset turns the extra one of a reading into a fault.
LEMMA InterruptInv == TestInv /\ Interrupt => TestInv'
  <1> SUFFICES ASSUME TestInv, Interrupt PROVE TestInv'
    OBVIOUS
  <1> USE SensorAssumption, FaultsFit
  <1>1. sensor' = 0 /\ attempt' = 0 /\ reading' = FALSE /\ health' = health
    BY DEF Interrupt
  <1>2. CASE reading
    <2>1. sensor \in Sensors /\ interrupted[sensor] < MaxFaults
      BY <1>2 DEF TestInv, Spared
    <2>2. interrupted' = [interrupted EXCEPT ![sensor] = @ + 1]
      BY <1>2 DEF Interrupt
    <2>3. TestTypeOK'
      <3>1. /\ health' \in [Sensors -> 0 .. ByteSize - 1] /\ sensor' \in 0 .. SensorCount
             /\ attempt' \in 0 .. Attempts - 1 /\ interrupted' \in [Sensors -> Nat]
        BY <1>1, <2>1, <2>2 DEF TestInv, TestTypeOK
      <3>2. reading' \in BOOLEAN
        BY <1>1, ZenonT(90)
      <3> QED BY <3>1, <3>2 DEF TestTypeOK
    <2>4. HealthCounts'
      BY <1>1, <1>2, <2>1, <2>2 DEF TestInv, TestTypeOK, HealthCounts
    <2>5. FaultsBounded' /\ Spared'
      BY <1>1, <2>1, <2>2 DEF TestInv, TestTypeOK, FaultsBounded, Spared
    <2> QED BY <2>3, <2>4, <2>5 DEF TestInv
  <1>3. CASE ~ reading
    <2>1. interrupted' = interrupted
      BY <1>3 DEF Interrupt
    <2>2. TestTypeOK'
      <3>1. /\ health' \in [Sensors -> 0 .. ByteSize - 1] /\ sensor' \in 0 .. SensorCount
             /\ attempt' \in 0 .. Attempts - 1 /\ interrupted' \in [Sensors -> Nat]
        BY <1>1, <2>1 DEF TestInv, TestTypeOK
      <3>2. reading' \in BOOLEAN
        BY <1>1, ZenonT(90)
      <3> QED BY <3>1, <3>2 DEF TestTypeOK
    <2>3. HealthCounts'
      BY <1>1, <1>3, <2>1 DEF TestInv, HealthCounts
    <2>4. FaultsBounded' /\ Spared'
      BY <1>1, <2>1 DEF TestInv, FaultsBounded, Spared
    <2> QED BY <2>2, <2>3, <2>4 DEF TestInv
  <1> QED BY <1>2, <1>3

\* Record::init forgets the faults.
LEMMA ClearHealthInv == TestInv /\ ClearHealth => TestInv'
  <1> SUFFICES ASSUME TestInv, ClearHealth PROVE TestInv'
    OBVIOUS
  <1> USE SensorAssumption, FaultsFit DEF TestInv, ClearHealth, testRam
  <1>1. TestTypeOK'
    BY DEF TestTypeOK
  <1>2. HealthCounts' /\ FaultsBounded'
    BY DEF HealthCounts, FaultsBounded
  <1>3. Spared'
    BY DEF Spared, TestTypeOK
  <1> QED BY <1>1, <1>2, <1>3

\* Every step of the test keeps the invariant, whichever sensors hang.
LEMMA TestStepInv == ASSUME NEW hanging, TestInv, Test(hanging) PROVE TestInv'
  <1>1. CASE SkipSensor
    BY <1>1, SkipSensorInv
  <1>2. CASE BeginReading
    BY <1>2, BeginReadingInv
  <1>3. CASE \E inRange \in BOOLEAN : EndReading(inRange)
    BY <1>3, EndReadingInv
  <1> QED BY <1>1, <1>2, <1>3 DEF Test

\* A step that leaves the test alone keeps the invariant.
LEMMA TestStutterInv == TestInv /\ UNCHANGED testVars => TestInv'
  BY DEF TestInv, TestTypeOK, HealthCounts, FaultsBounded, Spared, testVars, testRam

\* The test by itself: the health of a sensor counts its interrupted readings
\* (setPortCurrentSensorHealth before and after getCurrent), and there are never
\* more of them than the limit that checkCurrentSensors looks at.
THEOREM TestCorrect == TestSpec => [](HealthCounts /\ FaultsBounded)
  <1>1. TestInv /\ [TestNext]_testVars => TestInv'
    <2> SUFFICES ASSUME TestInv, [TestNext]_testVars PROVE TestInv'
      OBVIOUS
    <2>1. CASE Test({})
      BY <2>1, TestStepInv
    <2>2. CASE ClearHealth
      BY <2>2, ClearHealthInv
    <2>3. CASE Interrupt
      BY <2>3, InterruptInv
    <2>4. CASE UNCHANGED testVars
      BY <2>4, TestStutterInv
    <2> QED BY <2>1, <2>2, <2>3, <2>4 DEF TestNext
  <1>2. TestInv => HealthCounts /\ FaultsBounded
    BY DEF TestInv
  <1> QED BY TestInitInv, <1>1, <1>2, PTL DEF TestSpec
-----------------------------------------------------------------------------
(* the test as a part of the board *)

\* A sensor is only being read while setup() runs the test.
ReadingTests == reading => Testing

BoardInv == TestInv /\ ReadingTests

\* A step of the power manager is taken while no sensor is being read, and
\* leaves the record of the sensors to Record::init and to resets.
LEMMA ManageInv == ASSUME NEW ACTION step, BoardInv, Manage(step) PROVE BoardInv'
  <1>1. TestInv /\ ~ reading
    BY DEF BoardInv, ReadingTests, Manage
  <1>2. Interrupt \/ ClearHealth \/ UNCHANGED testVars
    BY DEF Manage
  <1>3. TestInv'
    BY <1>1, <1>2, InterruptInv, ClearHealthInv, TestStutterInv
  <1>4. ~ reading'
    BY <1>1, <1>2 DEF Interrupt, ClearHealth, testVars, testRam
  <1> QED BY <1>3, <1>4 DEF BoardInv, ReadingTests

\* A reset of the board interrupts the test.
LEMMA BoardResetInv == ASSUME NEW cause, BoardInv, BoardReset(cause) PROVE BoardInv'
  <1>1. TestInv'
    BY InterruptInv DEF BoardInv, BoardReset
  <1>2. ~ reading'
    BY DEF BoardReset, Interrupt
  <1> QED BY <1>1, <1>2 DEF BoardInv, ReadingTests

\* A step of the test goes on testing as long as it reads.
LEMMA TestSensorsInv == BoardInv /\ TestSensors => BoardInv'
  <1> SUFFICES ASSUME BoardInv, TestSensors PROVE BoardInv'
    OBVIOUS
  <1>1. TestInv'
    BY TestStepInv DEF BoardInv, TestSensors
  <1>2. Testing /\ (reading' => sensor' = sensor)
    BY DEF TestSensors, Test, SkipSensor, BeginReading, EndReading, Testing, BoardInv, ReadingTests, NextSensor
  <1>3. UNCHANGED <<pc, magic, bootflags>>
    BY DEF TestSensors, vars, control, eeprom
  <1>4. ReadingTests'
    BY <1>2, <1>3 DEF ReadingTests, Testing, PowerFault, TestDone
  <1> QED BY <1>1, <1>4 DEF BoardInv

\* The same on the board, where the test runs only after a power fault, hangs in
\* faulty sensors, and is cut off by resets of all kinds at any point of the
\* program.
THEOREM BoardHealthCorrect == BoardSpec => []HealthCounts /\ []FaultsBounded
  <1>1. BoardInit => BoardInv
    BY TestInitInv DEF BoardInit, BoardInv, ReadingTests, TestInit
  <1>2. BoardInv /\ [BoardNext]_boardVars => BoardInv'
    <2> SUFFICES ASSUME BoardInv, [BoardNext]_boardVars PROVE BoardInv'
      OBVIOUS
    <2>1. CASE TestSensors
      BY <2>1, TestSensorsInv
    <2>2. CASE Manage(Program)
      BY <2>2, ManageInv
    <2>3. CASE Manage(Command)
      BY <2>3, ManageInv
    <2>4. CASE Manage(TimeUnitEnds)
      BY <2>4, ManageInv
    <2>5. CASE WatchdogReset \/ SupplyReset \/ FaultReset
      BY <2>5, BoardResetInv DEF WatchdogReset, SupplyReset, FaultReset
    <2>6. CASE UNCHANGED boardVars
      <3>1. TestInv'
        BY <2>6, TestStutterInv DEF BoardInv, boardVars
      <3>2. UNCHANGED <<pc, magic, bootflags, sensor, reading>>
        BY <2>6 DEF boardVars, vars, control, eeprom, testVars, testRam
      <3>3. ReadingTests'
        BY <3>2 DEF BoardInv, ReadingTests, Testing, PowerFault, TestDone
      <3> QED BY <3>1, <3>3 DEF BoardInv
    <2> QED BY <2>1, <2>2, <2>3, <2>4, <2>5, <2>6 DEF BoardNext, BoardProgram
  <1>3. BoardInv => HealthCounts /\ FaultsBounded
    BY DEF BoardInv, TestInv
  <1> QED BY <1>1, <1>2, <1>3, PTL DEF BoardSpec
-----------------------------------------------------------------------------
(* the power manager as a part of the board *)

\* What the board does is for the power manager one of its own steps: the test
\* leaves it alone, and the resets of hung tests and of killers are resets.
LEMMA BoardStep == [BoardNext]_boardVars => Step
  <1> SUFFICES ASSUME [BoardNext]_boardVars PROVE Step
    OBVIOUS
  <1>1. CASE TestSensors \/ UNCHANGED boardVars
    BY <1>1 DEF TestSensors, boardVars, Step
  <1>2. CASE Manage(Program) \/ Manage(Command) \/ Manage(TimeUnitEnds)
    BY <1>2, NextCases DEF Manage, Next
  <1>3. CASE WatchdogReset \/ SupplyReset \/ FaultReset
    BY <1>3, FaultAssumption DEF WatchdogReset, SupplyReset, FaultReset, BoardReset, Step
  <1> QED BY <1>1, <1>2, <1>3 DEF BoardNext, BoardProgram

\* So the power manager's inductive invariant is one of the board.
ManagerInv == TypeOK /\ JournalInv /\ RelayInv /\ DisableInv /\ RecoveryInv

LEMMA BoardManagerInv == BoardSpec => []ManagerInv
  <1>1. BoardInit => ManagerInv
    BY TypeInit, JournalInit, RelayInit, DisableInit, RecoveryInit DEF BoardInit, ManagerInv
  <1>2. ManagerInv /\ [BoardNext]_boardVars => ManagerInv'
    BY BoardStep, TypeStep, JournalStep, RelayStep, DisableStep, RecoveryStep DEF ManagerInv
  <1> QED BY <1>1, <1>2, PTL DEF BoardSpec

\* On a board with killers, hanging sensors and tests that are cut off, the
\* power manager still keeps its journal as RelayJournal says, powers no device
\* that is on record as disabled, and recovers from every power fault.
THEOREM BoardManagerCorrect ==
    BoardSpec => ImplementsJournal /\ []WriteAhead /\ []DisabledUnpowered /\ []SuspectsDisabled
  <1>1. BoardInit => RJ!Init
    BY DEF BoardInit, Init, RJ!Init, Powered, Entries, Entry, Incomplete
  <1>2. ManagerInv /\ [BoardNext]_boardVars => [RJ!Next]_<<Powered, Entries>>
    BY BoardStep, JournalRefines DEF ManagerInv
  <1>3. ManagerInv => WriteAhead /\ DisabledUnpowered
    BY DEF ManagerInv, RelayInv, DisableInv
  <1>4. ManagerInv => SuspectsDisabled
    BY PortAssumption DEF ManagerInv, RecoveryInv, SuspectsDisabled, Secured, TypeOK, Ports
  <1> QED BY <1>1, <1>2, <1>3, <1>4, BoardManagerInv, PTL DEF BoardSpec, ImplementsJournal, RJ!Spec

\* From a power failure on, until the recovery has looked at the journal, the
\* open entry is the killer's.
BlameInv ==
    /\ BlamesKillers
    /\ "power" \notin Faults /\ bootflags = "power" /\ pc \in Booting =>
           \A p \in Ports : Incomplete(p) => p \in Killers

\* A reset finds no other entry open than that of the port it interrupts.
LEMMA ResetBlame ==
    ASSUME ManagerInv, NEW cause, BoardReset(cause),
           cause = "power" => SupplyFails \/ "power" \in Faults
    PROVE  BlameInv'
  <1>1. bootflags' = cause /\ suspects' = {} /\ journal' = journal
    BY DEF BoardReset, Reset
  <1>2. SupplyFails => \A p \in Ports : Incomplete(p) => p \in Killers
    BY DEF SupplyFails, ManagerInv, JournalInv, EntryOpen
  <1> QED BY <1>1, <1>2 DEF BlameInv, BlamesKillers, Incomplete

\* Nothing but the boot looks for suspects, and nothing but a reset leads into
\* the boot.
LEMMA NoSuspects ==
    ASSUME TypeOK, Recover \/ Switch \/ LoopStep \/ TimeUnitEnds
    PROVE  /\ bootflags' = bootflags /\ (suspects' = suspects \/ suspects' = {})
           /\ pc' \notin Booting
  <1>1. CASE RecoverNext \/ RecoverJournal \/ FinishSetup
    BY <1>1 DEF RecoverNext, RecoverJournal, FinishSetup, eeprom, Goto, Booting
  <1>2. CASE RecoverPort
    BY SMTT(60), <1>2 DEF RecoverPort, Disable, BeginKill, Goto, Booting
  <1>3. CASE Switch
    BY ZenonT(60), <1>3 DEF TypeOK, Switch, TurnOn, RelayOn, TurnedOn, TurnOff, RelayOff, TurnedOff, Return,
       eeprom, Goto, Booting
  <1>4. CASE LoopStep
    <2>1. bootflags' = bootflags /\ suspects' = suspects
      BY ZenonT(60), <1>4 DEF LoopStep, StartNext, StartRequested, StartFirst, StartNothing, Update, Command,
         EndPass, eeprom
    <2> QED BY SMTT(60), <1>4, <2>1, LoopControl DEF Looping, Booting
  <1>5. CASE TimeUnitEnds
    BY <1>5 DEF TimeUnitEnds, eeprom, control
  <1> QED BY <1>1, <1>2, <1>3, <1>4, <1>5 DEF Recover

\* A step of the power manager that is not a reset.
LEMMA ManageBlame ==
    ASSUME ManagerInv, BlameInv, Boot \/ Recover \/ Switch \/ LoopStep \/ TimeUnitEnds
    PROVE  BlameInv'
  <1>1. CASE BootloaderStart \/ BootloaderExit
    BY <1>1 DEF BootloaderStart, BootloaderExit, eeprom, Goto, BlameInv, BlamesKillers, Booting,
       Incomplete
  <1>2. CASE InitRecord
    BY <1>2 DEF InitRecord, BlameInv, BlamesKillers, Incomplete
  <1>3. CASE SetupDevices
    <2>1. pc \in Booting /\ pc' \notin Booting /\ bootflags' = bootflags
      BY <1>3 DEF SetupDevices, Goto, Booting, eeprom
    <2>2. suspects' \subseteq {p \in Ports : Incomplete(p)}
      BY <1>3 DEF SetupDevices
    <2> QED BY <2>1, <2>2 DEF BlameInv, BlamesKillers
  <1>4. CASE Recover \/ Switch \/ LoopStep \/ TimeUnitEnds
    BY <1>4, NoSuspects DEF ManagerInv, BlameInv, BlamesKillers
  <1> QED BY <1>1, <1>2, <1>3, <1>4 DEF Boot

\* After a power failure that a device has caused the recovery blames this
\* device and no other, however many ports there are, whatever sensors hang and
\* whatever brown-outs and watchdog resets the board went through before: at
\* most one journal entry is open, and it is the one of the relay that was last
\* being switched.
THEOREM BlamesKillersCorrect == BoardSpec => []BlamesKillers
  <1>1. BoardInit => BlameInv
    BY DEF BoardInit, Init, BlameInv, BlamesKillers, Incomplete
  <1>2. ManagerInv /\ BlameInv /\ [BoardNext]_boardVars => BlameInv'
    <2> SUFFICES ASSUME ManagerInv, BlameInv, [BoardNext]_boardVars PROVE BlameInv'
      OBVIOUS
    <2>1. CASE UNCHANGED vars
      BY <2>1 DEF vars, eeprom, control, BlameInv, BlamesKillers, Incomplete
    <2>2. CASE ResetSystem
      BY <2>2 DEF ResetSystem, Reset, BlameInv, BlamesKillers
    <2>3. CASE Manage(Program) \/ Manage(Command) \/ Manage(TimeUnitEnds)
      BY <2>2, <2>3, ManageBlame DEF Manage, Program, LoopStep
    <2>4. CASE WatchdogReset \/ SupplyReset
      BY <2>4, ResetBlame DEF WatchdogReset, SupplyReset
    <2>5. CASE FaultReset
      BY <2>5, ResetBlame DEF FaultReset
    <2> QED BY <2>1, <2>3, <2>4, <2>5 DEF BoardNext, BoardProgram, TestSensors, boardVars
  <1>3. BlameInv => BlamesKillers
    BY DEF BlameInv
  <1> QED BY <1>1, <1>2, <1>3, BoardManagerInv, PTL DEF BoardSpec
=============================================================================
