------------------------------ MODULE SelfTest ------------------------------
(***************************************************************************)
(* The sensor test of setup() on the version 3 board: checkSensors, that   *)
(* is checkCurrentSensors and checkThermistors.                            *)
(*                                                                         *)
(* Reading a sensor can hang until the watchdog resets the board.  So that *)
(* it does not hang for ever, each sensor has a byte of health in EEPROM:  *)
(* it is incremented before a reading and decremented after it, a reset in *)
(* between leaves it higher by one, and a sensor whose health has reached  *)
(* MaxFaults is not read.                                                  *)
(*                                                                         *)
(* Each action makes one EEPROM write, so a reset can come between any two *)
(* of them.                                                                *)
(***************************************************************************)
EXTENDS Integers

CONSTANTS
    SensorCount,    \* 2 * DEVICE_COUNT: the current sensors, the thermistors
    Attempts,       \* 3: readings of a sensor that is out of range
    MaxFaults,      \* 5: interrupted readings after which it is left alone
    ByteSize        \* 256: health is a byte

Sensors == 0 .. SensorCount - 1

ASSUME SensorAssumption == SensorCount \in Nat /\ Attempts \in Nat \ {0}
ASSUME FaultsFit == MaxFaults \in Nat /\ ByteSize \in Nat /\ MaxFaults < ByteSize

VARIABLES
    health,         \* EEPROM_PORT_CURRENT_HEALTH, EEPROM_PORT_THERMISTOR_HEALTH
    sensor,         \* i: the sensor whose turn it is
    attempt,
    reading,        \* between the two writes of a reading
    interrupted     \* history: readings of each sensor that a reset cut off,
                    \* since the record was initialized

testRam == <<sensor, attempt, reading>>
testVars == <<health, testRam, interrupted>>

TestTypeOK ==
    /\ health \in [Sensors -> 0 .. ByteSize - 1]
    /\ sensor \in 0 .. SensorCount
    /\ attempt \in 0 .. Attempts - 1
    /\ reading \in BOOLEAN
    /\ interrupted \in [Sensors -> Nat]
-----------------------------------------------------------------------------
TestInit ==
    /\ health = [s \in Sensors |-> 0]
    /\ sensor = 0 /\ attempt = 0 /\ reading = FALSE
    /\ interrupted = [s \in Sensors |-> 0]

\* Record::init, which is not called in the middle of a reading
ClearHealth ==
    /\ ~ reading
    /\ health' = [s \in Sensors |-> 0]
    /\ interrupted' = [s \in Sensors |-> 0]
    /\ UNCHANGED testRam

NextSensor == sensor' = sensor + 1 /\ attempt' = 0

\* "too many faults"
SkipSensor ==
    /\ sensor < SensorCount /\ attempt = 0 /\ ~ reading
    /\ health[sensor] >= MaxFaults
    /\ NextSensor
    /\ UNCHANGED <<health, reading, interrupted>>

\* Mutant of BeginReading: one fault more
BeginReadingLate ==
    /\ sensor < SensorCount /\ ~ reading
    /\ attempt = 0 => health[sensor] <= MaxFaults
    /\ health' = [health EXCEPT ![sensor] = (@ + 1) % ByteSize]
    /\ reading' = TRUE
    /\ UNCHANGED <<sensor, attempt, interrupted>>

\* the health is looked at once per sensor, not once per attempt
BeginReading ==
    /\ sensor < SensorCount /\ ~ reading
    /\ attempt = 0 => health[sensor] < MaxFaults
    /\ health' = [health EXCEPT ![sensor] = (@ + 1) % ByteSize]
    /\ reading' = TRUE
    /\ UNCHANGED <<sensor, attempt, interrupted>>

\* Mutant of EndReading: one decrement per sensor, when its loop is left
EndReadingOnce(inRange) ==
    /\ reading
    /\ reading' = FALSE
    /\ IF inRange \/ attempt = Attempts - 1
       THEN NextSensor /\ health' = [health EXCEPT ![sensor] = (@ + ByteSize - 1) % ByteSize]
       ELSE attempt' = attempt + 1 /\ UNCHANGED <<sensor, health>>
    /\ UNCHANGED interrupted

EndReading(inRange) ==
    /\ reading
    /\ health' = [health EXCEPT ![sensor] = (@ + ByteSize - 1) % ByteSize]
    /\ reading' = FALSE
    /\ IF inRange \/ attempt = Attempts - 1
       THEN NextSensor
       ELSE attempt' = attempt + 1 /\ UNCHANGED sensor
    /\ UNCHANGED interrupted

\* a reset, of whatever cause and wherever the program is
Interrupt ==
    /\ interrupted' = IF reading THEN [interrupted EXCEPT ![sensor] = @ + 1] ELSE interrupted
    /\ sensor' = 0 /\ attempt' = 0 /\ reading' = FALSE
    /\ UNCHANGED health

TestDone == sensor = SensorCount

\* what the test does by itself when the sensors in hanging never answer
Test(hanging) ==
    \/ SkipSensor
    \/ BeginReading
    \/ sensor \notin hanging /\ \E inRange \in BOOLEAN : EndReading(inRange)

TestNext == Test({}) \/ ClearHealth \/ Interrupt
TestSpec == TestInit /\ [][TestNext]_testVars
-----------------------------------------------------------------------------
\* However resets fall between the writes, the health of a sensor is the number
\* of its readings that a reset cut off, and one more while it is read.
HealthCounts ==
    \A s \in Sensors :
        health[s] = interrupted[s] + IF reading /\ sensor = s THEN 1 ELSE 0

\* No sensor cuts off more than MaxFaults boots: the next test does not read it.
FaultsBounded == \A s \in Sensors : interrupted[s] <= MaxFaults
=============================================================================
