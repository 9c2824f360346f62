---------------------------- MODULE PowerManager ----------------------------
(***************************************************************************)
(* The power manager of the version 3 board: the Device state machines,    *)
(* the EEPROM records they keep, the relays they switch, and the program   *)
(* that runs them (setup, the recovery of interrupted relay operations,    *)
(* the main loop, the console commands), from reset to reset.              *)
(*                                                                         *)
(* The program is sequential, so the only interleaving is with resets: a   *)
(* power loss, a brown-out or the watchdog may stop it between any two     *)
(* steps.  EEPROM survives, RAM does not.  Every action therefore makes at *)
(* most one EEPROM write or one relay operation; what it does to RAM and   *)
(* to ordinary pins on the way is lost in a reset and needs no step of its *)
(* own.                                                                    *)
(*                                                                         *)
(* A Timer is the number of time units since its reset, up to MaxTime;     *)
(* only comparisons with smaller timeouts are ever made, so the cap hides  *)
(* nothing.                                                                *)
(***************************************************************************)
EXTENDS Integers, FiniteSets

CONSTANTS
    PortCount,          \* DEVICE_COUNT
    WordSize,           \* 2^16: boot counters are two-byte words
    ManagedLimit,       \* 1024: boot failures that end managed mode
    RetryCycle,         \* 4: every fourth failure boots the secondary media
    HeartbeatTimeout,   \* HEARTBEAT_TIMEOUT
    UnmanagedTimeout,   \* 4 hours between media switches in unmanaged mode
    StartInterval,      \* a minute between two automatic starts
    StopTimeout,        \* a minute, the default time to shut down in
    StopTimeouts,       \* the times that a stop command may give
    ResetTimeouts,      \* the delays that a reset command may give
    MaxTime,            \* where timers stop counting
    TickPoints,         \* control points, besides the end of a loop pass,
                        \* at which a time unit may end
    Commands,           \* the console commands that are used
    Faults,             \* the causes of reset that occur
    Silent              \* ports whose heartbeat line never moves

Ports == 0 .. PortCount - 1
NC == 0                     \* PORT_NC, the node controller
NoPort == PortCount         \* deviceWantsStart = 255
SD == "sd"
EMMC == "emmc"
Media == {SD, EMMC}
NoMedia == "none"           \* shouldForceBootMedia = false

ASSUME PortAssumption == PortCount \in Nat \ {0}
ASSUME CounterAssumption ==
    WordSize \in Nat \ {0} /\ ManagedLimit \in Nat /\ RetryCycle \in Nat \ {0}
ASSUME TimeAssumption ==
    /\ MaxTime \in Nat
    /\ StopTimeouts \subseteq 0 .. MaxTime - 1
    /\ ResetTimeouts \subseteq 0 .. MaxTime - 1
    /\ {HeartbeatTimeout, UnmanagedTimeout, StartInterval, StopTimeout}
         \subseteq 0 .. MaxTime - 1
ASSUME FaultAssumption == Faults \subseteq {"power", "brownout", "watchdog"}

VARIABLES
    \* EEPROM
    magic,      \* Record::initialized()
    enabled,    \* EEPROM_PORT_ENABLED
    journal,    \* EEPROM_PORT_RELAY_JOURNAL
    attempts,   \* EEPROM_PORT_BOOT_ATTEMPTS
    failures,   \* EEPROM_PORT_BOOT_FAILURES
    blmode,     \* EEPROM_BOOTLOADER_NODE_CONTROLLER, 0x40
    bootflags,  \* the cause of the last reset, saved at 0x41
    \* hardware
    relay,      \* is the port powered
    selector,   \* BOOT_SELECTOR_PINS
    \* RAM
    devices,    \* devices[], without their constant fields
    startTimer,
    deviceWantsStart,
    reset,      \* shouldResetSystem, shouldResetTimer, shouldResetTimeout
    \* control
    pc,         \* what the program does next
    at,         \* the index of the loop over the ports that is running
    target,     \* the port of the running start() or kill()
    disabling,  \* kill() was called by disable()
    caller,     \* where kill() returns to
    \* history
    suspects    \* ports found with an open journal after a power fault

eeprom == <<magic, enabled, journal, attempts, failures, blmode, bootflags>>
ram == <<devices, startTimer, deviceWantsStart, reset>>
control == <<pc, at, target, disabling, caller>>
vars == <<eeprom, relay, selector, ram, control, suspects>>

States == {"DISABLED", "STOPPED", "STARTED", "STOPPING"}
Journal == {"OFF", "ON", "TURNING_ON", "TURNING_OFF"}
Booting == {"bootloader", "bootloaderWait", "setup"}
Switching == {"turnOn", "relayOn", "turnedOn", "turnOff", "relayOff", "turnedOff"}
Looping == {"start", "update", "commands", "resetSystem"}
Time == 0 .. MaxTime

Device == [state : States, managed : BOOLEAN, watchHeartbeat : BOOLEAN,
           forceBootMedia : Media \union {NoMedia}, stopTimeout : Time,
           stateTimer : Time, heartbeatTimer : Time]

TypeOK ==
    /\ magic \in BOOLEAN
    /\ enabled \in [Ports -> BOOLEAN]
    /\ journal \in [Ports -> Journal]
    /\ attempts \in [Ports -> 0 .. WordSize - 1]
    /\ failures \in [Ports -> 0 .. WordSize - 1]
    /\ blmode \in {"off", "sd", "emmc"}
    /\ bootflags \in {"power", "brownout", "watchdog"}
    /\ relay \in [Ports -> BOOLEAN]
    /\ selector \in [{0, 1} -> Media]
    /\ devices \in [Ports -> Device]
    /\ startTimer \in Time
    /\ deviceWantsStart \in Ports \union {NoPort}
    /\ reset \in [wanted : BOOLEAN, timer : Time, timeout : Time]
    /\ pc \in Booting \union {"recover", "recoverPort"} \union Switching \union Looping
    /\ at \in 0 .. PortCount
    /\ pc \in {"recoverPort", "update"} => at \in Ports
    /\ target \in Ports
    /\ disabling \in BOOLEAN
    /\ caller \in {"recover", "update", "commands"}
    /\ pc \in Switching /\ caller = "update" => at \in Ports
    /\ suspects \subseteq Ports
-----------------------------------------------------------------------------
(* Device.cpp on the object of one port *)

\* Device::changeState
ChangeState(d, newState) ==
    [d EXCEPT !.state = newState, !.stateTimer = 0, !.heartbeatTimer = 0]

\* setupDevices and Device::init; managed is only set by start()
NewDevice(p, isEnabled) ==
    [state |-> IF isEnabled THEN "STOPPED" ELSE "DISABLED",
     managed |-> FALSE, watchHeartbeat |-> p <= 2, forceBootMedia |-> NoMedia,
     stopTimeout |-> StopTimeout, stateTimer |-> 0, heartbeatTimer |-> 0]

\* bootSelector and the boot media of each port; setupDevices leaves the
\* selector of ports 2 and up, and the media of ports 3 and up, at zero
SelectorOf(p) == IF p = 1 THEN 1 ELSE 0
PrimaryMedia(p) == IF p <= 2 THEN EMMC ELSE SD
SecondaryMedia(p) == SD

\* Mutant of NextBootMedia: the turn of the secondary media is one too late
NextBootMediaNoTurn(p, d) ==
    LET turn == IF d.managed THEN failures[p] % RetryCycle = RetryCycle
                             ELSE attempts[p] % 2 = 1
    IN  IF d.forceBootMedia # NoMedia THEN d.forceBootMedia
        ELSE IF turn THEN SecondaryMedia(p) ELSE PrimaryMedia(p)

\* Device::getNextBootMedia
NextBootMedia(p, d) ==
    LET turn == IF d.managed THEN failures[p] % RetryCycle = RetryCycle - 1
                             ELSE attempts[p] % 2 = 1
    IN  IF d.forceBootMedia # NoMedia THEN d.forceBootMedia
        ELSE IF turn THEN SecondaryMedia(p) ELSE PrimaryMedia(p)

\* Device::onHeartbeat on RAM.  A stopped device that gives a sign of life is
\* taken to be running.  A disabled one is disabled again: kill() refuses a
\* disabled device, so all that is left of disable() is the change of state.
OnHeartbeat(p, d) ==
    LET heard == [d EXCEPT !.heartbeatTimer = 0]
    IN  IF d.state = "STOPPED" THEN ChangeState(heard, "STARTED")
        ELSE IF d.state = "DISABLED" /\ p # NC THEN ChangeState(heard, "DISABLED")
        ELSE heard

\* Device::onHeartbeat on EEPROM: disable() records the port as disabled
EnabledAfterHeartbeat(p, d) ==
    IF d.state = "DISABLED" /\ p # NC THEN [enabled EXCEPT ![p] = FALSE] ELSE enabled

\* Record::getDeviceEnabled
GetDeviceEnabled(p) == p = NC \/ enabled[p]

CanStart(p) == devices[p].state = "STOPPED" /\ devices[p].stateTimer > 0
-----------------------------------------------------------------------------
(* Device::start and Device::kill, one step per EEPROM write or relay operation *)

Goto(label) == pc' = label

\* the locals of start() and kill() go out of scope
Return ==
    /\ Goto(caller)
    /\ target' = NC
    /\ disabling' = FALSE
    /\ caller' = "recover"

\* Device::start up to the journal entry; the boot log is module BootLog
BeginStart(p) ==
    LET d == [devices[p] EXCEPT !.managed = failures[p] < ManagedLimit]
    IN  /\ devices[p].state = "STOPPED"
        /\ devices' = [devices EXCEPT ![p] = [d EXCEPT !.forceBootMedia = NoMedia]]
        /\ selector' = [selector EXCEPT ![SelectorOf(p)] = NextBootMedia(p, d)]
        /\ attempts' = [attempts EXCEPT ![p] = (@ + 1) % WordSize]
        /\ target' = p
        /\ caller' = "update"
        /\ at' = 0
        /\ Goto("turnOn")

\* Mutant of TurnOn: no journal entry
TurnOnUnrecorded ==
    /\ pc = "turnOn"
    /\ journal' = journal
    /\ Goto("relayOn")
    /\ UNCHANGED <<magic, enabled, attempts, failures, blmode, bootflags, relay,
                   selector, ram, at, target, disabling, caller, suspects>>

TurnOn ==
    /\ pc = "turnOn"
    /\ journal' = [journal EXCEPT ![target] = "TURNING_ON"]
    /\ Goto("relayOn")
    /\ UNCHANGED <<magic, enabled, attempts, failures, blmode, bootflags, relay,
                   selector, ram, at, target, disabling, caller, suspects>>

RelayOn ==
    /\ pc = "relayOn"
    /\ relay' = [relay EXCEPT ![target] = TRUE]
    /\ Goto("turnedOn")
    /\ UNCHANGED <<eeprom, selector, ram, at, target, disabling, caller, suspects>>

\* Mutant of TurnedOn: the journal entry is left open
TurnedOnUnrecorded ==
    /\ pc = "turnedOn"
    /\ journal' = journal
    /\ devices' = [devices EXCEPT ![target] = ChangeState(@, "STARTED")]
    /\ Return
    /\ UNCHANGED <<magic, enabled, attempts, failures, blmode, bootflags, relay,
                   selector, startTimer, deviceWantsStart, reset, at, suspects>>

TurnedOn ==
    /\ pc = "turnedOn"
    /\ journal' = [journal EXCEPT ![target] = "ON"]
    /\ devices' = [devices EXCEPT ![target] = ChangeState(@, "STARTED")]
    /\ Return
    /\ UNCHANGED <<magic, enabled, attempts, failures, blmode, bootflags, relay,
                   selector, startTimer, deviceWantsStart, reset, at, suspects>>

\* Device::kill on a device that is not disabled
BeginKill(p, byDisable, return) ==
    /\ target' = p
    /\ disabling' = byDisable
    /\ caller' = return
    /\ Goto("turnOff")

\* Mutant of TurnOff: no journal entry
TurnOffUnrecorded ==
    /\ pc = "turnOff"
    /\ journal' = journal
    /\ Goto("relayOff")
    /\ UNCHANGED <<magic, enabled, attempts, failures, blmode, bootflags, relay,
                   selector, ram, at, target, disabling, caller, suspects>>

TurnOff ==
    /\ pc = "turnOff"
    /\ journal' = [journal EXCEPT ![target] = "TURNING_OFF"]
    /\ Goto("relayOff")
    /\ UNCHANGED <<magic, enabled, attempts, failures, blmode, bootflags, relay,
                   selector, ram, at, target, disabling, caller, suspects>>

RelayOff ==
    /\ pc = "relayOff"
    /\ relay' = [relay EXCEPT ![target] = FALSE]
    /\ Goto("turnedOff")
    /\ UNCHANGED <<eeprom, selector, ram, at, target, disabling, caller, suspects>>

\* Mutant of TurnedOff: kill() decides the state, whoever called it
TurnedOffStopped ==
    /\ pc = "turnedOff"
    /\ journal' = [journal EXCEPT ![target] = "OFF"]
    /\ devices' = [devices EXCEPT ![target] = ChangeState(@, "STOPPED")]
    /\ startTimer' = 0
    /\ Return
    /\ UNCHANGED <<magic, enabled, attempts, failures, blmode, bootflags, relay,
                   selector, deviceWantsStart, reset, at, suspects>>

\* the end of kill() and, when disable() called it, of disable()
TurnedOff ==
    /\ pc = "turnedOff"
    /\ journal' = [journal EXCEPT ![target] = "OFF"]
    /\ devices' = [devices EXCEPT ![target] =
                     ChangeState(@, IF disabling /\ target # NC THEN "DISABLED"
                                                               ELSE "STOPPED")]
    /\ startTimer' = 0
    /\ Return
    /\ UNCHANGED <<magic, enabled, attempts, failures, blmode, bootflags, relay,
                   selector, deviceWantsStart, reset, at, suspects>>

\* Mutant of Disable: the device is left running
DisableWithoutKill(p, return) ==
    /\ enabled' = IF p = NC THEN enabled ELSE [enabled EXCEPT ![p] = FALSE]
    /\ devices' = IF p = NC THEN devices
                  ELSE [devices EXCEPT ![p] = ChangeState(@, "DISABLED")]
    /\ Goto(return)
    /\ UNCHANGED <<target, disabling, caller>>

\* Device::disable, called with return as the place to go on at
Disable(p, return) ==
    /\ enabled' = IF p = NC THEN enabled ELSE [enabled EXCEPT ![p] = FALSE]
    /\ IF devices[p].state # "DISABLED"
       THEN BeginKill(p, TRUE, return) /\ UNCHANGED devices
       ELSE /\ devices' = IF p = NC THEN devices
                          ELSE [devices EXCEPT ![p] = ChangeState(@, "DISABLED")]
            /\ Goto(return)
            /\ UNCHANGED <<target, disabling, caller>>

\* Mutant of SetNextBootMedia: the selector waits for the next start
SetNextBootMediaLater(p, d, media) ==
    /\ selector' = selector
    /\ devices' = [devices EXCEPT ![p] = [d EXCEPT !.forceBootMedia = media]]

\* Device::setNextBootMedia; the selector moves at once
SetNextBootMedia(p, d, media) ==
    /\ selector' = [selector EXCEPT ![SelectorOf(p)] = media]
    /\ devices' = [devices EXCEPT ![p] = [d EXCEPT !.forceBootMedia = media]]
-----------------------------------------------------------------------------
(* from reset to the main loop *)

\* The relays of all ports but the node controller's are driven by ordinary
\* pins and drop in every reset.  The node controller's is a latch: it loses
\* its state with the power, and may or may not lose it in a brown-out.
RelaysAfter(latchHolds) == [p \in Ports |-> p = NC /\ relay[NC] /\ latchHolds]

Reset(cause) ==
    /\ \E latchHolds \in CASE cause = "power"    -> {FALSE}
                          [] cause = "brownout" -> BOOLEAN
                          [] cause = "watchdog" -> {TRUE} :
           relay' = RelaysAfter(latchHolds)
    /\ bootflags' = cause
    /\ devices' = [p \in Ports |-> NewDevice(p, FALSE)]
    /\ selector' = [i \in {0, 1} |-> SD]
    /\ startTimer' = 0
    /\ deviceWantsStart' = NoPort
    /\ reset' = [wanted |-> FALSE, timer |-> 0, timeout |-> 0]
    /\ at' = 0
    /\ target' = NC
    /\ disabling' = FALSE
    /\ caller' = "recover"
    /\ suspects' = {}
    /\ Goto("bootloader")
    /\ UNCHANGED <<magic, enabled, journal, attempts, failures, blmode>>

\* Caterina main: the boot flag may ask for the node controller to be started
\* here, from either media
BootloaderStart ==
    /\ pc = "bootloader"
    /\ selector' = IF blmode = "emmc" THEN [selector EXCEPT ![0] = EMMC] ELSE selector
    /\ relay' = IF blmode = "off" THEN relay ELSE [relay EXCEPT ![NC] = TRUE]
    /\ Goto("bootloaderWait")
    /\ UNCHANGED <<eeprom, ram, at, target, disabling, caller, suspects>>

\* The wait for a new program writes 0x10 to the port of the node controller's
\* selector, and StartSketch writes 0: the selector ends at SD.
BootloaderExit ==
    /\ pc = "bootloaderWait"
    /\ selector' = [selector EXCEPT ![0] = SD]
    /\ Goto("setup")
    /\ UNCHANGED <<eeprom, relay, ram, at, target, disabling, caller, suspects>>

\* Record::init.  The magic number is written last, so a reset in the middle
\* runs all of it again, and only the bootloader's flag is read in between.
InitRecord ==
    /\ pc = "setup" /\ ~ magic
    /\ magic' = TRUE
    /\ enabled' = [p \in Ports |-> p <= 2]
    /\ journal' = [p \in Ports |-> "OFF"]
    /\ attempts' = [p \in Ports |-> 0]
    /\ failures' = [p \in Ports |-> 0]
    /\ blmode' = "off"
    /\ UNCHANGED <<bootflags, relay, selector, ram, control, suspects>>

Incomplete(p) == journal[p] \in {"TURNING_ON", "TURNING_OFF"}
PowerFault == bootflags \in {"power", "brownout"}

\* setupDevices up to the recovery loop
SetupDevices ==
    /\ pc = "setup" /\ magic
    /\ devices' = [p \in Ports |-> NewDevice(p, GetDeviceEnabled(p))]
    /\ suspects' = IF PowerFault THEN {p \in Ports : Incomplete(p)} ELSE {}
    /\ at' = 0
    /\ Goto("recover")
    /\ UNCHANGED <<eeprom, relay, selector, startTimer, deviceWantsStart, reset,
                   target, disabling, caller>>

RecoverNext ==
    /\ pc = "recover" /\ at < PortCount /\ ~ Incomplete(at)
    /\ at' = at + 1
    /\ UNCHANGED <<eeprom, relay, selector, ram, pc, target, disabling, caller, suspects>>

RecoverJournal ==
    /\ pc = "recover" /\ at < PortCount /\ Incomplete(at)
    /\ journal' = [journal EXCEPT ![at] = "OFF"]
    /\ Goto("recoverPort")
    /\ UNCHANGED <<magic, enabled, attempts, failures, blmode, bootflags, relay,
                   selector, ram, at, target, disabling, caller, suspects>>

\* Mutant of RecoverPort: the cause of the reset is ignored
RecoverPortKills ==
    /\ pc = "recoverPort"
    /\ at' = at + 1
    /\ IF FALSE
       THEN Disable(at, "recover")
       ELSE /\ IF devices[at].state # "DISABLED"
               THEN BeginKill(at, FALSE, "recover")
               ELSE Goto("recover") /\ UNCHANGED <<target, disabling, caller>>
            /\ UNCHANGED <<enabled, devices>>
    /\ UNCHANGED <<magic, journal, attempts, failures, blmode, bootflags, relay,
                   selector, startTimer, deviceWantsStart, reset, suspects>>

\* "Plausible that power off was caused by toggling this relay."
RecoverPort ==
    /\ pc = "recoverPort"
    /\ at' = at + 1
    /\ IF PowerFault
       THEN Disable(at, "recover")
       ELSE /\ IF devices[at].state # "DISABLED"
               THEN BeginKill(at, FALSE, "recover")
               ELSE Goto("recover") /\ UNCHANGED <<target, disabling, caller>>
            /\ UNCHANGED <<enabled, devices>>
    /\ UNCHANGED <<magic, journal, attempts, failures, blmode, bootflags, relay,
                   selector, startTimer, deviceWantsStart, reset, suspects>>

FinishSetup ==
    /\ pc = "recover" /\ at = PortCount
    /\ deviceWantsStart' = NC
    /\ startTimer' = 0
    /\ reset' = [reset EXCEPT !.wanted = FALSE, !.timeout = 0]
    /\ at' = 0
    /\ suspects' = {}
    /\ Goto("start")
    /\ UNCHANGED <<eeprom, relay, selector, devices, target, disabling, caller>>
-----------------------------------------------------------------------------
(* the main loop *)

\* Mutant of StartRequested: the request is not cleared
StartRequestedForever ==
    /\ pc = "start" /\ ~ reset.wanted /\ deviceWantsStart # NoPort
    /\ startTimer' = 0
    /\ deviceWantsStart' = deviceWantsStart
    /\ IF devices[deviceWantsStart].state = "STOPPED"
       THEN BeginStart(deviceWantsStart)
       ELSE /\ Goto("update") /\ at' = 0
            /\ UNCHANGED <<devices, selector, attempts, target, caller>>
    /\ UNCHANGED <<magic, enabled, journal, failures, blmode, bootflags, relay,
                   reset, disabling, suspects>>

\* Mutant of StartRequested: a pending reset is ignored
StartRequestedAnyway ==
    /\ pc = "start" /\ deviceWantsStart # NoPort
    /\ startTimer' = 0
    /\ deviceWantsStart' = NoPort
    /\ IF devices[deviceWantsStart].state = "STOPPED"
       THEN BeginStart(deviceWantsStart)
       ELSE /\ Goto("update") /\ at' = 0
            /\ UNCHANGED <<devices, selector, attempts, target, caller>>
    /\ UNCHANGED <<magic, enabled, journal, failures, blmode, bootflags, relay,
                   reset, disabling, suspects>>

\* startNextDevice: a start that was asked for, even one that is refused ...
StartRequested ==
    /\ pc = "start" /\ ~ reset.wanted /\ deviceWantsStart # NoPort
    /\ startTimer' = 0
    /\ deviceWantsStart' = NoPort
    /\ IF devices[deviceWantsStart].state = "STOPPED"
       THEN BeginStart(deviceWantsStart)
       ELSE /\ Goto("update") /\ at' = 0
            /\ UNCHANGED <<devices, selector, attempts, target, caller>>
    /\ UNCHANGED <<magic, enabled, journal, failures, blmode, bootflags, relay,
                   reset, disabling, suspects>>

\* ... or else the first port that can start, a while after the last switch
StartFirst ==
    /\ pc = "start" /\ ~ reset.wanted /\ deviceWantsStart = NoPort
    /\ startTimer > StartInterval
    /\ \E p \in Ports :
          /\ CanStart(p)
          /\ \A q \in Ports : q < p => ~ CanStart(q)
          /\ BeginStart(p)
    /\ startTimer' = 0
    /\ UNCHANGED <<magic, enabled, journal, failures, blmode, bootflags, relay,
                   deviceWantsStart, reset, disabling, suspects>>

StartNothing ==
    /\ pc = "start"
    /\ \/ reset.wanted
       \/ /\ deviceWantsStart = NoPort
          /\ startTimer > StartInterval => \A p \in Ports : ~ CanStart(p)
    /\ Goto("update") /\ at' = 0
    /\ UNCHANGED <<eeprom, relay, selector, ram, target, disabling, caller, suspects>>

\* Mutant of NextUpdate: the loop leaves the last port out
NextUpdateShort == IF at + 2 < PortCount THEN "update" ELSE "commands"

\* the loop over devices[i].update()
NextUpdate == IF at + 1 < PortCount THEN "update" ELSE "commands"
AdvanceUpdate == at' = IF at + 1 < PortCount THEN at + 1 ELSE 0

HeartbeatLost(d) ==
    d.state = "STARTED" /\ d.managed /\ d.watchHeartbeat
                        /\ d.heartbeatTimer > HeartbeatTimeout
SwitchDue(d) ==
    d.state = "STARTED" /\ ~ d.managed /\ d.stateTimer > UnmanagedTimeout
StopDue(d) ==
    d.state = "STOPPING" /\ d.stateTimer > d.stopTimeout

\* Mutant of UpdateHeartbeatLost: a counter wider than its record
UpdateHeartbeatLostWide(p, d) ==
    /\ HeartbeatLost(d)
    /\ failures' = [failures EXCEPT ![p] = @ + 1]
    /\ devices' = [devices EXCEPT ![p] = ChangeState(d, "STOPPING")]
    /\ Goto(NextUpdate)
    /\ UNCHANGED <<selector, target, disabling, caller>>

\* updateStartedManaged: count a boot failure, stop()
UpdateHeartbeatLost(p, d) ==
    /\ HeartbeatLost(d)
    /\ failures' = [failures EXCEPT ![p] = (@ + 1) % WordSize]
    /\ devices' = [devices EXCEPT ![p] = ChangeState(d, "STOPPING")]
    /\ Goto(NextUpdate)
    /\ UNCHANGED <<selector, target, disabling, caller>>

\* updateStartedUnmanaged: "unmanaged switch", stop()
UpdateUnmanagedSwitch(p, d) ==
    /\ SwitchDue(d)
    /\ SetNextBootMedia(p, ChangeState(d, "STOPPING"),
                        IF NextBootMedia(p, d) = SD THEN EMMC ELSE SD)
    /\ Goto(NextUpdate)
    /\ UNCHANGED <<failures, target, disabling, caller>>

\* updateStopping: the device had its time to shut down, kill()
UpdateStopDue(p, d) ==
    /\ StopDue(d)
    /\ devices' = [devices EXCEPT ![p] = [d EXCEPT !.stopTimeout = StopTimeout]]
    /\ BeginKill(p, FALSE, NextUpdate)
    /\ UNCHANGED <<failures, selector>>

\* updateDisabled would enable a disabled node controller, and updateStarting
\* would kill a device that is STARTING.  Neither can happen: no step makes the
\* node controller DISABLED, and no step leads to STARTING.
UpdateNothingDue(p, d) ==
    /\ ~ (HeartbeatLost(d) \/ SwitchDue(d) \/ StopDue(d))
    /\ devices' = [devices EXCEPT ![p] = d]
    /\ Goto(NextUpdate)
    /\ UNCHANGED <<failures, selector, target, disabling, caller>>

\* Device::update: the heartbeat first, then what the state asks for
Update(beat) ==
    /\ pc = "update"
    /\ beat => at \notin Silent
    /\ LET d == IF beat THEN OnHeartbeat(at, devices[at]) ELSE devices[at]
       IN  \/ UpdateHeartbeatLost(at, d)
           \/ UpdateUnmanagedSwitch(at, d)
           \/ UpdateStopDue(at, d)
           \/ UpdateNothingDue(at, d)
    /\ enabled' = IF beat THEN EnabledAfterHeartbeat(at, devices[at]) ELSE enabled
    /\ AdvanceUpdate
    /\ UNCHANGED <<magic, journal, attempts, blmode, bootflags, relay,
                   startTimer, deviceWantsStart, reset, suspects>>

Tick(t) == IF t < MaxTime THEN t + 1 ELSE t

PassTime ==
    /\ devices' = [p \in Ports |->
                     [devices[p] EXCEPT !.stateTimer = Tick(@), !.heartbeatTimer = Tick(@)]]
    /\ startTimer' = Tick(startTimer)
    /\ reset' = IF reset.wanted THEN [reset EXCEPT !.timer = Tick(@)] ELSE reset

\* the end of loop(): resetSystem, which waits for the watchdog, or delay
EndPass(tick) ==
    /\ pc = "commands"
    /\ Goto(IF reset.wanted /\ reset.timer > reset.timeout THEN "resetSystem"
                                                           ELSE "start")
    /\ IF tick THEN PassTime ELSE UNCHANGED <<devices, startTimer, reset>>
    /\ UNCHANGED <<eeprom, relay, selector, deviceWantsStart, at, target, disabling,
                   caller, suspects>>

\* resetSystem loops until the watchdog resets the processor
ResetSystem == pc = "resetSystem" /\ Reset("watchdog")

\* a time unit ends somewhere else in the program
TimeUnitEnds ==
    /\ pc \in TickPoints \ Booting
    /\ PassTime
    /\ UNCHANGED <<eeprom, relay, selector, deviceWantsStart, control, suspects>>
-----------------------------------------------------------------------------
(* processCommands: the commands that change state *)

CommandPing(p) ==
    /\ devices' = [devices EXCEPT ![p] = OnHeartbeat(p, @)]
    /\ enabled' = EnabledAfterHeartbeat(p, devices[p])
    /\ UNCHANGED <<magic, blmode, selector, deviceWantsStart, reset, control>>

CommandStart(p) ==
    /\ deviceWantsStart' = p
    /\ UNCHANGED <<magic, enabled, blmode, selector, devices, reset, control>>

\* Mutant of CommandStop: a stop of a device that is being stopped starts over
CommandStopAgain(p, timeout) ==
    /\ LET d == [devices[p] EXCEPT !.stopTimeout = timeout]
       IN  devices' = [devices EXCEPT ![p] =
                        IF d.state \in {"STARTED", "STOPPING"} THEN ChangeState(d, "STOPPING") ELSE d]
    /\ UNCHANGED <<magic, enabled, blmode, selector, deviceWantsStart, reset, control>>

\* the time to stop in is set whether or not stop() accepts
CommandStop(p, timeout) ==
    /\ LET d == [devices[p] EXCEPT !.stopTimeout = timeout]
       IN  devices' = [devices EXCEPT ![p] =
                        IF d.state = "STARTED" THEN ChangeState(d, "STOPPING") ELSE d]
    /\ UNCHANGED <<magic, enabled, blmode, selector, deviceWantsStart, reset, control>>

CommandReset(timeout) ==
    /\ reset' = [wanted |-> TRUE, timer |-> 0, timeout |-> timeout]
    /\ UNCHANGED <<magic, enabled, blmode, selector, devices, deviceWantsStart, control>>

CommandBootMedia(p, media) ==
    /\ SetNextBootMedia(p, devices[p], media)
    /\ UNCHANGED <<magic, enabled, blmode, deviceWantsStart, reset, control>>

\* Device::enable does not look at the state of the device or of its relay
CommandEnable(p) ==
    /\ enabled' = [enabled EXCEPT ![p] = TRUE]
    /\ devices' = [devices EXCEPT ![p] = ChangeState(@, "STOPPED")]
    /\ UNCHANGED <<magic, blmode, selector, deviceWantsStart, reset, control>>

CommandDisable(p) ==
    /\ Disable(p, "commands")
    /\ UNCHANGED <<magic, blmode, selector, deviceWantsStart, reset, at>>

CommandWatch(p, mode) ==
    /\ devices' = [devices EXCEPT ![p].watchHeartbeat = mode]
    /\ UNCHANGED <<magic, enabled, blmode, selector, deviceWantsStart, reset, control>>

CommandBLFlag(mode) ==
    /\ blmode' = mode
    /\ UNCHANGED <<magic, enabled, selector, devices, deviceWantsStart, reset, control>>

CommandResetEEPROM ==
    /\ magic' = FALSE
    /\ UNCHANGED <<enabled, blmode, selector, devices, deviceWantsStart, reset, control>>

Command ==
    /\ pc = "commands"
    /\ \/ \E p \in Ports :
            \/ "ping" \in Commands /\ CommandPing(p)
            \/ "start" \in Commands /\ CommandStart(p)
            \/ "stop" \in Commands /\ \E t \in StopTimeouts : CommandStop(p, t)
            \/ "bs" \in Commands /\ \E m \in Media : CommandBootMedia(p, m)
            \/ "enable" \in Commands /\ CommandEnable(p)
            \/ "disable" \in Commands /\ CommandDisable(p)
            \/ "watch" \in Commands /\ \E mode \in BOOLEAN : CommandWatch(p, mode)
       \/ "reset" \in Commands /\ \E t \in ResetTimeouts : CommandReset(t)
       \/ "blf" \in Commands /\ \E mode \in {"off", "sd", "emmc"} : CommandBLFlag(mode)
       \/ "eereset" \in Commands /\ CommandResetEEPROM
    /\ UNCHANGED <<journal, attempts, failures, bootflags, relay, startTimer, suspects>>
-----------------------------------------------------------------------------
\* a board fresh from the factory, or one whose EEPROM was cleared
Init ==
    /\ magic = FALSE
    /\ enabled = [p \in Ports |-> FALSE]
    /\ journal = [p \in Ports |-> "OFF"]
    /\ attempts = [p \in Ports |-> 0]
    /\ failures = [p \in Ports |-> 0]
    /\ blmode = "off"
    /\ bootflags = "power"
    /\ relay = [p \in Ports |-> FALSE]
    /\ selector = [i \in {0, 1} |-> SD]
    /\ devices = [p \in Ports |-> NewDevice(p, FALSE)]
    /\ startTimer = 0
    /\ deviceWantsStart = NoPort
    /\ reset = [wanted |-> FALSE, timer |-> 0, timeout |-> 0]
    /\ pc = "bootloader"
    /\ at = 0
    /\ target = NC
    /\ disabling = FALSE
    /\ caller = "recover"
    /\ suspects = {}

Boot == BootloaderStart \/ BootloaderExit \/ InitRecord \/ SetupDevices
Recover == RecoverNext \/ RecoverJournal \/ RecoverPort \/ FinishSetup
Switch == TurnOn \/ RelayOn \/ TurnedOn \/ TurnOff \/ RelayOff \/ TurnedOff
StartNext == StartRequested \/ StartFirst \/ StartNothing

\* what the processor does by itself
Program ==
    \/ Boot \/ Recover \/ Switch \/ StartNext
    \/ \E beat \in BOOLEAN : Update(beat)
    \/ \E tick \in BOOLEAN : EndPass(tick)
    \/ ResetSystem

Next ==
    \/ Program
    \/ Command
    \/ TimeUnitEnds
    \/ \E cause \in Faults : Reset(cause)

Spec == Init /\ [][Next]_vars

\* The processor does not stop, processCommands leaves after 240 characters,
\* and passes of the main loop take time.
FairSpec == Spec /\ WF_vars(Program) /\ SF_vars(EndPass(TRUE))
-----------------------------------------------------------------------------
(* Safety *)

\* The assumption in the comment of the recovery loop ("there should only be
\* one incomplete relay state"): however often and wherever the board is
\* reset, at most one journal entry is open, and none is while the main loop
\* runs outside of start() and kill().
OneIncomplete ==
    /\ \A p, q \in Ports : Incomplete(p) /\ Incomplete(q) => p = q
    /\ pc \in Looping => \A p \in Ports : ~ Incomplete(p)

\* The journal is a write-ahead log of the relays: a powered port is never on
\* record as OFF, so a reset at any point is visible to the recovery.  The node
\* controller is an exception, as its latch outlives the program and the
\* bootloader switches it without a record.
WriteAhead ==
    \A p \in Ports \ {NC} : relay[p] => journal[p] # "OFF"

\* A device that was disabled, by command, by the recovery or in the record at
\* start-up, is without power; it stays on record as disabled; and the node
\* controller never is disabled.
DisabledUnpowered ==
    pc \notin Booting =>
        \A p \in Ports : devices[p].state = "DISABLED" =>
                            p # NC /\ ~ relay[p] /\ ~ enabled[p]

\* After a power fault that interrupted the switching of a relay, setup() does
\* not end before the device on that relay is off, disabled in RAM and in
\* EEPROM and its journal entry closed.
SuspectsDisabled ==
    pc = "recover" /\ at = PortCount =>
        \A p \in suspects \ {NC} : /\ devices[p].state = "DISABLED"
                                   /\ ~ enabled[p] /\ ~ relay[p]
                                   /\ journal[p] = "OFF"

\* No port but the node controller's is ever switched on while it is on record
\* as disabled: not by a command, not by a late heartbeat, not by the recovery.
NeverPowersDisabled ==
    [][\A p \in Ports \ {NC} : ~ relay[p] /\ relay'[p] => enabled[p]]_vars

\* "don't bother starting any new devices once we've decided to reset": from a
\* reset command to the reset, no relay is switched on, although starts that
\* were asked for before or after it are still pending.
NoStartOnceResetting ==
    [][\A p \in Ports : ~ relay[p] /\ relay'[p] => ~ reset.wanted]_vars

\* The relays and the journal, as RelayJournal sees them.
Powered == {p \in Ports : relay[p]}
Entry(p) == IF Incomplete(p) THEN "open" ELSE IF journal[p] = "ON" THEN "on" ELSE "off"
Entries == [p \in Ports |-> Entry(p)]
RJ == INSTANCE RelayJournal
        WITH Latched <- {NC}, powered <- Powered, record <- Entries

\* Device::start, Device::kill, the recovery and Record::init implement the
\* journal: no relay but the node controller's moves outside of an open entry,
\* no entry is opened while another one is open, and the entry that closes one
\* says how the relay is, wherever resets have cut the program off.
ImplementsJournal == RJ!Spec

\* An override of the boot media is on the selector of its device until the
\* device starts ("This will allow the device to reboot itself into another
\* media").  The guest node, port 1, has a selector of its own.
OverrideSelected(p) ==
    devices[p].forceBootMedia # NoMedia =>
        selector[SelectorOf(p)] = devices[p].forceBootMedia
GuestOverrideSelected == 1 \in Ports => OverrideSelected(1)

\* The same of every device, as the comment says it.
AllOverridesSelected == \A p \in Ports : OverrideSelected(p)

-----------------------------------------------------------------------------
(* Liveness *)

\* A stop ends: the device is killed, disabled or enabled anew, or the board is
\* reset.  No series of commands or heartbeats keeps a device STOPPING.
StopEnds ==
    \A p \in Ports : devices[p].state = "STOPPING" ~> devices[p].state # "STOPPING"

\* A running device that gives no sign of life does not stay so: a managed one
\* loses its heartbeat, an unmanaged one is switched to other media.
SilentStopped ==
    \A p \in Silent \cap Ports :
        devices[p].state = "STARTED" /\ (devices[p].managed => devices[p].watchHeartbeat)
          ~> devices[p].state # "STARTED"

\* A device that never gives a sign of life is powered from each of its media:
\* by the cycle of four while it is managed, and again and again by the media
\* switch when it no longer is.
SilentTriesBothMedia ==
    \A p \in Silent \cap Ports : \A media \in {PrimaryMedia(p), SecondaryMedia(p)} :
        LET tried == pc = "turnedOn" /\ target = p /\ selector[SelectorOf(p)] = media
        IN  <>(tried /\ devices[p].managed) /\ []<>tried

\* Every device that is enabled gets its turn to start, although the ports are
\* tried in order and every start and every kill of another port puts the next
\* start off.
StoppedStarts ==
    \A p \in Ports : devices[p].state = "STOPPED" ~> devices[p].state # "STOPPED"
=============================================================================
