--------------------------- MODULE PowerManager4 ---------------------------
(***************************************************************************)
(* The power manager of the version 4 board (regular mode).  It descends   *)
(* from version 3, and differs where it matters here: every relay is a     *)
(* latch that outlives a reset, nothing is recovered at start-up, setup()  *)
(* itself starts the node controller, start() only refuses a device that   *)
(* is STOPPING, stop() does not refuse a disabled one, and there is no     *)
(* command to disable a device.                                            *)
(*                                                                         *)
(* The program is sequential; resets may come between any two steps.  An   *)
(* action makes at most one EEPROM write that is read again, or one relay  *)
(* operation.  The relay journal is written but never read by this         *)
(* firmware, and is left out.                                              *)
(*                                                                         *)
(* A timer is the number of time units since its reset, up to MaxTime.  Of *)
(* the timers of a device each state reads one, and entering a state       *)
(* resets them all: timer is heartbeatTimer in a managed device that is    *)
(* STARTED, and stateTimer otherwise.                                      *)
(***************************************************************************)
EXTENDS Integers

CONSTANTS
    Ports,              \* the ports of the five that are used
    WordSize,           \* 2^32: boot counters are unsigned ints, of four bytes
    ManagedLimit,       \* 30: boot failures that end managed mode
    RetryCycle,         \* 4: every fourth failure boots the secondary media
    HeartbeatTimeout,   \* HEARTBEAT_TIMEOUT
    UnmanagedTimeout,   \* 4 hours between media switches in unmanaged mode
    StartInterval,      \* a minute between two automatic starts
    StopTimeout,        \* a minute, the default time to shut down in
    StopTimeouts,       \* the times that a stop command may give
    MaxTime,            \* where timers stop counting
    Commands,           \* the commands that are used
    Faults,             \* the causes of reset that occur
    Silent              \* ports that never give a sign of life

NC == 0
NoPort == 255
SD == "sd"
EMMC == "emmc"
Media == {SD, EMMC}
NoMedia == "none"       \* shouldForceBootMedia = false
Time == 0 .. MaxTime

ASSUME PortAssumption == NC \in Ports /\ Ports \subseteq 0 .. 4
ASSUME CounterAssumption ==
    WordSize \in Nat \ {0} /\ ManagedLimit \in Nat /\ RetryCycle \in Nat \ {0}
ASSUME TimeAssumption ==
    /\ MaxTime \in Nat
    /\ StopTimeouts \union {HeartbeatTimeout, UnmanagedTimeout, StartInterval, StopTimeout}
         \subseteq 0 .. MaxTime - 1
ASSUME FaultAssumption == Faults \subseteq {"power", "watchdog"}

VARIABLES
    \* EEPROM
    magic, enabled, attempts, failures,
    \* hardware
    relay, selector,
    \* RAM
    devices, startTimer, deviceWantsStart, shouldResetSystem,
    \* control
    pc,         \* what the program does next
    todo,       \* the ports that this pass of the main loop has yet to update
    target,     \* the port of the running start() or kill()
    caller      \* where it returns to

eeprom == <<magic, enabled, attempts, failures>>
ram == <<devices, startTimer, deviceWantsStart, shouldResetSystem>>
control == <<pc, todo, target, caller>>
vars == <<eeprom, relay, selector, ram, control>>

States == {"DISABLED", "STOPPED", "STARTED", "STOPPING"}
Device == [state : States, managed : BOOLEAN, forceBootMedia : Media \union {NoMedia},
           stopTimeout : Time, timer : Time]

\* Every variable has its type; a port that the default record enables is
\* never disabled.
TypeOK ==
    /\ magic \in BOOLEAN
    /\ enabled \in [Ports -> BOOLEAN]
    /\ attempts \in [Ports -> 0 .. WordSize - 1]
    /\ failures \in [Ports -> 0 .. WordSize - 1]
    /\ relay \in [Ports -> BOOLEAN]
    /\ selector \in [{0, 1} -> Media]
    /\ devices \in [Ports -> Device]
    /\ \A p \in Ports : pc # "setup" /\ p <= 2 => devices[p].state # "DISABLED"
    /\ startTimer \in Time
    /\ deviceWantsStart \in Ports \union {NoPort}
    /\ shouldResetSystem \in BOOLEAN
    /\ pc \in {"setup", "relayOn", "relayOff", "start", "update", "commands", "resetSystem"}
    /\ todo \subseteq Ports
    /\ target \in Ports
    /\ caller \in {"start", "update", "commands"}
-----------------------------------------------------------------------------
(* Device.cpp on the object of one port *)

ChangeState(d, newState) ==
    [d EXCEPT !.state = newState, !.timer = 0]

\* setupDevices and Device::init; managed is only set by start()
NewDevice(isEnabled) ==
    [state |-> IF isEnabled THEN "STOPPED" ELSE "DISABLED", managed |-> FALSE,
     forceBootMedia |-> NoMedia, stopTimeout |-> StopTimeout, timer |-> 0]

\* setupDevices leaves the selector of ports 2 and up, and the media of ports
\* 3 and up, at zero
SelectorOf(p) == IF p = 1 THEN 1 ELSE 0
PrimaryMedia(p) == IF p <= 2 THEN EMMC ELSE SD
SecondaryMedia(p) == SD
WatchHeartbeat(p) == p <= 2

\* Device::getNextBootMedia
NextBootMedia(p, d) ==
    LET turn == IF d.managed THEN failures[p] % RetryCycle = RetryCycle - 1
                             ELSE attempts[p] % 2 = 1
    IN  IF d.forceBootMedia # NoMedia THEN d.forceBootMedia
        ELSE IF turn THEN SecondaryMedia(p) ELSE PrimaryMedia(p)

\* Mutant of OnHeartbeat: a device that is STOPPING is taken to be running, too
OnHeartbeatRevives(p, d) ==
    CASE d.state \in {"STOPPED", "STOPPING"} -> ChangeState(d, "STARTED")
      [] d.state = "DISABLED" /\ p # NC      -> ChangeState(d, "DISABLED")
      [] d.state = "STARTED" /\ d.managed    -> [d EXCEPT !.timer = 0]
      [] OTHER                               -> d

\* Device::onHeartbeat.  The disable() of a disabled device changes nothing
\* but its timers: it is on record as disabled, and kill() refuses it.
OnHeartbeat(p, d) ==
    CASE d.state = "STOPPED"              -> ChangeState(d, "STARTED")
      [] d.state = "DISABLED" /\ p # NC   -> ChangeState(d, "DISABLED")
      [] d.state = "STARTED" /\ d.managed -> [d EXCEPT !.timer = 0]
      [] OTHER                            -> d

GetDeviceEnabled(p) == p = NC \/ enabled[p]
CanStart(p) == devices[p].state = "STOPPED" /\ devices[p].timer > 0
-----------------------------------------------------------------------------
(* Device::start and Device::kill *)

Goto(label) == pc' = label

\* Device::start up to the relay, for a device that is not STOPPING.  The boot
\* log is that of module BootLog.
BeginStart(p, return) ==
    LET d == [devices[p] EXCEPT !.managed = failures[p] < ManagedLimit]
    IN  /\ devices' = [devices EXCEPT ![p] = [d EXCEPT !.forceBootMedia = NoMedia]]
        /\ selector' = [selector EXCEPT ![SelectorOf(p)] = NextBootMedia(p, d)]
        /\ attempts' = [attempts EXCEPT ![p] = (@ + 1) % WordSize]
        /\ target' = p
        /\ caller' = return
        /\ Goto("relayOn")

\* Mutant of RelayOn: the relay is not pulsed
RelayOnUnlatched ==
    /\ pc = "relayOn"
    /\ relay' = relay
    /\ devices' = [devices EXCEPT ![target] = ChangeState(@, "STARTED")]
    /\ Goto(caller)
    /\ target' = NC
    /\ caller' = "start"
    /\ UNCHANGED <<eeprom, selector, startTimer, deviceWantsStart, shouldResetSystem, todo>>

RelayOn ==
    /\ pc = "relayOn"
    /\ relay' = [relay EXCEPT ![target] = TRUE]
    /\ devices' = [devices EXCEPT ![target] = ChangeState(@, "STARTED")]
    /\ Goto(caller)
    /\ target' = NC
    /\ caller' = "start"
    /\ UNCHANGED <<eeprom, selector, startTimer, deviceWantsStart, shouldResetSystem, todo>>

\* Device::kill on a device that is not disabled
BeginKill(p, return) == target' = p /\ caller' = return /\ Goto("relayOff")

\* Mutant of RelayOff: the relay is not pulsed
RelayOffUnlatched ==
    /\ pc = "relayOff"
    /\ relay' = relay
    /\ devices' = [devices EXCEPT ![target] = ChangeState(@, "STOPPED")]
    /\ startTimer' = 0
    /\ Goto(caller)
    /\ target' = NC
    /\ caller' = "start"
    /\ UNCHANGED <<eeprom, selector, deviceWantsStart, shouldResetSystem, todo>>

RelayOff ==
    /\ pc = "relayOff"
    /\ relay' = [relay EXCEPT ![target] = FALSE]
    /\ devices' = [devices EXCEPT ![target] = ChangeState(@, "STOPPED")]
    /\ startTimer' = 0
    /\ Goto(caller)
    /\ target' = NC
    /\ caller' = "start"
    /\ UNCHANGED <<eeprom, selector, deviceWantsStart, shouldResetSystem, todo>>

\* Device::setNextBootMedia; the selector moves at once
SetNextBootMedia(p, d, media) ==
    /\ selector' = [selector EXCEPT ![SelectorOf(p)] = media]
    /\ devices' = [devices EXCEPT ![p] = [d EXCEPT !.forceBootMedia = media]]
-----------------------------------------------------------------------------
(* from reset to the main loop *)

\* The latches hold through a watchdog reset.  What they hold when the supply
\* comes back is up to the hardware.
Reset(cause) ==
    /\ relay' \in IF cause = "power" THEN [Ports -> BOOLEAN] ELSE {relay}
    /\ devices' = [p \in Ports |-> NewDevice(TRUE)]
    /\ selector' = [i \in {0, 1} |-> SD]
    /\ startTimer' = 0
    /\ deviceWantsStart' = NoPort
    /\ shouldResetSystem' = FALSE
    /\ todo' = {}
    /\ target' = NC
    /\ caller' = "start"
    /\ Goto("setup")
    /\ UNCHANGED eeprom

\* Record::init; the magic number is written last, so a reset in the middle
\* runs all of it again
InitRecord ==
    /\ pc = "setup" /\ ~ magic
    /\ magic' = TRUE
    /\ enabled' = [p \in Ports |-> p <= 2]
    /\ attempts' = [p \in Ports |-> 0]
    /\ failures' = [p \in Ports |-> 0]
    /\ UNCHANGED <<relay, selector, ram, control>>

\* setup(): the node controller is started here and, because of
\* deviceWantsStart, once more in the first pass of the main loop
Setup ==
    /\ pc = "setup" /\ magic
    /\ LET new == [p \in Ports |-> NewDevice(GetDeviceEnabled(p))]
           managed == failures[NC] < ManagedLimit
       IN  /\ devices' = [new EXCEPT ![NC].managed = managed]
           /\ selector' = [selector EXCEPT ![SelectorOf(NC)] =
                              NextBootMedia(NC, [new[NC] EXCEPT !.managed = managed])]
    /\ attempts' = [attempts EXCEPT ![NC] = (@ + 1) % WordSize]
    /\ deviceWantsStart' = NC
    /\ target' = NC
    /\ caller' = "start"
    /\ Goto("relayOn")
    /\ UNCHANGED <<magic, enabled, failures, relay, startTimer, shouldResetSystem, todo>>
-----------------------------------------------------------------------------
(* the main loop *)

\* Mutant of StartRequested: start() refuses no device
StartRequestedAlways ==
    /\ pc = "start" /\ ~ shouldResetSystem /\ deviceWantsStart # NoPort
    /\ startTimer' = 0
    /\ deviceWantsStart' = NoPort
    /\ todo' = Ports
    /\ BeginStart(deviceWantsStart, "update")
    /\ UNCHANGED <<magic, enabled, failures, relay, shouldResetSystem>>

\* startNextDevice: a start that was asked for, of any device but one that is
\* STOPPING ...
StartRequested ==
    /\ pc = "start" /\ ~ shouldResetSystem /\ deviceWantsStart # NoPort
    /\ startTimer' = 0
    /\ deviceWantsStart' = NoPort
    /\ todo' = Ports
    /\ IF devices[deviceWantsStart].state # "STOPPING"
       THEN BeginStart(deviceWantsStart, "update")
       ELSE Goto("update") /\ UNCHANGED <<devices, selector, attempts, target, caller>>
    /\ UNCHANGED <<magic, enabled, failures, relay, shouldResetSystem>>

\* ... or else the first port that can start, a while after the last switch
StartFirst(p) ==
    /\ pc = "start" /\ ~ shouldResetSystem /\ deviceWantsStart = NoPort
    /\ startTimer > StartInterval
    /\ CanStart(p)
    /\ \A q \in Ports : q < p => ~ CanStart(q)
    /\ startTimer' = 0
    /\ todo' = Ports
    /\ BeginStart(p, "update")
    /\ UNCHANGED <<magic, enabled, failures, relay, deviceWantsStart, shouldResetSystem>>

StartNothing ==
    /\ pc = "start"
    /\ \/ shouldResetSystem
       \/ /\ deviceWantsStart = NoPort
          /\ startTimer > StartInterval => \A p \in Ports : ~ CanStart(p)
    /\ todo' = Ports
    /\ Goto("update")
    /\ UNCHANGED <<eeprom, relay, selector, ram, target, caller>>

HeartbeatLost(p, d) ==
    d.state = "STARTED" /\ d.managed /\ WatchHeartbeat(p) /\ d.timer > HeartbeatTimeout
SwitchDue(d) == d.state = "STARTED" /\ ~ d.managed /\ d.timer > UnmanagedTimeout
StopDue(d) == d.state = "STOPPING" /\ d.timer > d.stopTimeout

\* Mutant of UpdateHeartbeatLost: a counter wider than its record
UpdateHeartbeatLostWide(p, d) ==
    /\ HeartbeatLost(p, d)
    /\ failures' = [failures EXCEPT ![p] = @ + WordSize]
    /\ devices' = [devices EXCEPT ![p] = ChangeState(d, "STOPPING")]
    /\ UNCHANGED <<selector, pc, target, caller>>

\* updateStartedManaged: count a boot failure, stop()
UpdateHeartbeatLost(p, d) ==
    /\ HeartbeatLost(p, d)
    /\ failures' = [failures EXCEPT ![p] = (@ + 1) % WordSize]
    /\ devices' = [devices EXCEPT ![p] = ChangeState(d, "STOPPING")]
    /\ UNCHANGED <<selector, pc, target, caller>>

\* updateStartedUnmanaged: the other media next, stop()
UpdateUnmanagedSwitch(p, d) ==
    /\ SwitchDue(d)
    /\ SetNextBootMedia(p, ChangeState(d, "STOPPING"),
                        IF NextBootMedia(p, d) = SD THEN EMMC ELSE SD)
    /\ UNCHANGED <<failures, pc, target, caller>>

\* updateStopping: the device had its time to shut down, kill()
UpdateStopDue(p, d) ==
    /\ StopDue(d)
    /\ devices' = [devices EXCEPT ![p] = [d EXCEPT !.stopTimeout = StopTimeout]]
    /\ BeginKill(p, "update")
    /\ UNCHANGED <<failures, selector>>

\* updateDisabled would enable a disabled node controller, which none is
UpdateNothingDue(p, d) ==
    /\ ~ (HeartbeatLost(p, d) \/ SwitchDue(d) \/ StopDue(d))
    /\ devices' = [devices EXCEPT ![p] = d]
    /\ UNCHANGED <<failures, selector, pc, target, caller>>

\* Device::update, port after port.  Only port 2 has a heartbeat line; checkPinHB
\* overwrites an edge that the main loop has not seen in time, so a beat may go
\* unheard at any pass.
Update(beat) ==
    /\ pc = "update" /\ todo # {}
    /\ LET p == CHOOSE q \in todo : \A r \in todo : q <= r
           d == IF beat THEN OnHeartbeat(p, devices[p]) ELSE devices[p]
       IN  /\ beat => p = 2 /\ p \notin Silent
           /\ todo' = todo \ {p}
           /\ \/ UpdateHeartbeatLost(p, d)
              \/ UpdateUnmanagedSwitch(p, d)
              \/ UpdateStopDue(p, d)
              \/ UpdateNothingDue(p, d)
    /\ UNCHANGED <<magic, enabled, attempts, relay, startTimer, deviceWantsStart,
                   shouldResetSystem>>

UpdatesDone ==
    /\ pc = "update" /\ todo = {}
    /\ Goto("commands")
    /\ UNCHANGED <<eeprom, relay, selector, ram, todo, target, caller>>

Tick(t) == IF t < MaxTime THEN t + 1 ELSE t

PassTime ==
    /\ devices' = [p \in Ports |-> [devices[p] EXCEPT !.timer = Tick(@)]]
    /\ startTimer' = Tick(startTimer)

\* The end of loop().  A reset that was asked for waits for the next
\* millisecond, which may be another pass.
EndPass(tick, later) ==
    /\ pc = "commands"
    /\ tick => later
    /\ Goto(IF shouldResetSystem /\ later THEN "resetSystem" ELSE "start")
    /\ IF tick THEN PassTime ELSE UNCHANGED <<devices, startTimer>>
    /\ UNCHANGED <<eeprom, relay, selector, deviceWantsStart, shouldResetSystem, todo,
                   target, caller>>

\* resetSystem loops until the watchdog resets the processor
ResetSystem == pc = "resetSystem" /\ Reset("watchdog")
-----------------------------------------------------------------------------
(* processCommand: the commands that change state *)

CommandPing(p) ==
    /\ p \notin Silent
    /\ devices' = [devices EXCEPT ![p] = OnHeartbeat(p, @)]
    /\ UNCHANGED <<magic, enabled, selector, deviceWantsStart, shouldResetSystem, control>>

CommandStart(p) ==
    /\ deviceWantsStart' = p
    /\ UNCHANGED <<magic, enabled, selector, devices, shouldResetSystem, control>>

\* Mutant of CommandStop: a device that is STARTED is killed at once, too
CommandStopKills(p, timeout) ==
    /\ LET d == [devices[p] EXCEPT !.stopTimeout = timeout]
       IN  /\ devices' = [devices EXCEPT ![p] =
                            IF d.state = "DISABLED" THEN ChangeState(d, "STOPPING") ELSE d]
           /\ IF d.state \in {"STOPPED", "STARTED"} THEN BeginKill(p, "commands")
                                                   ELSE UNCHANGED <<pc, target, caller>>
    /\ UNCHANGED <<magic, enabled, selector, deviceWantsStart, shouldResetSystem, todo>>

\* the time to stop in is set whatever stop() then does; a device that is
\* STOPPED is killed at once, a disabled one becomes STOPPING
CommandStop(p, timeout) ==
    /\ LET d == [devices[p] EXCEPT !.stopTimeout = timeout]
       IN  /\ devices' = [devices EXCEPT ![p] =
                            IF d.state \in {"DISABLED", "STARTED"}
                            THEN ChangeState(d, "STOPPING") ELSE d]
           /\ IF d.state = "STOPPED" THEN BeginKill(p, "commands")
                                     ELSE UNCHANGED <<pc, target, caller>>
    /\ UNCHANGED <<magic, enabled, selector, deviceWantsStart, shouldResetSystem, todo>>

\* Device::enable does not look at the state of the device or of its relay
CommandEnable(p) ==
    /\ enabled' = [enabled EXCEPT ![p] = TRUE]
    /\ devices' = [devices EXCEPT ![p] = ChangeState(@, "STOPPED")]
    /\ UNCHANGED <<magic, selector, deviceWantsStart, shouldResetSystem, control>>

CommandSetMediaSelect(p, media) ==
    /\ p \in {0, 1}
    /\ SetNextBootMedia(p, devices[p], media)
    /\ UNCHANGED <<magic, enabled, deviceWantsStart, shouldResetSystem, control>>

CommandReset ==
    /\ shouldResetSystem' = TRUE
    /\ UNCHANGED <<magic, enabled, selector, devices, deviceWantsStart, control>>

CommandResetEEPROM ==
    /\ magic' = FALSE
    /\ UNCHANGED <<enabled, selector, devices, deviceWantsStart, shouldResetSystem, control>>

Command ==
    /\ pc = "commands"
    /\ \/ \E p \in Ports :
            \/ "ping" \in Commands /\ CommandPing(p)
            \/ "start" \in Commands /\ CommandStart(p)
            \/ "stop" \in Commands /\ \E t \in StopTimeouts : CommandStop(p, t)
            \/ "enable" \in Commands /\ CommandEnable(p)
            \/ "bs" \in Commands /\ \E m \in Media : CommandSetMediaSelect(p, m)
       \/ "reset" \in Commands /\ CommandReset
       \/ "eereset" \in Commands /\ CommandResetEEPROM
    /\ UNCHANGED <<attempts, failures, relay, startTimer>>
-----------------------------------------------------------------------------
\* a board fresh from the factory, switched on for the first time
Init ==
    /\ magic = FALSE
    /\ enabled = [p \in Ports |-> FALSE]
    /\ attempts = [p \in Ports |-> 0]
    /\ failures = [p \in Ports |-> 0]
    /\ relay = [p \in Ports |-> FALSE]
    /\ selector = [i \in {0, 1} |-> SD]
    /\ devices = [p \in Ports |-> NewDevice(TRUE)]
    /\ startTimer = 0
    /\ deviceWantsStart = NoPort
    /\ shouldResetSystem = FALSE
    /\ pc = "setup"
    /\ todo = {}
    /\ target = NC
    /\ caller = "start"

StartNext == StartRequested \/ (\E p \in Ports : StartFirst(p)) \/ StartNothing

\* what the processor does by itself
Program ==
    \/ InitRecord \/ Setup \/ RelayOn \/ RelayOff \/ StartNext
    \/ \E beat \in BOOLEAN : Update(beat)
    \/ UpdatesDone
    \/ \E tick, later \in BOOLEAN : EndPass(tick, later)
    \/ ResetSystem

Fault == \E cause \in Faults : Reset(cause)

Next == Program \/ Command \/ Fault

Spec == Init /\ [][Next]_vars

\* The processor does not stop, processCommands leaves after the characters
\* that were there when it began, and passes of the main loop take time.
FairSpec == Spec /\ WF_vars(Program) /\ SF_vars(EndPass(TRUE, TRUE))
-----------------------------------------------------------------------------
(* Safety *)

\* start() returns ERROR_INVALID_ACTION to a device that is STOPPING, and neither
\* a start that was asked for before or after the stop, nor a heartbeat, nor a
\* ping takes the stop back: unless the board is reset, the device goes on
\* STOPPING until kill() has cut its power.  The one command that does take it
\* back is enable(), which makes the device STOPPED with its power on, to be
\* started again.
OnlyEnableUndoesStop ==
    [][\A p \in Ports : devices[p].state = "STOPPING"
                          => \/ devices'[p].state = "STOPPING"
                             \/ devices'[p].state = "STOPPED" /\ ~ relay'[p]
                             \/ pc = "commands" /\ CommandEnable(p)
                             \/ pc' = "setup"]_vars

\* A device that is STARTED keeps its power: updateStopping, and stop() for a
\* device that is STOPPED, are all that calls kill(), so but for resets the
\* program cuts no relay but that of a device that is STOPPING or STOPPED.
CutsOnlyStopped ==
    [][\A p \in Ports : relay[p] /\ ~ relay'[p] /\ pc' # "setup"
                          => devices[p].state \in {"STOPPING", "STOPPED"}]_vars

\* The state of a device and its latch part only by a reset, which makes every
\* device STOPPED, or by a sign of life: a device that gives none is STARTED
\* only while it has power.
SilentStartedPowered ==
    \A p \in Silent \cap Ports : devices[p].state = "STARTED" => relay[p]
-----------------------------------------------------------------------------
(* Liveness *)

\* the last command and the last fault have been
Quiet == <>[][~ Command /\ ~ Fault]_vars

\* no enable takes a stop of p back any more, and no reset forgets one
StopsLast(p) ==
    <>[][/\ pc' # "setup"
         /\ ~ (devices[p].state = "STOPPING" /\ pc = "commands" /\ CommandEnable(p))]_vars

\* A device whose heartbeat is watched and that gives no sign of life is power
\* cycled again and again, also when a reset left it STOPPED with its relay on,
\* which no start() and no heartbeat would switch off.  For the node controller
\* this includes "NOTE We should have already started the NC during setup":
\* wherever the board was reset it has its power again and again.
SilentPowerCycled ==
    Quiet => \A p \in Silent \cap Ports :
                WatchHeartbeat(p) => []<>relay[p] /\ []<>(~ relay[p])

\* A stop ends with the power cut.  No series of starts, stops and pings and no
\* heartbeat keeps a device STOPPING for ever, or makes it run through one stop
\* after the other with its power on; only enable() and resets could.
StopCutsPower ==
    \A p \in Ports :
        StopsLast(p) => ([]<>(devices[p].state = "STOPPING") => []<>(~ relay[p]))
-----------------------------------------------------------------------------
\* "Enables a device to be powered on automatically": no port is started
\* without a command unless it is on record as enabled.
OnlyEnabledStart ==
    [][\A p \in Ports : StartFirst(p) => GetDeviceEnabled(p)]_vars
=============================================================================
