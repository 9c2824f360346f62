--------------------------- MODULE SystemMonitor ---------------------------
(***************************************************************************)
(* The system monitor of the v2 board (boards/v2/firmware).  It boots the  *)
(* node controller, the ethernet switch and the guest nodes one after the  *)
(* other, then passes once per timer cycle over all of them: it counts bad *)
(* readings, boots a device again whose readings stay bad, serves one      *)
(* request of the node controller, and from time to time tries the devices *)
(* that are not running.  The program is sequential and blocks in every    *)
(* boot; what surrounds it is not: readings, messages of the node          *)
(* controller and power failures come at any step.                         *)
(*                                                                         *)
(* The build is the one of the sources: BOOT_POST is not defined and       *)
(* SERIAL_DEBUG_ON is.                                                     *)
(***************************************************************************)
EXTENDS Integers, FiniteSets

CONSTANTS
    DeviceCount,    \* 5: node controller, switch, three guest nodes
    Checks,         \* the readings that are counted for each device and for
                    \* the monitor itself: temp, power, heartbeat, environ
    Limits,         \* the operating parameters the node controller may send
    DefaultLimits,  \* those of set_default_eeprom
    ByteSize,       \* 256
    Faults          \* {"power"} if power failures are considered

NC == 0
SW == 1
Devices == 0 .. DeviceCount - 1
SysMon == DeviceCount

LimitCells == {"primary", "subsystem", "timeout", "period"}

ASSUME DeviceAssumption == DeviceCount \in Nat \ {0, 1}

ASSUME LimitAssumption ==
    /\ Limits \subseteq [primary : Nat, subsystem : Nat, timeout : Nat, period : Nat]
    /\ DefaultLimits \in Limits
    \* each is a cell of its own
    /\ \A l, m \in Limits, k \in LimitCells : [l EXCEPT ![k] = m[k]] \in Limits
    /\ ByteSize \in Nat \ {0}

ASSUME FaultsAssumption == Faults \subseteq {"power"}

VARIABLES
    firstBoot,     \* EEPROM E_FIRST_BOOT # 0
    attempts,      \* EEPROM E_NUM_PRIMARY_BOOT_ATTEMPTS
    limits,        \* EEPROM, set by the node controller: maxima and timeouts
    present,       \* EEPROM E_PRESENT_*
    enabled,       \* EEPROM E_*_ENABLED
    relay,         \* the relay of each device
    running,       \* _NC_running, _switch_running, _GN*_running
    counts,        \* count_timeout_*
    rebootCount,   \* count_device_reboot
    pc, at,        \* control: program point, next device of a sequence
    dev,           \* the device that is being booted
    tries, heard,  \* boot_attempts, _heartbeat_detected
    caller         \* where the boot routine returns to

eeprom == <<firstBoot, attempts, limits, present, enabled>>
ram == <<running, counts, rebootCount>>
local == <<dev, tries, heard, caller>>
vars == <<eeprom, relay, ram, pc, at, local>>

Sequences == {"params", "setup", "react", "rebooting"}
Booting == {"bootOff", "bootTemp", "bootNC", "config", "power", "powerCycle",
            "powerAgain", "dead", "heartbeat", "beat", "beatCycle"}
Storing == LimitCells \union {"presentSwitch", "paramsGN", "presentGN"}
Points == Sequences \union Booting \union Storing \union
          {"init", "clearAttempts", "bootSysMon", "bootFailed", "restart", "giveUp",
           "asleep", "hung", "idle", "count", "request", "reboot"}

NoCounts == [d \in Devices \union {SysMon} |-> [k \in Checks[d] |-> 0]]

TypeOK ==
    /\ firstBoot \in BOOLEAN
    /\ attempts \in 0 .. ByteSize - 1
    /\ limits \in Limits
    /\ present \in [Devices -> BOOLEAN]
    /\ enabled \in [Devices -> BOOLEAN]
    /\ relay \in [Devices -> BOOLEAN]
    /\ running \in [Devices -> BOOLEAN]
    /\ DOMAIN counts = Devices \union {SysMon}
    /\ \A d \in DOMAIN counts : counts[d] \in [Checks[d] -> Nat]
    /\ rebootCount \in Nat
    /\ pc \in Points
    /\ at \in 0 .. DeviceCount
    /\ dev \in Devices
    /\ tries \in Nat
    /\ heard \in BOOLEAN
    /\ caller \in Sequences \union {"reboot"}
-----------------------------------------------------------------------------
(* Booting a device.  The caller has advanced its own place in the sequence *)
(* of devices, so a boot ends by going back to it.                          *)

Goto(label) == pc' = label

\* the locals of the boot routine go out of scope
Forget == dev' = NC /\ tries' = 0 /\ heard' = FALSE /\ caller' = "setup"

\* Only boot_primary looks at the result, and only for the node controller.
Fail == Forget /\ Goto(IF caller = "params" THEN "bootFailed" ELSE caller)

Succeed ==
    /\ running' = [running EXCEPT ![dev] = TRUE]
    /\ Forget
    /\ Goto(caller)

\* boot_NC always comes with POWER_ON_BOOT, so its RE_BOOT branch is not here.
CallBoot(d, return) ==
    /\ dev' = d
    /\ caller' = return
    /\ Goto(IF d = NC THEN "bootNC" ELSE "bootOff")
    /\ UNCHANGED <<tries, heard>>

\* Mutant of BootOff: the relay is left as it is
BootOffPowered ==
    /\ pc = "bootOff"
    /\ running' = [running EXCEPT ![dev] = FALSE]
    /\ relay' = relay
    /\ IF enabled[dev] /\ present[dev]
       THEN Goto("bootTemp") /\ UNCHANGED local
       ELSE Fail
    /\ UNCHANGED <<eeprom, counts, rebootCount, at>>

\* Mutant of BootOff: a look at E_*_ENABLED only
BootOffEnabled ==
    /\ pc = "bootOff"
    /\ running' = [running EXCEPT ![dev] = FALSE]
    /\ relay' = [relay EXCEPT ![dev] = FALSE]
    /\ IF enabled[dev]
       THEN Goto("bootTemp") /\ UNCHANGED local
       ELSE Fail
    /\ UNCHANGED <<eeprom, counts, rebootCount, at>>

\* boot_switch and boot_GN: off first, then a look at the record
BootOff ==
    /\ pc = "bootOff"
    /\ running' = [running EXCEPT ![dev] = FALSE]
    /\ relay' = [relay EXCEPT ![dev] = FALSE]
    /\ IF enabled[dev] /\ present[dev]
       THEN Goto("bootTemp") /\ UNCHANGED local
       ELSE Fail
    /\ UNCHANGED <<eeprom, counts, rebootCount, at>>

\* the temperature, read up to twice
BootTemp(good) ==
    /\ pc = "bootTemp"
    /\ IF good
       THEN /\ relay' = [relay EXCEPT ![dev] = TRUE]
            /\ Goto("power")
            /\ UNCHANGED local
       ELSE Fail /\ UNCHANGED relay
    /\ UNCHANGED <<eeprom, ram, at>>

\* boot_NC up to the relay: the environment is read up to twice; the second
\* reading of the temperature is ignored.  The relay may be on already.
BootNC(good) ==
    /\ pc = "bootNC"
    /\ IF enabled[NC] /\ good
       THEN /\ relay' = [relay EXCEPT ![NC] = TRUE]
            /\ Goto("config")
            /\ UNCHANGED local
       ELSE Fail /\ UNCHANGED relay
    /\ UNCHANGED <<eeprom, ram, at>>

\* the wait for the message that the node controller is configured
ConfigNC(done) ==
    /\ pc = "config"
    /\ IF done THEN Goto("power") /\ UNCHANGED local ELSE Fail
    /\ UNCHANGED <<eeprom, relay, ram, at>>

\* the switch has no heartbeat
PowerGood ==
    IF dev = SW THEN Succeed
    ELSE Goto("heartbeat") /\ UNCHANGED <<running, local>>

CheckPower(good) ==
    /\ pc = "power"
    /\ IF good
       THEN PowerGood /\ UNCHANGED relay
       ELSE /\ relay' = [relay EXCEPT ![dev] = FALSE]
            /\ Goto("powerCycle")
            /\ UNCHANGED <<running, local>>
    /\ UNCHANGED <<eeprom, counts, rebootCount, at>>

PowerCycle ==
    /\ pc = "powerCycle"
    /\ relay' = [relay EXCEPT ![dev] = TRUE]
    /\ Goto("powerAgain")
    /\ UNCHANGED <<eeprom, ram, at, local>>

\* Mutant of CheckPowerAgain: the device is marked dead with its power on
CheckPowerAgainLeavesOn(good) ==
    /\ pc = "powerAgain"
    /\ IF good
       THEN PowerGood /\ UNCHANGED relay
       ELSE /\ relay' = relay
            /\ Goto("dead")
            /\ UNCHANGED <<running, local>>
    /\ UNCHANGED <<eeprom, counts, rebootCount, at>>

CheckPowerAgain(good) ==
    /\ pc = "powerAgain"
    /\ IF good
       THEN PowerGood /\ UNCHANGED relay
       ELSE /\ relay' = [relay EXCEPT ![dev] = FALSE]
            /\ Goto("dead")
            /\ UNCHANGED <<running, local>>
    /\ UNCHANGED <<eeprom, counts, rebootCount, at>>

MarkDead ==
    /\ pc = "dead"
    /\ enabled' = [enabled EXCEPT ![dev] = FALSE]
    /\ Fail
    /\ UNCHANGED <<firstBoot, attempts, limits, present, relay, ram, at>>

CheckHeartbeat(good) ==
    /\ pc = "heartbeat"
    /\ IF good
       THEN Succeed
       ELSE /\ tries' = 1 /\ heard' = FALSE
            /\ Goto("beat")
            /\ UNCHANGED <<running, dev, caller>>
    /\ UNCHANGED <<eeprom, relay, counts, rebootCount, at>>

\* The loop for a heartbeat goes on after one was heard, and may cycle the
\* power of a device that was.
Beat(good) ==
    /\ pc = "beat" /\ tries < limits.subsystem
    /\ IF good
       THEN /\ heard' = TRUE
            /\ tries' = tries + 1
            /\ UNCHANGED <<relay, pc>>
       ELSE /\ relay' = [relay EXCEPT ![dev] = FALSE]
            /\ Goto("beatCycle")
            /\ UNCHANGED <<tries, heard>>
    /\ UNCHANGED <<eeprom, ram, at, dev, caller>>

BeatCycle ==
    /\ pc = "beatCycle"
    /\ relay' = [relay EXCEPT ![dev] = TRUE]
    /\ tries' = tries + 1
    /\ Goto("beat")
    /\ UNCHANGED <<eeprom, ram, at, dev, heard, caller>>

BeatEnd ==
    /\ pc = "beat" /\ tries >= limits.subsystem
    /\ IF heard
       THEN Succeed /\ UNCHANGED relay
       ELSE relay' = [relay EXCEPT ![dev] = FALSE] /\ Fail /\ UNCHANGED running
    /\ UNCHANGED <<eeprom, counts, rebootCount, at>>
-----------------------------------------------------------------------------
(* setup *)

Init ==
    /\ firstBoot = TRUE
    /\ attempts = ByteSize - 1
    /\ limits = DefaultLimits
    /\ present = [d \in Devices |-> TRUE]
    /\ enabled = [d \in Devices |-> TRUE]
    /\ relay = [d \in Devices |-> FALSE]
    /\ running = [d \in Devices |-> FALSE]
    /\ counts = NoCounts
    /\ rebootCount = 0
    /\ pc = "init"
    /\ at = 0
    /\ dev = NC /\ tries = 0 /\ heard = FALSE /\ caller = "setup"

\* the pins of the relays are inputs after a reset, and RAM is cleared
Reset ==
    /\ relay' = [d \in Devices |-> FALSE]
    /\ running' = [d \in Devices |-> FALSE]
    /\ counts' = NoCounts
    /\ rebootCount' = 0
    /\ at' = 0
    /\ Forget
    /\ Goto("init")
    /\ UNCHANGED eeprom

\* Mutant of InitPrimary: the line that clears the counter of failed boots is
\* not commented out
InitPrimaryClears ==
    /\ pc = "init"
    /\ attempts' = 0
    /\ IF firstBoot
       THEN /\ limits' = DefaultLimits
            /\ present' = [d \in Devices |-> d = NC]
            /\ firstBoot' = FALSE
            /\ Goto("clearAttempts")
       ELSE Goto("bootSysMon") /\ UNCHANGED <<limits, present, firstBoot>>
    /\ UNCHANGED <<enabled, relay, ram, at, local>>

\* init_primary and, on the first boot, set_default_eeprom.  E_FIRST_BOOT is
\* its last write but one, so a power failure before it runs all of it again.
\* E_PRESENT_NC does not exist: the node controller is expected to be there.
InitPrimary ==
    /\ pc = "init"
    /\ IF firstBoot
       THEN /\ limits' = DefaultLimits
            /\ present' = [d \in Devices |-> d = NC]
            /\ firstBoot' = FALSE
            /\ Goto("clearAttempts")
       ELSE Goto("bootSysMon") /\ UNCHANGED <<limits, present, firstBoot>>
    /\ UNCHANGED <<attempts, enabled, relay, ram, at, local>>

ClearAttempts ==
    /\ pc = "clearAttempts"
    /\ attempts' = 0
    /\ Goto("bootSysMon")
    /\ UNCHANGED <<firstBoot, limits, present, enabled, relay, ram, at, local>>

\* boot_SysMon, and boot_primary as far as boot_NC
BootSysMon(good) ==
    /\ pc = "bootSysMon"
    /\ IF good THEN CallBoot(NC, "params") ELSE Goto("bootFailed") /\ UNCHANGED local
    /\ UNCHANGED <<eeprom, relay, ram, at>>

\* Mutant of BootFailed: the number of attempts is not a byte
BootFailedWide ==
    /\ pc = "bootFailed"
    /\ attempts' = attempts + 1
    /\ Goto(IF attempts' < limits.primary THEN "restart" ELSE "giveUp")
    /\ UNCHANGED <<firstBoot, limits, present, enabled, relay, ram, at, local>>

BootFailed ==
    /\ pc = "bootFailed"
    /\ attempts' = (attempts + 1) % ByteSize
    /\ Goto(IF attempts' < limits.primary THEN "restart" ELSE "giveUp")
    /\ UNCHANGED <<firstBoot, limits, present, enabled, relay, ram, at, local>>

SoftRestart == pc = "restart" /\ Reset

GiveUp ==
    /\ pc = "giveUp"
    /\ attempts' = 0
    /\ relay' = [d \in Devices |-> FALSE]
    /\ Goto("asleep")
    /\ UNCHANGED <<firstBoot, limits, present, enabled, ram, at, local>>

\* get_params_core: a message that stays away leaves the record as it is.  One
\* without delimiters is read past its end for ever, with the interrupt feeding
\* the watchdog, before anything is stored; in one that is cut off the index
\* overflows, and either may happen.
GetParamsCore ==
    /\ pc = "params"
    /\ Goto("hung") \/ Goto("subsystem") \/ Goto("paramsGN")
    /\ UNCHANGED <<eeprom, relay, ram, at, local>>

\* The parameters are stored one after the other, so that a power failure may
\* leave some of an earlier start.
StoreLimit(cell, next) ==
    /\ pc = cell
    /\ \E l \in Limits : limits' = [limits EXCEPT ![cell] = l[cell]]
    /\ Goto(next)
    /\ UNCHANGED <<firstBoot, attempts, present, enabled, relay, ram, at, local>>

StorePresentSwitch ==
    /\ pc = "presentSwitch"
    /\ \E there \in BOOLEAN : present' = [present EXCEPT ![SW] = there]
    /\ Goto("timeout")
    /\ UNCHANGED <<firstBoot, attempts, limits, enabled, relay, ram, at, local>>

StoreParamsCore ==
    \/ StoreLimit("subsystem", "primary") \/ StoreLimit("primary", "period")
    \/ StoreLimit("period", "presentSwitch") \/ StorePresentSwitch
    \/ StoreLimit("timeout", "paramsGN")

\* get_params_GNs, likewise; the timeouts are those of get_params_core here
GetParamsGNs ==
    /\ pc = "paramsGN"
    /\ \/ Goto("hung") /\ at' = at
       \/ Goto("presentGN") /\ at' = SW + 1
       \/ Goto("setup") /\ at' = SW
    /\ UNCHANGED <<eeprom, relay, ram, local>>

StoreParamsGNs ==
    /\ pc = "presentGN"
    /\ IF at < DeviceCount
       THEN /\ \E there \in BOOLEAN : present' = [present EXCEPT ![at] = there]
            /\ at' = at + 1
            /\ UNCHANGED pc
       ELSE Goto("setup") /\ at' = SW /\ UNCHANGED present
    /\ UNCHANGED <<firstBoot, attempts, limits, enabled, relay, ram, local>>

GetParams == GetParamsCore \/ StoreParamsCore \/ GetParamsGNs \/ StoreParamsGNs

\* boot_switch, then boot_GN for every guest node
SetupDevice ==
    /\ pc = "setup"
    /\ IF at < DeviceCount
       THEN CallBoot(at, "setup") /\ at' = at + 1
       ELSE Goto("idle") /\ at' = 0 /\ UNCHANGED local
    /\ UNCHANGED <<eeprom, relay, ram>>
-----------------------------------------------------------------------------
(* loop: one pass per timer cycle *)

Count(d, bad) == [k \in Checks[d] |-> IF k \in bad THEN counts[d][k] + 1 ELSE 0]
Due(d) == \E k \in Checks[d] : counts[d][k] >= limits.timeout
Cleared(d) == [counts EXCEPT ![d] = [k \in Checks[d] |-> 0]]

\* the timer has finished a cycle; the monitor reads itself first
StartPass ==
    /\ pc = "idle"
    /\ \E bad \in SUBSET Checks[SysMon] :
           counts' = [counts EXCEPT ![SysMon] = Count(SysMon, bad)]
    /\ Goto("count")
    /\ UNCHANGED <<eeprom, relay, running, rebootCount, at, local>>

\* A device without power has no heartbeat.
CountDevice ==
    /\ pc = "count" /\ at < DeviceCount
    /\ IF running[at]
       THEN \E bad \in SUBSET Checks[at] :
              /\ ~ relay[at] => {"heartbeat"} \cap Checks[at] \subseteq bad
              /\ counts' = [counts EXCEPT ![at] = Count(at, bad)]
       ELSE UNCHANGED counts
    /\ at' = at + 1
    /\ UNCHANGED <<eeprom, relay, running, rebootCount, pc, local>>

\* Mutant of ReactSysMon: the counter for devices that are not running is lost
ReactSysMonForgets ==
    /\ pc = "count" /\ at = DeviceCount
    /\ rebootCount' = 0
    /\ IF Due(SysMon)
       THEN counts' = Cleared(SysMon) /\ Goto("restart")
       ELSE UNCHANGED counts /\ Goto("react")
    /\ at' = 0
    /\ UNCHANGED <<eeprom, relay, running, local>>

ReactSysMon ==
    /\ pc = "count" /\ at = DeviceCount
    /\ rebootCount' = rebootCount + 1
    /\ IF Due(SysMon)
       THEN counts' = Cleared(SysMon) /\ Goto("restart")
       ELSE UNCHANGED counts /\ Goto("react")
    /\ at' = 0
    /\ UNCHANGED <<eeprom, relay, running, local>>

ReactDevice ==
    /\ pc = "react" /\ at < DeviceCount
    /\ at' = at + 1
    /\ IF running[at] /\ Due(at)
       THEN counts' = Cleared(at) /\ CallBoot(at, "react")
       ELSE UNCHANGED <<counts, pc, local>>
    /\ UNCHANGED <<eeprom, relay, running, rebootCount>>

\* status report and time request, which change nothing here
ReactEnd ==
    /\ pc = "react" /\ at = DeviceCount
    /\ at' = 0
    /\ Goto("request")
    /\ UNCHANGED <<eeprom, relay, ram, local>>

\* at most one character of the node controller per pass
Request ==
    /\ pc = "request"
    /\ \/ Goto("reboot") /\ UNCHANGED local
       \/ \E d \in Devices : CallBoot(d, "reboot")
    /\ UNCHANGED <<eeprom, relay, ram, at>>

RebootDue ==
    /\ pc = "reboot"
    /\ IF rebootCount >= limits.period
       THEN rebootCount' = 0 /\ Goto("rebooting")
       ELSE UNCHANGED rebootCount /\ Goto("idle")
    /\ UNCHANGED <<eeprom, relay, running, counts, at, local>>

RebootDevice ==
    /\ pc = "rebooting"
    /\ IF at < DeviceCount
       THEN /\ at' = at + 1
            /\ IF ~ running[at] /\ enabled[at] /\ present[at]
               THEN CallBoot(at, "rebooting")
               ELSE UNCHANGED <<pc, local>>
       ELSE at' = 0 /\ Goto("idle") /\ UNCHANGED local
    /\ UNCHANGED <<eeprom, relay, ram>>
-----------------------------------------------------------------------------
Boot ==
    \/ BootOff \/ PowerCycle \/ MarkDead \/ BeatCycle \/ BeatEnd
    \/ \E good \in BOOLEAN :
          BootTemp(good) \/ BootNC(good) \/ ConfigNC(good) \/ CheckPower(good)
          \/ CheckPowerAgain(good) \/ CheckHeartbeat(good) \/ Beat(good)
Setup ==
    \/ InitPrimary \/ ClearAttempts \/ BootFailed \/ SoftRestart \/ GiveUp
    \/ GetParams \/ SetupDevice
    \/ \E good \in BOOLEAN : BootSysMon(good)
Loop ==
    \/ StartPass \/ CountDevice \/ ReactSysMon \/ ReactDevice \/ ReactEnd
    \/ Request \/ RebootDue \/ RebootDevice

Program == Boot \/ Setup \/ Loop
\* at "restart" it would do what the program does
PowerFailure == "power" \in Faults /\ pc # "restart" /\ Reset
Next == Program \/ PowerFailure

Spec == Init /\ [][Next]_vars

\* The processor does not stop and the timer goes on.
FairSpec == Spec /\ WF_vars(Program)
-----------------------------------------------------------------------------
(* Safety *)

\* Whenever the monitor is done with booting, what it supplies with power is
\* what it watches: a switch or guest node whose relay is on is marked as
\* running, and one that is not is off.  Every early return of boot_switch and
\* boot_GN, and every reset between their writes, has to see to it.
PoweredIsWatched ==
    pc \in {"idle", "count", "request", "reboot"} =>
        \A d \in Devices \ {NC} : relay[d] = running[d]

\* A device that was marked dead is without power, the node controller
\* included, although nothing but the record remembers it over a reset and
\* requests, retries and restarts of the monitor go on.
DeadUnpowered == \A d \in Devices : ~ enabled[d] => ~ relay[d]

\* Power goes to the devices the node controller says are there, and to no
\* others, although it says so over a link that may fall silent, anew in every
\* start of the monitor, and the record of an earlier start is used until then.
PowersOnlyPresent == \A d \in Devices : relay[d] => present[d]
-----------------------------------------------------------------------------
(* Liveness, for a power supply that stops failing at some time *)

PowerStays == <>[][~ PowerFailure]_vars

\* "Number of boot attempts not yet reached maximum allowed?": a board that
\* goes on failing to boot does not restart for ever; it gives up, with all
\* devices off.  The counter for it is a byte in EEPROM that starts blank and
\* that a power failure may leave blank.
BootGivesUp == PowerStays => ([]<>(pc = "bootFailed") => []<>(pc = "giveUp"))

\* "Any devices that are turned off but not permanently disabled are rebooted
\* after some time", unless the monitor itself has stopped.  For the node
\* controller this takes both the retry of devices that are not running and
\* the reaction to a missing heartbeat: a failed boot_NC may leave it off and
\* marked as running.
OffDevicesRetried ==
    PowerStays =>
        \A d \in Devices :
            ~ relay[d] /\ enabled[d] /\ present[d] ~>
                \/ pc \in Booting /\ dev = d
                \/ ~ present[d]
                \/ pc \in {"asleep", "hung"}
=============================================================================
