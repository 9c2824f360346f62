# Verification of the wagman power managers

The Waggle node management board ("wagman") powers the computers of a sensor
node: it switches their relays, selects the media they boot from, listens to
their heartbeats, restarts the silent ones, and keeps in EEPROM what it must
remember across its own resets.  This project models the firmware of three
generations of the board in TLA+, checks the models with TLC and proves the
main safety properties with TLAPS.

## The system and what models it

| part | source | module |
|---|---|---|
| v3 device state machine, relay journal, recovery, main loop, commands | `boards/v3/firmware`: `Device.cpp`, `firmware.ino`, `Record.cpp`, `Wagman.cpp`, `Timer.cpp` | `PowerManager`, abstract specification `RelayJournal` |
| v3 boot log of a port | `Record.cpp` (`BootLog`) | `BootLog`, abstract specification `BootHistory` |
| v3 heartbeat sampling and counting | `Wagman.cpp` (timer interrupt), `Device.cpp` | `Heartbeat` |
| v3 sensor test of `setup()` | `firmware.ino:920-996` | `SelfTest`; with the power manager, `BoardBoot` |
| v3 bootloader and firmware update | `boards/v3/bootloader/src/caterina/Caterina.c` | `Bootloader`; the part before the sketch also in `PowerManager` |
| v4 power manager (regular mode) | `boards/v4/firmware/regular_mode/firmware` | `PowerManager4` |
| v2 system monitor | `boards/v2/firmware` | `SystemMonitor` |

`MC...` modules and `.cfg` files are the instances for TLC; `...Proofs` modules
hold the theorems.

How the parts interact.  The timer interrupt (`Heartbeat`) feeds
`Device::update`; in `PowerManager` the outcome is the parameter `beat` of
`Update`.  `Device::start` adds an entry to the boot log; that call is
`BootLog`, and `PowerManager` leaves it out because only log text is made from
it: `deviceKilled`, which would derive a start delay from the log, is never
called, so `startDelay` stays 0.  The sensor test and the recovery of the power
manager both depend on the saved cause of the last reset, and a hang of the
test overwrites it; `BoardBoot` composes the two.  The bootloader and the
firmware share the byte at 0x40 and the node controller's relay; `Bootloader`
has of the firmware what touches these.

In all models but `Heartbeat` the program is sequential and what it is
interleaved with is the outside: resets, commands, readings, the host.  Every
action makes at most one EEPROM write that is read again, or one relay
operation, so that a reset can come between any two.  (A default
record is written in one step up to the cell that marks it as written: a reset
before that has all of it written again.)

### PowerManager

EEPROM variables (`magic`, `enabled`, `journal`, `attempts`, `failures`,
`blmode`, `bootflags`) survive a reset, RAM does not.  `pc` names the next step;
`target`, `disabling` and `caller` are the locals of a running `start()` or
`kill()`.

* `BeginStart`, `TurnOn`, `RelayOn`, `TurnedOn` are `Device::start`;
  `BeginKill`, `TurnOff`, `RelayOff`, `TurnedOff` are `Device::kill`, and with
  `disabling` the end of `Device::disable`.
* `InitRecord`, `SetupDevices`, `RecoverNext`, `RecoverJournal`, `RecoverPort`,
  `FinishSetup` are `setup()`.
* `StartRequested`, `StartFirst`, `StartNothing`, `Update`, `EndPass`,
  `ResetSystem` are `loop()`; `Command...` are the console commands that
  change state.

Abstractions.  Timers count time units and stop at `MaxTime`, which exceeds
every timeout.  Time passes at the end of a loop pass and at `TickPoints`.
Two-byte counters are written in one step and count modulo `WordSize`.
`Record::init` is one step: the magic number is its last write, so an
interrupted one is repeated in full.  The bootloader's write of the reset
cause at 0x41 is part of the reset; an external reset behaves like the
watchdog's.  The relay of the node controller is a latch: it keeps its state in
a watchdog reset, loses it with the power, and may do either in a brown-out;
the other relays drop in every reset.  `updateDisabled` and `updateStarting`
have no action because the states they act on are not reachable.  The current
level (`updateFault`, `watch ... cu`) only decides log text and is left out.

`RelayJournal` is what the recovery relies on, without the program: a relay is
switched only between the entry that announces it and the one that confirms it,
one relay at a time; the confirming entry says how the relay is; a reset takes
the power and leaves the journal; the journal is written anew only when nothing
is on that it would miss.  The node controller is `Latched`: its relay outlives
resets and is also switched by the bootloader, so its entries promise only that
no other is open at the same time.  In the refinement mapping (`Powered`,
`Entries`) TURNING_ON and TURNING_OFF are both "open".

### BootLog and BootHistory

One action per EEPROM write of `addEntry` and `init`, the four bytes of a slot
in two steps.  `BootHistory` is what readers may rely on: a bounded list that
a completed `addEntry` extends, dropping the oldest entry when full; an
interrupted one can damage the oldest entry of a full log and nothing else.

### Heartbeat

One port: the interrupt samples the line (`TimerOverflow`), the main loop
tests the counter (`UpdateHeartbeat`) and resets it (`ClearCounter`) in two
steps, and relays are switched while the interrupt goes on.  `gap` bounds the
samples between two tests.  On the board the threshold is 8, a byte has 256
values and samples come about four times a second, so the assumption
`Threshold + 2 * MaxGap <= ByteSize` allows 124 samples, half a minute,
between two tests; the watchdog resets the board after 8 seconds without a
`wdt_reset`, and there is one after every `update()`.

### SelfTest and BoardBoot

`SelfTest`: each sensor has a health byte that `checkCurrentSensors` and
`checkThermistors` increment before a reading (`BeginReading`) and decrement
after it (`EndReading`); a sensor at `MaxFaults` is passed over (`SkipSensor`).
The two loops are the same but for the accessor, and are one sequence of
sensors here.  `interrupted` is a history variable: the readings that a reset
cut off since `Record::init`.

`BoardBoot` extends both modules.  While `Testing` holds, `setup()` is in
`checkSensors` and only the test moves.  Two sets of faulty hardware are
constants: sensors that never answer (`Hanging`), whose reading ends in a
watchdog reset, and devices that take down the supply whenever their relay
closes (`Killers`), which ends in a power-on reset.

### Bootloader

`Main` is `main` up to its loop, `TimerInterrupt` the interrupt that counts the
time-out, `StartSketch` the time-out.  `BeginBlock`, `EndBlock`,
`EndBlockUnattached` and `ReadBlock` are `ReadWriteMemoryBlock`; `ChipErase` and
`ErasePage` the command `e`; `LeaveProgramming` the command `E`.  Flash is a
sequence of pages, each old, new, blank or junk; page 0 has the word that the
interrupt looks at.  While the application section is not enabled for reading
(`readable`), what the interrupt sees is anything.  The node controller
(`Host...`) is external and follows the procedure of
`boards/v3/bootloader/README.md`: set the byte at 0x40, reset the board, write
all pages, clear the byte.  It may die or restart, and the supply may fail, in
the middle of everything.  `HostBeginsSession` takes step 1 of the procedure as
done.  Of the repository's scripts none does it: `program-wagman.sh` resets the
board and runs avrdude, so whoever calls it has to have set the byte.  A firmware that is not whole is taken not to write
to EEPROM or relays.

### PowerManager4

The same correspondence as `PowerManager`, for a firmware that differs where it
matters: all relays are latches that outlive a watchdog reset (after a power
failure they hold anything), nothing is recovered at start-up, `setup()` starts
the node controller itself, `start()` only refuses a device that is STOPPING,
`stop()` does not refuse a disabled one.  The relay journal is written but never
read and is left out.  Every state of a device reads one of its timers and
entering a state resets them all, so a device has one `timer`.

### SystemMonitor

The version 2 program: `setup()` boots monitor, node controller, switch and
guest nodes in turn; `loop()` passes over them once per timer cycle.
`boot_NC`, `boot_switch` and `boot_GN` share their steps (`BootOff`,
`BootTemp`, `CheckPower`, `PowerCycle`, `CheckPowerAgain`, `MarkDead`,
`CheckHeartbeat`, `Beat`, `BeatCycle`, `BeatEnd`), with `BootNC` and `ConfigNC`
for the beginning of `boot_NC`, which neither switches the device off first nor
clears its flag.  `InitPrimary`, `ClearAttempts`, `BootSysMon`, `BootFailed`,
`SoftRestart`, `GiveUp`, `GetParams`, `SetupDevice` are
`setup()`; `StartPass`, `CountDevice`, `ReactSysMon`, `ReactDevice`,
`ReactEnd`, `Request`, `RebootDue`, `RebootDevice` are `loop()`.

Abstractions.  A reading is good or bad; a pair of readings of which one has to
be good is one.  The timeouts of the devices are one number, and a message of
the node controller picks the operating parameters from `Limits`.  It is stored
cell by cell (`StoreParamsCore`, `StoreParamsGNs`), so that a power failure may
leave some cells of this start and some of an earlier one.  EEPROM
starts blank, with the attempts at `ByteSize - 1`, as it does on the board.
The build is that of the sources: without `BOOT_POST`, with `SERIAL_DEBUG_ON`
(which makes the second temperature reading of `boot_NC` irrelevant).

## Runs

| run | question | instance |
|---|---|---|
| `boot_log` | does the ring buffer implement the list under resets? | capacity 3, bytes of 6 values so that `start` wraps |
| `heartbeat` | is the shared counter safe, and is a live device heard? | threshold 4, byte 10, gap 3: the bound of the assumption |
| `power_manager` | are journal, recovery, disable, boot media and reset right, with every reset and every order of commands, and is the journal kept as `RelayJournal` says? | 2 ports, eight commands, power and watchdog resets |
| `progress` | are silent devices all started, stopped, and retried from both media? | 3 ports, all silent; failures pass the limit of managed mode and wrap |
| `stops` | does every stop end? | 2 ports, stop times 0 and 1, commands, watchdog resets |
| `board_boot` | do recovery and sensor test together blame and get rid of a device that takes down the supply? | 3 ports, two of them with such devices; 3 sensors, two of which hang |
| `update` | does an update end, and is the board never left without node controller? | 4 pages, power failures and failures of the host |
| `v4` | what the version 4 manager starts, stops and cuts, and its liveness | ports 0 and 2 (silent node controller, a device with a heartbeat line), every command, power and watchdog resets |
| `system_monitor` | power, record and running flags of version 2, its retries and its giving up | node controller, switch and a guest node; two values of the maximum of boots and of the timeout; bytes of 4 values, so that the attempts wrap; power failures |

Two or three ports are enough to tell the node controller, a device that is
being switched and a bystander apart; the theorems below remove the bound for
the safety properties.  In runs that do not ask about counters `WordSize` is 1,
so counters do not multiply the states and devices stay managed.  For version 3
`progress` has both modes.  For version 4 a run of `v4` with `WordSize = 2`, in
which devices become unmanaged, has 1,426,948 states, takes nine minutes, and
passes; it is not among the runs for its length.  In runs about
order rather than duration timeouts are 0: a timer exceeds them after one unit.
`update` and `system_monitor` do not check for deadlock: an update ends, and a
monitor that has given up sleeps.

What the less obvious properties say:

* `BlamesKillers`: after a power failure that such a device has caused, the ports
  that the recovery treats as suspects are such devices; a brown-out or watchdog
  reset in the middle of another switch leaves no entry that would put the blame
  on a bystander.  Stated for boards that lose their power to nothing else.
* `KillersDisabled`: a device that takes down the supply ends disabled.  One
  recovery does not do it: the sensor test runs before it, a sensor that hangs
  there replaces the cause of the reset, and the device is then only killed and
  started again.  Likewise the journal entry is closed before the port is
  recorded as disabled.  What ends it is that each round costs a hanging sensor
  one of its `MaxFaults`.
* `NodeControllerServed`, `UpdateEnds`: wherever power fails in an update by the
  procedure of the README, a board without a whole firmware powers the node
  controller; and once failures end, so does the update.  Both rest on step 1,
  the byte at 0x40.  An erase of the whole chip is excluded from `UpdateEnds`: it
  does not stop the time-out, so a session with one may be cut off every time.
* `OnlyEnableUndoesStop`, `StopCutsPower`: on version 4 `start()`, `stop()` and
  `kill()` look at little.  Still no start, stop, ping or heartbeat takes a stop
  back: a device that is STOPPING stays so until `kill()` has cut its power, or
  the board is reset.  The exception is `enable()`, which makes it STOPPED with
  its power on, and the port is then started again.  `StopCutsPower` adds that
  the power is in fact cut: a device that is STOPPING for ever, or over and over,
  is without power over and over, once no `enable()` takes its stops back and no
  reset forgets them.
* `CutsOnlyStopped`, `SilentStartedPowered`: but for resets, a device that loses
  its power is STOPPING or STOPPED (STOPPED with power is what `enable()` and
  resets leave behind; a stop then kills at once), and a device that gives no
  sign of life is STARTED only with power.  (A heartbeat makes a device STARTED
  whatever its latch.)
* `SilentPowerCycled`: a latch may be on while its Device object says STOPPED.
  No start or heartbeat switches it off; a start followed by the heartbeat
  timeout does.  The silent device of the run is the node controller, so it is
  also shown to get its power back, whatever was commanded before.
* `BootGivesUp`: restarts after failed boots come to an end although the counter
  is a byte that starts blank and a power failure may leave blank: it wraps once.
* `PowersOnlyPresent`: `E_PRESENT_*` decides which relays may be closed, and is
  rewritten from messages of the node controller that may stay away, when the
  node controller is the only device with power.
* `OffDevicesRetried`: a failed `boot_NC` may leave the node controller off and
  marked as running; the missing heartbeat, not the retry of devices that are
  not running, then boots it again.

### Fairness

`FairSpec` of `PowerManager` and of `PowerManager4` says that the processor goes
on (`WF(Program)`: nothing in the program waits except `resetSystem`, which the
watchdog ends) and that loop passes take time (`SF(EndPass(TRUE...))`: strong,
because commands may come in between, and `processCommands` leaves after the
characters that fit its buffer or were there when it began).  No fairness is
assumed of commands, heartbeats or resets.  `Heartbeat` adds that a live device
moves its line again and again.  `BoardBoot` adds that the watchdog ends a hang
and that the supply does fail.  `SystemMonitor` has the processor only
(`WF(Program)`; the timer interrupt is part of it).  `Bootloader` has the
processor, its timer while flash is readable, and a node controller that boots
when it has power and carries on with the update when it is up.

Faults that stop are a hypothesis of the property and not of the specification:
`Quiet`, `PowerStays` and the premises of `KillersDisabled` and `UpdateEnds`.

### Disagreements between code and documentation

* `shared_selector`: ports 2 to 4 of version 3 keep `bootSelector` 0, the
  selector of the node controller, so overrides get lost.
* `partial_sketch`: the README of the bootloader has the board wait in the
  bootloader until the new firmware is complete; the time-out starts whatever is
  there, once the first word is not blank.
* `stop_enables`: on version 4 a stop command makes a disabled port one that is
  started automatically.

Four smaller ones have no run: `program-wagman.sh` leaves out step 1 of the
procedure in the bootloader's README; the description of version 3's disable command
(`firmware.ino:523`) says that it does not stop the device at once, which it
does; the comment in `onHeartbeat` (`Device.cpp:351`) promises repeated kills of
a disabled device, which `kill()` refuses (`DisabledUnpowered` shows that none
is needed); and a stop command that is refused leaves its delay for the next
stop (`firmware.ino:183`), which `StopEnds` shows to end all the same.

## Theorems

For every number of ports, sensors, pages or devices, all timeouts and all sets
of commands and causes of reset that satisfy the ASSUMEs of the modules:

* `PowerManagerProofs`: `TypeCorrect`, `JournalCorrect`, `WriteAheadCorrect`,
  `JournalImplemented`, `GuestOverrideCorrect`.  The properties are not
  inductive.  `JournalInv` adds where the one open entry can be: at the target of
  the running switch, or at a port that the recovery has not yet passed.
  `RelayInv` relates the relay of the running switch to its journal entry, and
  says that no port but the node controller's has power before the main loop.
  From the two, every step maps to one of `RelayJournal` or to a stutter
  (`JournalRefines`): `TurnOn` and `TurnOff` open an entry, `RelayOn`, `RelayOff`
  and the bootloader switch, `TurnedOn`, `TurnedOff` and `RecoverJournal` close
  one, `InitRecord` clears.
  `GuestOverrideSelected` is inductive once types are known; its proof is that
  port 1 alone has selector 1.  All step lemmas are about `Step`, the program with
  resets of every cause at every point, which covers `Next` and the board below.
* `PowerManagerDisableProofs`: `DisabledCorrect`, `NeverPowersDisabledCorrect`,
  `NoStartOnceResettingCorrect`, `RecoveryCorrect`.  `DisableInv` adds that RAM
  and EEPROM agree on what is disabled, except in the middle of a `disable()`,
  which has written its record already, and that the device of a running
  `start()` is STOPPED; `NeverPowersDisabled` follows from it at `RelayOn`.
  `QuietInv` says that no start is under way once a reset was asked for.
  `RecoveryInv` says that every suspect ahead of the recovery loop still has its
  entry open and every one behind it is secured.
* `BoardBootProofs`: `TestCorrect` for the sensor test alone; for its composition
  with the power manager `BoardHealthCorrect`, `BoardManagerCorrect` and
  `BlamesKillersCorrect`.  `TestInv` adds that a sensor whose attempts have begun
  has had fewer than `MaxFaults` interruptions, as its health is only looked at
  before the first; in the composition, that the board is in a reading only while
  `Testing`, so `Record::init` never clears a health byte in the middle of one.
  `BoardStep` says that for the power manager a step of the board is a `Step`, so
  its invariants and the refinement of `RelayJournal` carry over.  `BlameInv`
  says that from a power failure of a killer on, until the recovery has looked,
  the open entry is the killer's; at the failure that is `JournalInv`.
* `BootLogProofs`: `TypeCorrect` and `Refinement`, for every capacity that
  divides the size of a byte.  The argument is modular arithmetic: the slot that
  is written is outside the list shown, or is its oldest entry.
* `HeartbeatProofs`: `LateBounded` and `CounterFits`.  The invariant bounds the
  counter by the threshold and the samples since the last test, and the edges
  that can still come from a line without power by one.
* `BootloaderProofs`: `TypeCorrect`, `ServedCorrect`.  The strengthening relates
  the byte at 0x40 to flash: if not all pages are of one firmware, or a session
  is under way, the byte asks for power; and past `Main` a byte that does so
  means that the node controller has power.
* `PowerManager4Proofs`: `TypeCorrect`, `StartedPoweredCorrect`,
  `CutsOnlyStoppedCorrect`, `OnlyEnableUndoesStopCorrect`.  The invariant adds in which
  states a device can be when its relay is about to be switched (`AtRelay`), and
  that a DISABLED device is so on record, which a port that the default record
  enables never is (`OnRecord`); the two action properties are then argued action
  by action.  That no relay is about to be closed for a device that is STOPPING
  is what keeps a `start()` from undoing a stop.
* `SystemMonitorProofs`: `TypeCorrect`, `DeadCorrect`, `WatchedCorrect`,
  `PresentCorrect`.  The invariant says what is known of the device that is
  being booted at each point of its boot (enabled, its relay on at
  `PoweredPoints` and off at `CutPoints`, not marked as running), and that all
  others but the node controller have power exactly if they are marked as
  running.  `PresentInv` adds that while the record of the devices can still
  change (`Early`) the node controller alone has power, and that the cell that is
  written next is never the node controller's.

Every safety property of a passing run is proved.  Only model-checked are the
liveness properties (`LiveDeviceHeard`, `StopEnds`, `SilentStopped`,
`SilentTriesBothMedia`, `StoppedStarts`, `KillersDisabled`, `UpdateEnds`,
`SilentPowerCycled`, `StopCutsPower`, `BootGivesUp`,
`OffDevicesRetried`): liveness under fairness is out of the prover's reach.

## Not modelled

* Most of the repository's lines are third-party or derived: LUFA, Arduino cores
  and libraries with their build products, several copies of the RTC and
  calendar libraries, and hex images.  They have no behaviour of this system
  that could be stated, apart from the reset and USB primitives that the models
  take as external.
* The console line readers: text handling.  Commands reach the models parsed, in
  any order.
* The wrap of `millis()`: timers saturate, so nothing is said of a timer that
  nobody resets for 49 days.
* Torn writes of the counters, which have two bytes (four on version 4); the counters only choose mode and media.
* Sensor conversions, drivers, log and status text, the clocks: nothing that the
  managers decide on, except for readings, which are arbitrary.
* `POST.ino` and `boot_SOS.ino` of version 2: not compiled, as `BOOT_POST` is not
  defined.
* The version 4 safe mode and the `develop` copy of version 3: variants of the
  programs that are modelled.
* Byte-wise and EEPROM programming over USB: the update procedure uses neither.
* Host scripts: they move text between a socket and the serial port, or take
  steps of the update procedure.
