------------------------- MODULE PowerManagerProofs -------------------------
(***************************************************************************)
(* Proofs about PowerManager, for any number of ports, any timeouts, any   *)
(* set of commands and any causes of reset: type correctness and the       *)
(* safety of the relay journal.                                            *)
(*                                                                         *)
(* None of these is inductive.  What makes them so is what holds in the    *)
(* middle of start(), kill() and the recovery loop, where a reset may      *)
(* strike: JournalInv and RelayInv say it, each in terms of the control    *)
(* point.                                                                  *)
(***************************************************************************)
EXTENDS PowerManager, TLAPS

TurningOn == {"turnOn", "relayOn", "turnedOn"}
TurningOff == {"turnOff", "relayOff", "turnedOff"}
EntryOpen == {"relayOn", "turnedOn", "relayOff", "turnedOff"}

JournalInv ==
    /\ \A p, q \in Ports : Incomplete(p) /\ Incomplete(q) => p = q
    /\ pc \notin Booting \union {"recover"} \union EntryOpen =>
           \A p \in Ports : ~ Incomplete(p)
    /\ pc \in EntryOpen => \A p \in Ports \ {target} : ~ Incomplete(p)
    /\ pc = "recover" => \A p \in Ports : p < at => ~ Incomplete(p)

\* setup() runs with every port but the node controller's off
RelayInv ==
    /\ WriteAhead
    /\ pc \in Booting \union {"recover", "recoverPort"}
         \/ (pc \in TurningOff /\ caller = "recover") =>
           \A p \in Ports \ {NC} : ~ relay[p]
    /\ pc \in TurningOn => caller = "update"
    /\ pc \in {"relayOn", "turnedOn"} => journal[target] = "TURNING_ON"
    /\ pc \in {"relayOff", "turnedOff"} => journal[target] = "TURNING_OFF"
    /\ pc = "turnedOn" => relay[target]
    /\ pc = "turnedOff" => ~ relay[target]
-----------------------------------------------------------------------------
(* Type correctness *)

\* A timer that was just reset.
LEMMA ZeroTime == 0 \in Time
BY TimeAssumption DEF Time

\* The device of a port.
LEMMA DeviceAt == ASSUME TypeOK, NEW p \in Ports PROVE devices[p] \in Device
BY Zenon DEF TypeOK

\* changeState yields a device in the new state, with its other fields kept.
LEMMA ChangeStateFacts ==
    ASSUME NEW d \in Device, NEW s \in States
    PROVE  /\ ChangeState(d, s) \in Device
           /\ ChangeState(d, s).state = s
BY ZenonT(90), ZeroTime DEF ChangeState, Device

\* Device::init yields a device, disabled or stopped.
LEMMA NewDeviceFacts ==
    ASSUME NEW p \in Ports, NEW e \in BOOLEAN
    PROVE  /\ NewDevice(p, e) \in Device
           /\ NewDevice(p, e).state = IF e THEN "STOPPED" ELSE "DISABLED"
BY TimeAssumption, PortAssumption DEF NewDevice, Device, Time, States, Ports

\* A heartbeat keeps a disabled device disabled and no other becomes so.
LEMMA OnHeartbeatFacts ==
    ASSUME NEW p \in Ports, NEW d \in Device
    PROVE  /\ OnHeartbeat(p, d) \in Device
           /\ OnHeartbeat(p, d).state = "DISABLED" <=> d.state = "DISABLED"
<1> DEFINE heard == [d EXCEPT !.heartbeatTimer = 0]
<1>1. heard \in Device /\ heard.state = d.state
  BY TimeAssumption DEF Device, Time
<1>2. \A s \in States : ChangeState(heard, s) \in Device /\ ChangeState(heard, s).state = s
  BY <1>1, ChangeStateFacts
<1> QED
  BY <1>1, <1>2 DEF OnHeartbeat, States

\* The boot media is one of the two.
LEMMA NextBootMediaType ==
    ASSUME NEW p \in Ports, NEW d \in Device
    PROVE  NextBootMedia(p, d) \in Media
BY DEF NextBootMedia, PrimaryMedia, SecondaryMedia, Media, SD, EMMC, Device, NoMedia

\* The boot counters wrap around in their two bytes.
LEMMA WordIncrement ==
    ASSUME NEW n \in 0 .. WordSize - 1
    PROVE  (n + 1) % WordSize \in 0 .. WordSize - 1
BY CounterAssumption

\* A time unit more is a time.
LEMMA TickType ==
    ASSUME NEW t \in Time
    PROVE  Tick(t) \in Time
BY TimeAssumption DEF Tick, Time

\* Record::incrementBootAttempts, start() up to its journal entry.
LEMMA BeginStartType ==
    ASSUME TypeOK, NEW p \in Ports, BeginStart(p)
    PROVE  /\ devices' \in [Ports -> Device] /\ selector' \in [{0, 1} -> Media]
           /\ attempts' \in [Ports -> 0 .. WordSize - 1]
           /\ target' \in Ports /\ caller' = "update" /\ at' = 0 /\ pc' = "turnOn"
<1> DEFINE m == failures[p] < ManagedLimit
           d == [devices[p] EXCEPT !.managed = m]
           e == [d EXCEPT !.forceBootMedia = NoMedia]
<1>1. m \in BOOLEAN
  OBVIOUS
<1>2. /\ devices' = [devices EXCEPT ![p] = e]
      /\ selector' = [selector EXCEPT ![SelectorOf(p)] = NextBootMedia(p, d)]
  BY DEF BeginStart
<1> HIDE DEF m
<1>3. d \in Device
  BY SMTT(90), <1>1, DeviceAt DEF Device
<1>4. NextBootMedia(p, d) \in Media
  BY <1>3, NextBootMediaType
<1> HIDE DEF d
<1>5. e \in Device
  BY <1>3 DEF Device
<1> HIDE DEF e
<1>6. attempts' \in [Ports -> 0 .. WordSize - 1]
  BY WordIncrement DEF BeginStart, TypeOK
<1>7. devices' \in [Ports -> Device]
  BY <1>2, <1>5 DEF TypeOK
<1>8. selector' \in [{0, 1} -> Media]
  BY <1>2, <1>4 DEF TypeOK, SelectorOf
<1> QED
  BY <1>6, <1>7, <1>8 DEF BeginStart, Goto

\* Device::disable leaves devices and the control in their types.
LEMMA DisableType ==
    ASSUME TypeOK, NEW p \in Ports, NEW return \in {"recover", "commands"},
           Disable(p, return)
    PROVE  /\ enabled' \in [Ports -> BOOLEAN] /\ devices' \in [Ports -> Device]
           /\ pc' \in {"turnOff", return} /\ target' \in Ports /\ disabling' \in BOOLEAN
           /\ caller' \in {caller, return}
           /\ pc' = "turnOff" => caller' = return
<1>1. ChangeState(devices[p], "DISABLED") \in Device
  BY ChangeStateFacts DEF TypeOK, States
<1> QED
  BY ZenonT(90), <1>1 DEF Disable, BeginKill, Goto, TypeOK

\* The effect of Device::setNextBootMedia.
LEMMA SetNextBootMediaType ==
    ASSUME TypeOK, NEW p \in Ports, NEW d \in Device, NEW media \in Media,
           SetNextBootMedia(p, d, media)
    PROVE  selector' \in [{0, 1} -> Media] /\ devices' \in [Ports -> Device]
<1>1. [d EXCEPT !.forceBootMedia = media] \in Device
  BY DEF Device
<1> QED
  BY <1>1 DEF SetNextBootMedia, SelectorOf, TypeOK

\* Timers stay in their range.
LEMMA PassTimeType ==
    ASSUME TypeOK, PassTime
    PROVE  /\ devices' \in [Ports -> Device] /\ startTimer' \in Time
           /\ reset' \in [wanted : BOOLEAN, timer : Time, timeout : Time]
<1>1. ASSUME NEW d \in Device
      PROVE  [d EXCEPT !.stateTimer = Tick(@), !.heartbeatTimer = Tick(@)] \in Device
  <2>1. Tick(d.stateTimer) \in Time /\ Tick(d.heartbeatTimer) \in Time
    BY TickType DEF Device
  <2> QED
    BY ZenonT(90), <2>1 DEF Device
<1>2. devices' \in [Ports -> Device]
  BY ZenonT(90), <1>1 DEF PassTime, TypeOK
<1>3. Tick(startTimer) \in Time /\ Tick(reset.timer) \in Time
  BY TickType DEF TypeOK
<1> QED
  BY ZenonT(90), <1>2, <1>3 DEF PassTime, TypeOK

\* Every step of setup(), of the recovery and of the bootloader keeps the types.
LEMMA BootType ==
    ASSUME TypeOK, Boot \/ Recover
    PROVE  TypeOK'
<1>1. CASE BootloaderStart
  BY SMTT(90), <1>1, PortAssumption DEF BootloaderStart, TypeOK, eeprom, ram, Goto, Booting,
     Media, EMMC, Switching, NC, Ports
<1>2. CASE BootloaderExit
  BY <1>2 DEF BootloaderExit, TypeOK, eeprom, ram, Goto, Booting, Media, SD, Switching
<1>3. CASE InitRecord
  BY <1>3, CounterAssumption DEF InitRecord, TypeOK, ram, control, Journal
<1>4. CASE SetupDevices
  <2>1. \A p \in Ports : NewDevice(p, GetDeviceEnabled(p)) \in Device
    <3> SUFFICES ASSUME NEW p \in Ports PROVE NewDevice(p, GetDeviceEnabled(p)) \in Device
      OBVIOUS
    <3>1. GetDeviceEnabled(p) \in BOOLEAN
      BY DEF GetDeviceEnabled, TypeOK
    <3> QED
      BY <3>1, NewDeviceFacts
  <2> QED
    BY <1>4, <2>1, PortAssumption DEF SetupDevices, TypeOK, eeprom, Goto, Switching
<1>5. CASE RecoverNext
  BY <1>5, PortAssumption DEF RecoverNext, TypeOK, eeprom, ram, Ports, Switching
<1>6. CASE RecoverJournal
  BY SMTT(60), <1>6, PortAssumption DEF RecoverJournal, TypeOK, ram, Goto, Ports, Journal, Switching
<1>7. CASE RecoverPort
  <2>1. at \in Ports /\ at' \in 0 .. PortCount
    BY <1>7, PortAssumption DEF RecoverPort, TypeOK, Ports
  <2>2. CASE PowerFault
    <3>1. Disable(at, "recover")
      BY <1>7, <2>2 DEF RecoverPort
    <3>2. /\ enabled' \in [Ports -> BOOLEAN] /\ devices' \in [Ports -> Device]
          /\ pc' \in {"turnOff", "recover"} /\ target' \in Ports /\ disabling' \in BOOLEAN
          /\ caller' \in {caller, "recover"}
          /\ pc' = "turnOff" => caller' = "recover"
      BY <2>1, <3>1, DisableType
    <3> QED
      BY <1>7, <2>1, <3>2 DEF RecoverPort, TypeOK, Switching
  <2>3. CASE ~ PowerFault
    BY ZenonT(90), <1>7, <2>1, <2>3 DEF RecoverPort, TypeOK, BeginKill, Goto, Switching
  <2> QED
    BY <2>2, <2>3
<1>8. CASE FinishSetup
  <2>1. startTimer' \in Time /\ reset' \in [wanted : BOOLEAN, timer : Time, timeout : Time]
    BY ZenonT(90), <1>8, ZeroTime DEF FinishSetup, TypeOK
  <2> QED
    BY <1>8, <2>1, PortAssumption DEF FinishSetup, TypeOK, eeprom, Goto, Ports, NC,
       Looping, Switching
<1> QED
  BY <1>1, <1>2, <1>3, <1>4, <1>5, <1>6, <1>7, <1>8 DEF Boot, Recover

\* Every step of start() and kill() keeps the types.
LEMMA SwitchType ==
    ASSUME TypeOK, Switch
    PROVE  TypeOK'
<1>1. CASE TurnOn
  BY <1>1 DEF TurnOn, TypeOK, ram, Goto, Journal, Switching
<1>2. CASE RelayOn
  BY <1>2 DEF RelayOn, TypeOK, eeprom, ram, Goto, Switching
<1>3. CASE TurnedOn
  <2>1. ChangeState(devices[target], "STARTED") \in Device
    BY ChangeStateFacts DEF TypeOK, States
  <2>2. pc \in Switching /\ NC \in Ports
    BY <1>3, PortAssumption DEF TurnedOn, Switching, NC, Ports
  <2> QED
    BY ZenonT(90), <1>3, <2>1, <2>2 DEF TurnedOn, Return, TypeOK, Goto, Journal, Switching, Looping
<1>4. CASE TurnOff
  BY <1>4 DEF TurnOff, TypeOK, ram, Goto, Journal, Switching
<1>5. CASE RelayOff
  BY <1>5 DEF RelayOff, TypeOK, eeprom, ram, Goto, Switching
<1>6. CASE TurnedOff
  <2>1. /\ ChangeState(devices[target], "DISABLED") \in Device
        /\ ChangeState(devices[target], "STOPPED") \in Device
    BY ChangeStateFacts DEF TypeOK, States
  <2>2. pc \in Switching /\ NC \in Ports
    BY <1>6, PortAssumption DEF TurnedOff, Switching, NC, Ports
  <2>3. devices' \in [Ports -> Device]
    BY <1>6, <2>1 DEF TurnedOff, TypeOK
  <2> QED
    BY ZenonT(90), <1>6, <2>2, <2>3, ZeroTime
       DEF TurnedOff, Return, TypeOK, Goto, Journal, Switching, Looping
<1> QED
  BY <1>1, <1>2, <1>3, <1>4, <1>5, <1>6 DEF Switch

\* startNextDevice keeps the types.
LEMMA StartNextType ==
    ASSUME TypeOK, StartNext
    PROVE  TypeOK'
<1> 0 \in Ports /\ 0 \in 0 .. PortCount
  BY PortAssumption DEF Ports
<1>1. CASE StartRequested
  <2>1. deviceWantsStart \in Ports
    BY <1>1 DEF StartRequested, TypeOK
  <2>2. CASE BeginStart(deviceWantsStart)
    <3>1. /\ devices' \in [Ports -> Device] /\ selector' \in [{0, 1} -> Media]
          /\ attempts' \in [Ports -> 0 .. WordSize - 1]
          /\ target' \in Ports /\ caller' = "update" /\ at' = 0 /\ pc' = "turnOn"
      BY <2>1, <2>2, BeginStartType
    <3> QED
      BY <1>1, <3>1, ZeroTime DEF StartRequested, TypeOK, Switching
  <2>3. CASE ~ BeginStart(deviceWantsStart)
    BY <1>1, <2>3, ZeroTime DEF StartRequested, TypeOK, Goto, Switching, Looping
  <2> QED
    BY <2>2, <2>3
<1>2. CASE StartFirst
  <2>1. PICK p \in Ports : BeginStart(p)
    BY <1>2 DEF StartFirst
  <2>2. /\ devices' \in [Ports -> Device] /\ selector' \in [{0, 1} -> Media]
        /\ attempts' \in [Ports -> 0 .. WordSize - 1]
        /\ target' \in Ports /\ caller' = "update" /\ at' = 0 /\ pc' = "turnOn"
    BY <2>1, BeginStartType
  <2> QED
    BY <1>2, <2>2, ZeroTime DEF StartFirst, TypeOK, Switching
<1>3. CASE StartNothing
  BY <1>3 DEF StartNothing, TypeOK, eeprom, ram, Goto, Switching, Looping
<1> QED
  BY <1>1, <1>2, <1>3 DEF StartNext

\* Device::update keeps the types.
LEMMA UpdateType ==
    ASSUME TypeOK, NEW beat \in BOOLEAN, Update(beat)
    PROVE  TypeOK'
<1> DEFINE d == IF beat THEN OnHeartbeat(at, devices[at]) ELSE devices[at]
<1>1. at \in Ports /\ d \in Device
  BY OnHeartbeatFacts DEF Update, TypeOK
<1>2. /\ at' \in Ports /\ NextUpdate \in {"update", "commands"}
  BY <1>1, PortAssumption DEF Update, AdvanceUpdate, NextUpdate, Ports
<1>3. enabled' \in [Ports -> BOOLEAN]
  BY <1>1 DEF Update, EnabledAfterHeartbeat, TypeOK
<1>4. \/ UpdateHeartbeatLost(at, d) \/ UpdateUnmanagedSwitch(at, d)
      \/ UpdateStopDue(at, d) \/ UpdateNothingDue(at, d)
  BY DEF Update
<1> HIDE DEF d
<1>5. ChangeState(d, "STOPPING") \in Device
  BY <1>1, ChangeStateFacts DEF States
<1>6. /\ failures' \in [Ports -> 0 .. WordSize - 1] /\ devices' \in [Ports -> Device]
      /\ selector' \in [{0, 1} -> Media]
      /\ pc' \in {"update", "commands", "turnOff"}
      /\ target' \in Ports /\ disabling' \in BOOLEAN
      /\ caller' \in {"recover", "update", "commands"}
  <2>1. CASE UpdateHeartbeatLost(at, d)
    <3>1. failures' \in [Ports -> 0 .. WordSize - 1]
      BY <1>1, <2>1, WordIncrement DEF UpdateHeartbeatLost, TypeOK
    <3> QED
      BY <1>1, <1>2, <1>5, <2>1, <3>1 DEF UpdateHeartbeatLost, TypeOK, Goto
  <2>2. CASE UpdateUnmanagedSwitch(at, d)
    <3>1. PICK media \in Media : SetNextBootMedia(at, ChangeState(d, "STOPPING"), media)
      BY <2>2 DEF UpdateUnmanagedSwitch, Media
    <3>2. selector' \in [{0, 1} -> Media] /\ devices' \in [Ports -> Device]
      BY <1>1, <1>5, <3>1, SetNextBootMediaType
    <3> QED
      BY <1>2, <2>2, <3>2 DEF UpdateUnmanagedSwitch, TypeOK, Goto
  <2>3. CASE UpdateStopDue(at, d)
    <3>1. [d EXCEPT !.stopTimeout = StopTimeout] \in Device
      BY <1>1, TimeAssumption DEF Device, Time
    <3> QED
      BY ZenonT(90), <1>1, <1>2, <2>3, <3>1 DEF UpdateStopDue, BeginKill, TypeOK, Goto
  <2>4. CASE UpdateNothingDue(at, d)
    BY <1>1, <1>2, <2>4 DEF UpdateNothingDue, TypeOK, Goto
  <2> QED
    BY <1>4, <2>1, <2>2, <2>3, <2>4
<1>7. at' \in 0 .. PortCount
  BY <1>2, PortAssumption DEF Ports
<1> QED
  BY <1>2, <1>3, <1>6, <1>7 DEF Update, TypeOK, Looping, Switching

\* The console commands keep the types.
LEMMA CommandType ==
    ASSUME TypeOK, Command
    PROVE  TypeOK'
<1>0. /\ pc = "commands"
      /\ UNCHANGED <<journal, attempts, failures, bootflags, relay, startTimer, suspects>>
  BY DEF Command
<1>1. ASSUME NEW p \in Ports, CommandPing(p) PROVE TypeOK'
  <2>1. OnHeartbeat(p, devices[p]) \in Device
    BY OnHeartbeatFacts DEF TypeOK
  <2>2. enabled' \in [Ports -> BOOLEAN]
    BY <1>1 DEF CommandPing, EnabledAfterHeartbeat, TypeOK
  <2> QED
    BY <1>0, <1>1, <2>1, <2>2 DEF CommandPing, TypeOK, control
<1>2. ASSUME NEW p \in Ports, CommandStart(p) PROVE TypeOK'
  BY <1>0, <1>2 DEF CommandStart, TypeOK, control
<1>3. ASSUME NEW p \in Ports, NEW t \in StopTimeouts, CommandStop(p, t) PROVE TypeOK'
  <2> DEFINE d == [devices[p] EXCEPT !.stopTimeout = t]
  <2>1. t \in Time
    BY TimeAssumption DEF Time
  <2>2. d \in Device
    BY SMTT(90), <2>1, DeviceAt DEF Device
  <2>3. devices' = [devices EXCEPT ![p] =
                     IF d.state = "STARTED" THEN ChangeState(d, "STOPPING") ELSE d]
    BY <1>3 DEF CommandStop
  <2> HIDE DEF d
  <2>4. ChangeState(d, "STOPPING") \in Device
    BY <2>2, ChangeStateFacts DEF States
  <2>5. devices' \in [Ports -> Device]
    BY <2>2, <2>3, <2>4 DEF TypeOK
  <2> QED
    BY <1>0, <1>3, <2>5 DEF CommandStop, TypeOK, control
<1>4. ASSUME NEW p \in Ports, NEW m \in Media, CommandBootMedia(p, m) PROVE TypeOK'
  <2>1. selector' \in [{0, 1} -> Media] /\ devices' \in [Ports -> Device]
    BY <1>4, SetNextBootMediaType DEF CommandBootMedia, TypeOK
  <2> QED
    BY <1>0, <1>4, <2>1 DEF CommandBootMedia, TypeOK, control
<1>5. ASSUME NEW p \in Ports, CommandEnable(p) PROVE TypeOK'
  <2>1. ChangeState(devices[p], "STOPPED") \in Device
    BY SMTT(90), ChangeStateFacts DEF TypeOK, States
  <2> QED
    BY <1>0, <1>5, <2>1 DEF CommandEnable, TypeOK, control
<1>6. ASSUME NEW p \in Ports, CommandDisable(p) PROVE TypeOK'
  <2>1. /\ enabled' \in [Ports -> BOOLEAN] /\ devices' \in [Ports -> Device]
        /\ pc' \in {"turnOff", "commands"} /\ target' \in Ports /\ disabling' \in BOOLEAN
        /\ caller' \in {caller, "commands"}
        /\ pc' = "turnOff" => caller' = "commands"
    BY <1>6, DisableType DEF CommandDisable
  <2> QED
    BY <1>0, <1>6, <2>1 DEF CommandDisable, TypeOK, Switching, Looping
<1>7. ASSUME NEW p \in Ports, NEW mode \in BOOLEAN, CommandWatch(p, mode) PROVE TypeOK'
  <2>1. [devices[p] EXCEPT !.watchHeartbeat = mode] \in Device
    BY SMTT(90), <1>7, DeviceAt DEF Device
  <2>2. devices' \in [Ports -> Device]
    BY SMTT(60), <1>7, <2>1 DEF CommandWatch, TypeOK
  <2> QED
    BY <1>0, <1>7, <2>2 DEF CommandWatch, TypeOK, control
<1>8. ASSUME NEW t \in ResetTimeouts, CommandReset(t) PROVE TypeOK'
  <2>1. t \in Time
    BY TimeAssumption DEF Time
  <2>2. reset' \in [wanted : BOOLEAN, timer : Time, timeout : Time]
    BY <1>8, <2>1, ZeroTime DEF CommandReset
  <2> QED
    BY <1>0, <1>8, <2>2 DEF CommandReset, TypeOK, control
<1>9. ASSUME NEW mode \in {"off", "sd", "emmc"}, CommandBLFlag(mode) PROVE TypeOK'
  BY <1>0, <1>9 DEF CommandBLFlag, TypeOK, control
<1>10. ASSUME CommandResetEEPROM PROVE TypeOK'
  <2>1. magic' \in BOOLEAN
    BY ZenonT(90), <1>10 DEF CommandResetEEPROM
  <2>2. /\ UNCHANGED <<enabled, journal, attempts, failures, blmode, bootflags, relay, selector>>
        /\ UNCHANGED <<devices, startTimer, deviceWantsStart, reset, suspects>>
        /\ UNCHANGED <<pc, at, target, disabling, caller>>
    BY <1>0, <1>10 DEF CommandResetEEPROM, control
  <2> QED
    BY <2>1, <2>2 DEF TypeOK
<1> QED
  BY <1>1, <1>2, <1>3, <1>4, <1>5, <1>6, <1>7, <1>8, <1>9, <1>10 DEF Command

\* The end of a pass and the passing of time keep the types.
LEMMA TimeType ==
    ASSUME TypeOK, (\E tick \in BOOLEAN : EndPass(tick)) \/ TimeUnitEnds
    PROVE  TypeOK'
<1>1. /\ devices' \in [Ports -> Device] /\ startTimer' \in Time
      /\ reset' \in [wanted : BOOLEAN, timer : Time, timeout : Time]
  <2>1. CASE PassTime
    BY SMTT(60), <2>1, PassTimeType
  <2>2. CASE ~ PassTime
    BY SMTT(60), <2>2 DEF EndPass, TimeUnitEnds, TypeOK
  <2> QED
    BY <2>1, <2>2
<1>2. CASE \E tick \in BOOLEAN : EndPass(tick)
  BY <1>1, <1>2 DEF EndPass, TypeOK, eeprom, Goto, Looping, Switching
<1>3. CASE TimeUnitEnds
  BY <1>1, <1>3 DEF TimeUnitEnds, TypeOK, eeprom, control
<1> QED
  BY <1>2, <1>3

\* A reset, whatever its cause, keeps the types.
LEMMA ResetType ==
    ASSUME TypeOK, NEW cause \in {"power", "brownout", "watchdog"}, Reset(cause)
    PROVE  TypeOK'
<1>1. \A p \in Ports : NewDevice(p, FALSE) \in Device
  BY ZenonT(90), NewDeviceFacts
<1>2. relay' \in [Ports -> BOOLEAN]
  <2>1. PICK latchHolds \in BOOLEAN : relay' = RelaysAfter(latchHolds)
    BY ZenonT(90) DEF Reset
  <2> QED
    BY <2>1, PortAssumption DEF RelaysAfter, TypeOK, NC, Ports
<1>3. NC \in Ports /\ NoPort \in Ports \union {NoPort} /\ 0 \in 0 .. PortCount
  BY PortAssumption DEF NC, Ports
<1> QED
  BY ZenonT(90), <1>1, <1>2, <1>3, ZeroTime DEF Reset, TypeOK, Goto, Booting, Media, SD, Switching

\* A board fresh from the factory is in its types.
LEMMA TypeInit == Init => TypeOK
<1> SUFFICES ASSUME Init PROVE TypeOK
  OBVIOUS
<1>1. \A p \in Ports : NewDevice(p, FALSE) \in Device
  BY ZenonT(90), NewDeviceFacts
<1>2. NC \in Ports /\ 0 \in 0 .. PortCount /\ 0 \in 0 .. WordSize - 1
  BY PortAssumption, CounterAssumption DEF NC, Ports
<1> QED
  BY ZenonT(90), <1>1, <1>2, ZeroTime DEF Init, TypeOK, Booting, Journal, Media, SD, Switching

LoopStep ==
    \/ StartNext
    \/ \E beat \in BOOLEAN : Update(beat)
    \/ Command
    \/ \E tick \in BOOLEAN : EndPass(tick)

\* The steps of the program, and resets of every cause: the steps of Next, and
\* those of every composition of the power manager with other parts of the board
Step ==
    \/ Boot \/ Recover \/ Switch \/ LoopStep \/ TimeUnitEnds
    \/ \E cause \in {"power", "brownout", "watchdog"} : Reset(cause)
    \/ UNCHANGED vars

\* Next is one of these.
LEMMA NextCases == [Next]_vars => Step
BY FaultAssumption DEF Next, Program, LoopStep, ResetSystem, Step

\* Every step keeps the types.
LEMMA TypeStep == TypeOK /\ Step => TypeOK'
<1> SUFFICES ASSUME TypeOK, Step PROVE TypeOK'
  OBVIOUS
<1>1. CASE UNCHANGED vars
  BY <1>1 DEF vars, eeprom, ram, control, TypeOK
<1> QED
  BY <1>1, BootType, SwitchType, StartNextType, UpdateType, TimeType, CommandType, ResetType
     DEF Step, LoopStep

\* Type correctness of the power manager, resets included.
THEOREM TypeCorrect == Spec => []TypeOK
BY TypeInit, TypeStep, NextCases, PTL DEF Spec
-----------------------------------------------------------------------------
(* The journal and the relays *)

\* The main loop itself touches neither journal nor relays: it calls start()
\* and kill(), and is where they return to.
LEMMA LoopControl ==
    ASSUME TypeOK, LoopStep
    PROVE  /\ pc \in Looping /\ UNCHANGED <<journal, relay>>
           /\ pc' \in Looping \union {"turnOn", "turnOff"}
           /\ pc' = "turnOn" => caller' = "update"
           /\ pc' = "turnOff" => caller' \in {"update", "commands"}
<1>1. CASE StartNext
  BY ZenonT(90), <1>1 DEF StartNext, StartRequested, StartFirst, StartNothing, BeginStart, Goto, Looping,
     eeprom
<1>2. ASSUME NEW beat \in BOOLEAN, Update(beat)
      PROVE  /\ pc = "update" /\ UNCHANGED <<journal, relay>>
             /\ pc' \in {"update", "commands", "turnOff"}
             /\ pc' = "turnOff" => caller' \in {"update", "commands"}
  BY <1>2 DEF Update, UpdateHeartbeatLost, UpdateUnmanagedSwitch, UpdateStopDue,
     UpdateNothingDue, NextUpdate, BeginKill, Goto
<1>3. CASE Command
  BY ZenonT(90), <1>3 DEF Command, CommandPing, CommandStart, CommandStop, CommandBootMedia,
     CommandEnable, CommandDisable, Disable, BeginKill, CommandWatch, CommandReset,
     CommandBLFlag, CommandResetEEPROM, control, Goto, Looping
<1>4. CASE \E tick \in BOOLEAN : EndPass(tick)
  BY <1>4 DEF EndPass, eeprom, Goto, Looping
<1> QED
  BY SMTT(90), <1>1, <1>2, <1>3, <1>4 DEF LoopStep, Looping

\* A reset returns to the bootloader, with the journal as it is and every port
\* but the node controller's off.
LEMMA ResetControl ==
    ASSUME TypeOK, NEW cause \in {"power", "brownout", "watchdog"}, Reset(cause)
    PROVE  /\ pc' = "bootloader" /\ journal' = journal
           /\ \A p \in Ports \ {NC} : ~ relay'[p]
BY ZenonT(90) DEF Reset, RelaysAfter, Goto

\* JournalInv holds at first.
LEMMA JournalInit == Init => JournalInv
BY DEF Init, JournalInv, Incomplete, Booting, EntryOpen

\* Every step keeps JournalInv.
LEMMA JournalStep == TypeOK /\ JournalInv /\ Step => JournalInv'
<1> SUFFICES ASSUME TypeOK, JournalInv, Step PROVE JournalInv'
  BY SMTT(60)
<1> USE DEF JournalInv, Incomplete
<1>1. CASE Boot
  BY SMTT(90), <1>1, PortAssumption DEF Boot, BootloaderStart, BootloaderExit, InitRecord,
     SetupDevices, eeprom, control, Goto, Booting, EntryOpen, Ports
<1>2. CASE RecoverNext
  BY <1>2, PortAssumption DEF RecoverNext, eeprom, TypeOK, Ports, Booting, EntryOpen
<1>3. CASE RecoverJournal
  <2>1. at \in Ports /\ journal \in [Ports -> Journal]
    BY <1>3, PortAssumption DEF RecoverJournal, TypeOK, Ports
  <2>2. \A p \in Ports : ~ Incomplete(p)'
    BY <1>3, <2>1 DEF RecoverJournal
  <2> QED
    BY SMTT(60), <1>3, <2>2 DEF RecoverJournal, Goto, Booting, EntryOpen
<1>4. CASE RecoverPort
  BY <1>4 DEF RecoverPort, Disable, BeginKill, Goto, Booting, EntryOpen
<1>5. CASE FinishSetup
  BY SMTT(90), <1>5 DEF FinishSetup, eeprom, TypeOK, Ports, Goto, Booting, EntryOpen
<1>6. CASE TurnOn \/ TurnOff
  BY SMTT(60), <1>6 DEF TurnOn, TurnOff, TypeOK, Goto, Booting, EntryOpen
<1>7. CASE RelayOn \/ RelayOff
  BY <1>7 DEF RelayOn, RelayOff, eeprom, Goto, Booting, EntryOpen
<1>8. CASE TurnedOn \/ TurnedOff
  <2>1. \A p \in Ports : ~ Incomplete(p)'
    BY SMTT(90), <1>8 DEF TurnedOn, TurnedOff, TypeOK, EntryOpen
  <2>2. pc' \notin EntryOpen
    BY <1>8 DEF TurnedOn, TurnedOff, Return, Goto, TypeOK, EntryOpen
  <2> QED
    BY SMTT(90), <2>1, <2>2
<1>9. CASE LoopStep
  BY <1>9, LoopControl DEF Looping, Booting, EntryOpen
<1>10. CASE UNCHANGED <<eeprom, relay, control>> \/ UNCHANGED vars
  BY <1>10 DEF vars, eeprom, control
<1>11. ASSUME NEW cause \in {"power", "brownout", "watchdog"}, Reset(cause) PROVE JournalInv'
  BY <1>11, ResetControl DEF Booting, EntryOpen
<1> HIDE DEF JournalInv, Incomplete
<1> QED
  BY <1>1, <1>2, <1>3, <1>4, <1>5, <1>6, <1>7, <1>8, <1>9, <1>10, <1>11
     DEF Recover, Switch, Step, TimeUnitEnds

\* The journal: at most one entry is open at any time, and none while the main
\* loop runs, which is what the recovery loop of setupDevices assumes.
THEOREM JournalCorrect == Spec => []OneIncomplete
<1>1. JournalInv => OneIncomplete
  BY DEF JournalInv, OneIncomplete, Looping, Booting, EntryOpen
<1> QED
  BY <1>1, TypeCorrect, JournalInit, JournalStep, NextCases, PTL DEF Spec

\* RelayInv holds at first.
LEMMA RelayInit == Init => RelayInv
BY SMTT(60) DEF Init, RelayInv, WriteAhead, TurningOn, TurningOff

\* A step that leaves relays, journal and control alone keeps RelayInv.
LEMMA RelayFrame ==
    ASSUME RelayInv, UNCHANGED <<relay, journal, pc, target, caller>>
    PROVE  RelayInv'
BY DEF RelayInv, WriteAhead

\* With all ports but the node controller's off, RelayInv holds wherever no
\* entry of the journal is being made for a relay.
LEMMA RelaysDown ==
    ASSUME \A p \in Ports \ {NC} : ~ relay'[p],
           pc' \notin TurningOn \union {"relayOff", "turnedOff"}
    PROVE  RelayInv'
BY DEF RelayInv, WriteAhead, TurningOn

\* Before the main loop, and outside the switching of a relay, all ports but the
\* node controller's are off.
LEMMA RelaysDownInSetup ==
    ASSUME RelayInv, pc \in Booting \union {"recover", "recoverPort"}
    PROVE  \A p \in Ports \ {NC} : ~ relay[p]
BY DEF RelayInv

\* The steps of the bootloader and of setup keep RelayInv.
LEMMA RelayBoot == ASSUME TypeOK, RelayInv, Boot PROVE RelayInv'
<1>1. CASE BootloaderStart
  <2>1. pc = "bootloader" /\ pc' = "bootloaderWait"
        /\ relay' = IF blmode = "off" THEN relay ELSE [relay EXCEPT ![NC] = TRUE]
    BY <1>1 DEF BootloaderStart, Goto
  <2>2. \A p \in Ports \ {NC} : ~ relay[p]
    BY <2>1, RelaysDownInSetup DEF Booting
  <2>3. relay \in [Ports -> BOOLEAN]
    BY DEF TypeOK
  <2>4. \A p \in Ports \ {NC} : ~ relay'[p]
    BY <2>1, <2>2, <2>3
  <2> QED
    BY <2>1, <2>4, RelaysDown DEF TurningOn
<1>2. CASE BootloaderExit
  <2>1. pc = "bootloaderWait" /\ pc' = "setup" /\ relay' = relay
    BY <1>2 DEF BootloaderExit, Goto
  <2> QED
    BY <2>1, RelaysDownInSetup, RelaysDown DEF Booting, TurningOn
<1>3. CASE InitRecord
  <2>1. pc = "setup" /\ pc' = "setup" /\ relay' = relay
    BY <1>3 DEF InitRecord, control
  <2> QED
    BY <2>1, RelaysDownInSetup, RelaysDown DEF Booting, TurningOn
<1>4. CASE SetupDevices
  <2>1. pc = "setup" /\ pc' = "recover" /\ relay' = relay
    BY <1>4 DEF SetupDevices, Goto
  <2> QED
    BY <2>1, RelaysDownInSetup, RelaysDown DEF Booting, TurningOn
<1> QED
  BY <1>1, <1>2, <1>3, <1>4 DEF Boot

\* The steps of the recovery loop keep RelayInv.
LEMMA RelayRecover == ASSUME RelayInv, Recover PROVE RelayInv'
<1>1. pc \in {"recover", "recoverPort"} /\ relay' = relay
  BY ZenonT(90) DEF Recover, RecoverNext, RecoverJournal, RecoverPort, FinishSetup
<1>2. pc' \in {"recover", "recoverPort", "turnOff", "start"}
  <2>1. CASE RecoverNext
    BY <2>1 DEF RecoverNext
  <2>2. CASE RecoverJournal
    BY <2>2 DEF RecoverJournal, Goto
  <2>3. CASE RecoverPort
    BY <2>3 DEF RecoverPort, Disable, BeginKill, Goto
  <2>4. CASE FinishSetup
    BY <2>4 DEF FinishSetup, Goto
  <2> QED
    BY <2>1, <2>2, <2>3, <2>4 DEF Recover
<1>3. \A p \in Ports \ {NC} : ~ relay'[p]
  BY <1>1, RelaysDownInSetup
<1> QED
  BY <1>2, <1>3, RelaysDown DEF TurningOn

\* The steps that switch a relay keep RelayInv.
LEMMA RelaySwitch == ASSUME TypeOK, RelayInv, Switch PROVE RelayInv'
<1>0. /\ target \in Ports /\ journal \in [Ports -> Journal]
      /\ relay \in [Ports -> BOOLEAN]
      /\ caller \in {"recover", "update", "commands"}
  BY Zenon DEF TypeOK
<1> USE DEF RelayInv, WriteAhead, TurningOn, TurningOff
<1>1. CASE TurnOn
  BY SMTT(90), <1>0, <1>1 DEF TurnOn, Goto, Booting
<1>2. CASE TurnOff
  BY SMTT(90), <1>0, <1>2 DEF TurnOff, Goto, Booting
<1>3. CASE RelayOn
  BY SMTT(90), <1>0, <1>3 DEF RelayOn, eeprom, Goto, Booting
<1>4. CASE RelayOff
  BY SMTT(90), <1>0, <1>4 DEF RelayOff, eeprom, Goto, Booting
<1>5. CASE TurnedOn
  BY SMTT(90), <1>0, <1>5 DEF TurnedOn, Return, Goto, Booting
<1>6. CASE TurnedOff
  BY SMTT(90), <1>0, <1>6 DEF TurnedOff, Return, Goto, Booting
<1> HIDE DEF RelayInv
<1> QED
  BY <1>1, <1>2, <1>3, <1>4, <1>5, <1>6 DEF Switch

\* The steps of the main loop keep RelayInv.
LEMMA RelayLoop == ASSUME TypeOK, RelayInv, LoopStep PROVE RelayInv'
<1>1. /\ UNCHANGED <<journal, relay>>
      /\ pc' \in Looping \union {"turnOn", "turnOff"}
      /\ pc' = "turnOn" => caller' = "update"
      /\ pc' = "turnOff" => caller' \in {"update", "commands"}
  BY SMTT(60), LoopControl
<1>2. WriteAhead'
  BY <1>1 DEF RelayInv, WriteAhead
<1>3. ~ (pc' \in Booting \union {"recover", "recoverPort"}
           \/ (pc' \in TurningOff /\ caller' = "recover"))
  BY <1>1 DEF Looping, Booting, TurningOff
<1> QED
  BY <1>1, <1>2, <1>3 DEF RelayInv, Looping, TurningOn

\* Every step keeps RelayInv.
LEMMA RelayStep == TypeOK /\ RelayInv /\ Step => RelayInv'
<1> SUFFICES ASSUME TypeOK, RelayInv, Step PROVE RelayInv'
  OBVIOUS
<1>1. CASE UNCHANGED <<eeprom, relay, control>> \/ UNCHANGED vars
  <2>1. UNCHANGED <<relay, journal, pc, target, caller>>
    BY <1>1 DEF vars, eeprom, control
  <2> QED
    BY <2>1, RelayFrame
<1>2. ASSUME NEW cause \in {"power", "brownout", "watchdog"}, Reset(cause) PROVE RelayInv'
  BY <1>2, ResetControl, RelaysDown DEF TurningOn
<1> QED
  BY <1>1, <1>2, RelayBoot, RelayRecover, RelaySwitch, RelayLoop DEF Step, TimeUnitEnds

\* The write-ahead discipline: a reset never finds a port on that is on record
\* as OFF.
THEOREM WriteAheadCorrect == Spec => []WriteAhead
<1>1. RelayInv => WriteAhead
  BY DEF RelayInv
<1> QED
  BY <1>1, TypeCorrect, RelayInit, RelayStep, NextCases, PTL DEF Spec
-----------------------------------------------------------------------------
(* The journal as an implementation of RelayJournal *)

JournalAction == RJ!Next \/ UNCHANGED <<Powered, Entries>>

\* A write to the journal changes the one entry.
LEMMA EntryWritten ==
    ASSUME TypeOK, NEW p \in Ports, NEW e \in Journal,
           journal' = [journal EXCEPT ![p] = e]
    PROVE  Entries' = [Entries EXCEPT ![p] = IF e \in {"TURNING_ON", "TURNING_OFF"} THEN "open"
                                             ELSE IF e = "ON" THEN "on" ELSE "off"]
BY ZenonT(60) DEF TypeOK, Entries, Entry, Incomplete

\* The entry of a port is open when the journal calls its operation incomplete.
LEMMA EntryIsOpen ==
    ASSUME NEW p \in Ports PROVE Entries[p] = "open" <=> Incomplete(p)
BY DEF Entries, Entry

\* A step that touches neither relays nor journal is none of RelayJournal's.
LEMMA JournalFrame ==
    ASSUME UNCHANGED <<relay, journal>> PROVE UNCHANGED <<Powered, Entries>>
BY DEF Powered, Entries, Entry, Incomplete

\* start() and kill() announce, switch and confirm.
LEMMA SwitchRefines == ASSUME TypeOK, JournalInv, RelayInv, Switch PROVE RJ!Next
<1>0. /\ target \in Ports /\ journal \in [Ports -> Journal]
      /\ relay \in [Ports -> BOOLEAN]
  BY Zenon DEF TypeOK
<1>1. CASE TurnOn \/ TurnOff
  <2>1. PICK e \in {"TURNING_ON", "TURNING_OFF"} :
           journal' = [journal EXCEPT ![target] = e] /\ relay' = relay
    BY <1>1 DEF TurnOn, TurnOff
  <2>2. \A q \in Ports : ~ Incomplete(q)
    BY <1>1 DEF TurnOn, TurnOff, JournalInv, Booting, EntryOpen
  <2>3. RJ!Open(target)
    BY ZenonT(60), <1>0, <2>1, <2>2, EntryWritten, EntryIsOpen DEF RJ!Open, Powered, Journal
  <2> QED
    BY <1>0, <2>3 DEF RJ!Next
<1>2. CASE RelayOn \/ RelayOff
  <2>1. Incomplete(target) /\ journal' = journal
    BY <1>2 DEF RelayOn, RelayOff, RelayInv, Incomplete, eeprom
  <2>2. PICK on \in BOOLEAN : relay' = [relay EXCEPT ![target] = on]
    BY ZenonT(60), <1>2 DEF RelayOn, RelayOff
  <2>3. Powered' = IF on THEN Powered \union {target} ELSE Powered \ {target}
    BY <1>0, <2>2 DEF Powered
  <2>4. RJ!Switch(target)
    BY <1>0, <2>1, <2>3, EntryIsOpen DEF RJ!Switch, Entries, Entry, Incomplete
  <2> QED
    BY <1>0, <2>4 DEF RJ!Next
<1>3. CASE TurnedOn
  <2>1. Incomplete(target) /\ relay[target] /\ relay' = relay
    BY <1>3 DEF TurnedOn, RelayInv, Incomplete
  <2>2. Entries' = [Entries EXCEPT ![target] = "on"]
    BY ZenonT(60), <1>0, <1>3, EntryWritten DEF TurnedOn, Journal
  <2>3. RJ!Close(target)
    BY <1>0, <2>1, <2>2, EntryIsOpen DEF RJ!Close, Powered
  <2> QED
    BY <1>0, <2>3 DEF RJ!Next
<1>4. CASE TurnedOff
  <2>1. Incomplete(target) /\ ~ relay[target] /\ relay' = relay
    BY <1>4 DEF TurnedOff, RelayInv, Incomplete
  <2>2. Entries' = [Entries EXCEPT ![target] = "off"]
    BY ZenonT(60), <1>0, <1>4, EntryWritten DEF TurnedOff, Journal
  <2>3. RJ!Close(target)
    BY <1>0, <2>1, <2>2, EntryIsOpen DEF RJ!Close, Powered
  <2> QED
    BY <1>0, <2>3 DEF RJ!Next
<1> QED
  BY <1>1, <1>2, <1>3, <1>4 DEF Switch

\* The bootloader switches the node controller, and Record::init writes the
\* journal anew, with everything else off.
LEMMA BootRefines == ASSUME TypeOK, RelayInv, Boot PROVE JournalAction
<1>0. NC \in Ports /\ relay \in [Ports -> BOOLEAN]
  BY PortAssumption DEF TypeOK, Ports, NC
<1>1. CASE BootloaderStart
  <2>1. journal' = journal
    BY <1>1 DEF BootloaderStart, eeprom
  <2>2. CASE relay' = relay
    BY <2>1, <2>2, JournalFrame DEF JournalAction
  <2>3. CASE relay' = [relay EXCEPT ![NC] = TRUE]
    <3>1. Powered' = Powered \union {NC}
      BY <1>0, <2>3 DEF Powered
    <3>2. RJ!Switch(NC)
      BY <2>1, <3>1 DEF RJ!Switch, Entries, Entry, Incomplete
    <3> QED
      BY <1>0, <3>2 DEF RJ!Next, JournalAction
  <2> QED
    BY <1>1, <2>2, <2>3 DEF BootloaderStart
<1>2. CASE InitRecord
  <2>1. \A p \in Ports \ {NC} : ~ relay[p]
    BY <1>2, RelaysDownInSetup DEF InitRecord, Booting
  <2>2. Powered \subseteq {NC} /\ Powered' = Powered
    BY <1>2, <2>1 DEF InitRecord, Powered
  <2>3. Entries' = [p \in Ports |-> "off"]
    BY <1>2 DEF InitRecord, Entries, Entry, Incomplete
  <2> QED
    BY <2>2, <2>3 DEF RJ!Next, RJ!Clear, JournalAction
<1>3. CASE BootloaderExit \/ SetupDevices
  BY <1>3, JournalFrame DEF BootloaderExit, SetupDevices, eeprom, JournalAction
<1> QED
  BY <1>1, <1>2, <1>3 DEF Boot

\* The recovery gives up the operation that a reset has interrupted; the power
\* went with the reset.
LEMMA RecoverRefines == ASSUME TypeOK, RelayInv, Recover PROVE JournalAction
<1>1. CASE RecoverJournal
  <2>1. at \in Ports /\ Incomplete(at) /\ relay' = relay
    BY <1>1, PortAssumption DEF RecoverJournal, TypeOK, Ports
  <2>2. at # NC => ~ relay[at]
    BY <1>1, <2>1, RelaysDownInSetup DEF RecoverJournal
  <2>3. Entries' = [Entries EXCEPT ![at] = "off"]
    BY ZenonT(60), <1>1, <2>1, EntryWritten DEF RecoverJournal, Journal
  <2>4. RJ!Close(at)
    BY <2>1, <2>2, <2>3, EntryIsOpen DEF RJ!Close, Powered
  <2> QED
    BY SMTT(60), <2>1, <2>4 DEF RJ!Next, JournalAction
<1>2. CASE RecoverNext \/ RecoverPort \/ FinishSetup
  <2>1. UNCHANGED <<relay, journal>>
    BY ZenonT(60), <1>2 DEF RecoverNext, RecoverPort, FinishSetup, eeprom
  <2> QED
    BY <2>1, JournalFrame DEF JournalAction
<1> QED
  BY <1>1, <1>2 DEF Recover

\* Every step of the power manager is one of RelayJournal's, or a stutter.
LEMMA JournalRefines ==
    TypeOK /\ JournalInv /\ RelayInv /\ Step => [RJ!Next]_<<Powered, Entries>>
<1> SUFFICES ASSUME TypeOK, JournalInv, RelayInv, Step PROVE JournalAction
  BY DEF JournalAction
<1>1. CASE LoopStep
  BY <1>1, LoopControl, JournalFrame DEF JournalAction
<1>2. CASE TimeUnitEnds \/ UNCHANGED vars
  BY SMTT(60), <1>2, JournalFrame DEF TimeUnitEnds, vars, eeprom, JournalAction
<1>3. ASSUME NEW cause \in {"power", "brownout", "watchdog"}, Reset(cause) PROVE JournalAction
  <2>1. /\ journal' = journal
        /\ \A p \in Ports \ {NC} : ~ relay'[p]
    BY <1>3, ResetControl
  <2>2. \A p \in Ports : relay'[p] => relay[p]
    BY <1>3, ZenonT(90) DEF Reset, RelaysAfter
  <2>3. Powered' \in SUBSET (Powered \intersect {NC})
    BY <2>1, <2>2 DEF Powered
  <2> QED
    BY <2>1, <2>3 DEF RJ!Next, RJ!Reset, JournalAction, Entries, Entry, Incomplete
<1> QED
  BY <1>1, <1>2, <1>3, SwitchRefines, BootRefines, RecoverRefines DEF Step, JournalAction

\* start(), kill(), the recovery and Record::init implement RelayJournal, for
\* every number of ports, every order of commands and resets at every point.
THEOREM JournalImplemented == Spec => ImplementsJournal
<1>1. Init => RJ!Init
  BY DEF Init, RJ!Init, Powered, Entries, Entry, Incomplete
<1> QED
  BY <1>1, TypeInit, TypeStep, JournalInit, JournalStep, RelayInit, RelayStep, JournalRefines,
     NextCases, PTL DEF Spec, ImplementsJournal, RJ!Spec
-----------------------------------------------------------------------------
(* The selector of the guest node *)

\* Neither the override nor the selector of the guest node moves.
SameOverride ==
    /\ devices'[1].forceBootMedia = devices[1].forceBootMedia
    /\ selector'[1] = selector[1]

\* Changes of state and heartbeats keep an override.
LEMMA ForceKept ==
    ASSUME NEW d \in Device, NEW p \in Ports
    PROVE  /\ \A s \in States : ChangeState(d, s).forceBootMedia = d.forceBootMedia
           /\ OnHeartbeat(p, d).forceBootMedia = d.forceBootMedia
<1>1. ASSUME NEW e \in Device, NEW s \in States
      PROVE  ChangeState(e, s).forceBootMedia = e.forceBootMedia
  BY DEF ChangeState, Device
<1> DEFINE heard == [d EXCEPT !.heartbeatTimer = 0]
<1>2. heard \in Device /\ heard.forceBootMedia = d.forceBootMedia
  BY ZeroTime DEF Device
<1> HIDE DEF heard
<1>3. OnHeartbeat(p, d) = heard \/ \E s \in States : OnHeartbeat(p, d) = ChangeState(heard, s)
  BY SMTT(60) DEF OnHeartbeat, States, heard
<1> QED
  BY <1>1, <1>2, <1>3

\* An assignment to one device that keeps its override.
LEMMA AssignKeeps ==
    ASSUME TypeOK, 1 \in Ports, NEW p \in Ports, NEW e,
           devices' = [devices EXCEPT ![p] = e],
           e.forceBootMedia = devices[p].forceBootMedia, selector' = selector
    PROVE  SameOverride
BY DEF TypeOK, SameOverride

\* setNextBootMedia of the guest node moves its selector, that of another
\* device does not.
LEMMA SetNextBootMediaGuest ==
    ASSUME TypeOK, 1 \in Ports, GuestOverrideSelected, NEW p \in Ports, NEW d \in Device,
           NEW media \in Media, SetNextBootMedia(p, d, media)
    PROVE  GuestOverrideSelected'
<1> DEFINE e == [d EXCEPT !.forceBootMedia = media]
<1>1. e.forceBootMedia = media
  BY DEF Device
<1>2. devices' = [devices EXCEPT ![p] = e] /\ selector' = [selector EXCEPT ![SelectorOf(p)] = media]
  BY SMTT(60) DEF SetNextBootMedia
<1> HIDE DEF e
<1>3. CASE p = 1
  BY SMTT(60), <1>1, <1>2, <1>3 DEF TypeOK, SelectorOf, GuestOverrideSelected, OverrideSelected
<1>4. CASE p # 1
  BY <1>2, <1>4 DEF TypeOK, SelectorOf, GuestOverrideSelected, OverrideSelected
<1> QED
  BY <1>3, <1>4

\* start() of the guest node ends its override, that of another device leaves
\* the selector of the guest node alone.
LEMMA BeginStartGuest ==
    ASSUME TypeOK, 1 \in Ports, GuestOverrideSelected, NEW p \in Ports, BeginStart(p)
    PROVE  GuestOverrideSelected'
<1> DEFINE m == failures[p] < ManagedLimit
           d == [devices[p] EXCEPT !.managed = m]
           e == [d EXCEPT !.forceBootMedia = NoMedia]
<1>1. /\ devices' = [devices EXCEPT ![p] = e]
      /\ \E media : selector' = [selector EXCEPT ![SelectorOf(p)] = media]
  BY ZenonT(90) DEF BeginStart
<1>2. e.forceBootMedia = NoMedia
  BY SMTT(60) DEF TypeOK, Device
<1> HIDE DEF m, d, e
<1>3. CASE p = 1
  BY SMTT(60), <1>1, <1>2, <1>3 DEF TypeOK, GuestOverrideSelected, OverrideSelected
<1>4. CASE p # 1
  BY <1>1, <1>4 DEF TypeOK, SelectorOf, GuestOverrideSelected, OverrideSelected
<1> QED
  BY <1>3, <1>4

\* disable() keeps an override.
LEMMA DisableGuest ==
    ASSUME TypeOK, 1 \in Ports, NEW p \in Ports, NEW return, Disable(p, return),
           selector' = selector
    PROVE  SameOverride
<1>1. ChangeState(devices[p], "DISABLED").forceBootMedia = devices[p].forceBootMedia
  BY DeviceAt, ForceKept DEF States
<1>2. CASE devices' = devices
  BY <1>2 DEF SameOverride
<1>3. CASE devices' = [devices EXCEPT ![p] = ChangeState(devices[p], "DISABLED")]
  BY ZenonT(90), <1>1, <1>3, AssignKeeps
<1> QED
  BY ZenonT(90), <1>2, <1>3 DEF Disable

\* Device::update moves the selector and the override together, or neither.
LEMMA UpdateGuest ==
    ASSUME TypeOK, 1 \in Ports, GuestOverrideSelected, NEW beat \in BOOLEAN, Update(beat)
    PROVE  SameOverride \/ GuestOverrideSelected'
<1> DEFINE d == IF beat THEN OnHeartbeat(at, devices[at]) ELSE devices[at]
<1>1. at \in Ports
  BY SMTT(60) DEF Update, TypeOK
<1>2. d \in Device /\ d.forceBootMedia = devices[at].forceBootMedia
  BY ZenonT(60), <1>1, DeviceAt, OnHeartbeatFacts, ForceKept
<1>3. \/ UpdateHeartbeatLost(at, d) \/ UpdateUnmanagedSwitch(at, d)
      \/ UpdateStopDue(at, d) \/ UpdateNothingDue(at, d)
  BY SMTT(60) DEF Update
<1> HIDE DEF d
<1>4. /\ ChangeState(d, "STOPPING").forceBootMedia = d.forceBootMedia
      /\ ChangeState(d, "STOPPING") \in Device
  BY <1>1, <1>2, ForceKept, ChangeStateFacts DEF States
<1>5. CASE UpdateHeartbeatLost(at, d)
  BY ZenonT(90), <1>1, <1>2, <1>4, <1>5, AssignKeeps DEF UpdateHeartbeatLost
<1>6. CASE UpdateUnmanagedSwitch(at, d)
  <2>1. PICK media \in Media : SetNextBootMedia(at, ChangeState(d, "STOPPING"), media)
    BY <1>6 DEF UpdateUnmanagedSwitch, Media
  <2> QED
    BY <1>1, <1>4, <2>1, SetNextBootMediaGuest
<1>7. CASE UpdateStopDue(at, d)
  <2>1. [d EXCEPT !.stopTimeout = StopTimeout].forceBootMedia = d.forceBootMedia
    BY <1>2 DEF Device
  <2> QED
    BY ZenonT(90), <1>1, <1>2, <1>7, <2>1, AssignKeeps DEF UpdateStopDue
<1>8. CASE UpdateNothingDue(at, d)
  BY ZenonT(90), <1>1, <1>2, <1>8, AssignKeeps DEF UpdateNothingDue
<1> QED
  BY SMTT(60), <1>3, <1>5, <1>6, <1>7, <1>8

\* Of the commands, only the one for the boot media moves an override.
LEMMA CommandGuest ==
    ASSUME TypeOK, 1 \in Ports, GuestOverrideSelected, Command
    PROVE  SameOverride \/ GuestOverrideSelected'
<1>1. ASSUME NEW p \in Ports, CommandPing(p) PROVE SameOverride
  <2>1. OnHeartbeat(p, devices[p]).forceBootMedia = devices[p].forceBootMedia
    BY DeviceAt, ForceKept
  <2>2. devices' = [devices EXCEPT ![p] = OnHeartbeat(p, devices[p])] /\ selector' = selector
    BY ZenonT(90), <1>1 DEF CommandPing, TypeOK
  <2> QED
    BY ZenonT(90), <2>1, <2>2, AssignKeeps
<1>2. ASSUME NEW p \in Ports, NEW t \in StopTimeouts, CommandStop(p, t) PROVE SameOverride
  <2> DEFINE d == [devices[p] EXCEPT !.stopTimeout = t]
             e == IF d.state = "STARTED" THEN ChangeState(d, "STOPPING") ELSE d
  <2>1. t \in Time
    BY TimeAssumption DEF Time
  <2>2. d \in Device /\ d.forceBootMedia = devices[p].forceBootMedia
    BY <2>1, DeviceAt DEF Device
  <2>3. devices' = [devices EXCEPT ![p] = e] /\ selector' = selector
    BY ZenonT(90), <1>2 DEF CommandStop
  <2> HIDE DEF d
  <2>4. e.forceBootMedia = devices[p].forceBootMedia
    BY <2>2, ForceKept DEF States
  <2> HIDE DEF e
  <2> QED
    BY ZenonT(90), <2>3, <2>4, AssignKeeps
<1>3. ASSUME NEW p \in Ports, NEW m \in Media, CommandBootMedia(p, m)
      PROVE  GuestOverrideSelected'
  BY <1>3, DeviceAt, SetNextBootMediaGuest DEF CommandBootMedia
<1>4. ASSUME NEW p \in Ports, CommandEnable(p) PROVE SameOverride
  <2>1. ChangeState(devices[p], "STOPPED").forceBootMedia = devices[p].forceBootMedia
    BY DeviceAt, ForceKept DEF States
  <2>2. devices' = [devices EXCEPT ![p] = ChangeState(devices[p], "STOPPED")]
        /\ selector' = selector
    BY ZenonT(90), <1>4 DEF CommandEnable, TypeOK
  <2> QED
    BY ZenonT(90), <2>1, <2>2, AssignKeeps
<1>5. ASSUME NEW p \in Ports, CommandDisable(p) PROVE SameOverride
  BY ZenonT(90), <1>5, DisableGuest DEF CommandDisable
<1>6. ASSUME NEW p \in Ports, NEW mode \in BOOLEAN, CommandWatch(p, mode) PROVE SameOverride
  <2> DEFINE e == [devices[p] EXCEPT !.watchHeartbeat = mode]
  <2>1. e.forceBootMedia = devices[p].forceBootMedia
    BY DeviceAt DEF Device
  <2>2. devices' = [devices EXCEPT ![p] = e] /\ selector' = selector
    BY ZenonT(90), <1>6 DEF CommandWatch
  <2> HIDE DEF e
  <2> QED
    BY ZenonT(90), <2>1, <2>2, AssignKeeps
<1>7. ASSUME \/ \E p \in Ports : CommandStart(p)
             \/ \E t \in ResetTimeouts : CommandReset(t)
             \/ \E mode \in {"off", "sd", "emmc"} : CommandBLFlag(mode)
             \/ CommandResetEEPROM
      PROVE  SameOverride
  BY ZenonT(90), <1>7 DEF CommandStart, CommandReset, CommandBLFlag, CommandResetEEPROM,
     SameOverride
<1> QED
  BY ZenonT(90), <1>1, <1>2, <1>3, <1>4, <1>5, <1>6, <1>7 DEF Command

\* Time keeps an override.
LEMMA PassTimeGuest ==
    ASSUME TypeOK, 1 \in Ports, PassTime \/ UNCHANGED devices, selector' = selector
    PROVE  SameOverride
<1>1. CASE PassTime
  <2> DEFINE a == Tick(devices[1].stateTimer)
             b == Tick(devices[1].heartbeatTimer)
  <2>1. devices'[1] = [devices[1] EXCEPT !.stateTimer = a, !.heartbeatTimer = b]
    BY ZenonT(90), <1>1 DEF PassTime
  <2> HIDE DEF a, b
  <2>2. devices[1] \in Device
    BY DeviceAt
  <2> QED
    BY <2>1, <2>2 DEF SameOverride, Device
<1>2. CASE UNCHANGED devices
  BY <1>2 DEF SameOverride
<1> QED
  BY <1>1, <1>2

\* Before the main loop, and at the end of start() and kill(), no override is
\* made.
LEMMA ElsewhereGuest ==
    ASSUME TypeOK, 1 \in Ports, Boot \/ Recover \/ Switch
    PROVE  SameOverride \/ devices'[1].forceBootMedia = NoMedia
<1>1. CASE BootloaderStart \/ BootloaderExit
  BY <1>1 DEF BootloaderStart, BootloaderExit, SameOverride, TypeOK, ram
<1>2. CASE InitRecord \/ RecoverNext \/ RecoverJournal \/ FinishSetup
           \/ TurnOn \/ RelayOn \/ TurnOff \/ RelayOff
  BY ZenonT(90), <1>2 DEF InitRecord, RecoverNext, RecoverJournal, FinishSetup, TurnOn, RelayOn,
     TurnOff, RelayOff, SameOverride, ram
<1>3. CASE SetupDevices
  BY <1>3 DEF SetupDevices, NewDevice
<1>4. CASE RecoverPort
  <2>1. at \in Ports /\ selector' = selector
    BY ZenonT(90), <1>4 DEF RecoverPort, TypeOK
  <2>2. CASE Disable(at, "recover")
    BY <2>1, <2>2, DisableGuest
  <2>3. CASE UNCHANGED devices
    BY <2>1, <2>3 DEF SameOverride
  <2> QED
    BY ZenonT(90), <1>4, <2>2, <2>3 DEF RecoverPort
<1>5. CASE TurnedOn \/ TurnedOff
  <2>1. target \in Ports
    BY SMTT(60) DEF TypeOK
  <2>2. PICK s \in States : devices' = [devices EXCEPT ![target] = ChangeState(devices[target], s)]
    <3>1. {"STARTED", "STOPPED", "DISABLED"} \subseteq States
      BY SMTT(60) DEF States
    <3> QED
      BY <1>5, <2>1, <3>1 DEF TurnedOn, TurnedOff, TypeOK
  <2>3. ChangeState(devices[target], s).forceBootMedia = devices[target].forceBootMedia
    BY <2>1, DeviceAt, ForceKept
  <2>4. selector' = selector
    BY ZenonT(90), <1>5 DEF TurnedOn, TurnedOff
  <2> QED
    BY ZenonT(90), <2>1, <2>2, <2>3, <2>4, AssignKeeps
<1> QED
  BY SMTT(60), <1>1, <1>2, <1>3, <1>4, <1>5 DEF Boot, Recover, Switch

\* The override of the guest node is on its selector until it starts, whatever
\* other ports and resets do: no other port has this selector, and every step
\* that ends the override or moves the selector does both.
THEOREM GuestOverrideCorrect == Spec => []GuestOverrideSelected
<1>1. Init => GuestOverrideSelected
  BY DEF Init, NewDevice, GuestOverrideSelected, OverrideSelected
<1>2. TypeOK /\ GuestOverrideSelected /\ Step => GuestOverrideSelected'
  <2> SUFFICES ASSUME TypeOK, GuestOverrideSelected, Step, 1 \in Ports
               PROVE  GuestOverrideSelected'
    BY SMTT(60) DEF GuestOverrideSelected
  <2>1. SameOverride => GuestOverrideSelected'
    BY DEF SameOverride, GuestOverrideSelected, OverrideSelected, SelectorOf
  <2>2. devices'[1].forceBootMedia = NoMedia => GuestOverrideSelected'
    BY DEF GuestOverrideSelected, OverrideSelected
  <2>3. CASE Boot \/ Recover \/ Switch
    BY <2>1, <2>2, <2>3, ElsewhereGuest
  <2>4. CASE StartNext
    <3>1. ASSUME NEW p \in Ports, BeginStart(p) PROVE GuestOverrideSelected'
      BY <3>1, BeginStartGuest
    <3>2. CASE UNCHANGED <<devices, selector>>
      BY SMTT(60), <2>1, <3>2 DEF SameOverride
    <3>3. deviceWantsStart # NoPort => deviceWantsStart \in Ports
      BY DEF TypeOK
    <3> QED
      BY ZenonT(90), <2>4, <3>1, <3>2, <3>3
         DEF StartNext, StartRequested, StartFirst, StartNothing, ram
  <2>5. ASSUME NEW beat \in BOOLEAN, Update(beat) PROVE GuestOverrideSelected'
    BY <2>1, <2>5, UpdateGuest
  <2>6. CASE Command
    BY <2>1, <2>6, CommandGuest
  <2>7. ASSUME (\E tick \in BOOLEAN : EndPass(tick)) \/ TimeUnitEnds
        PROVE  GuestOverrideSelected'
    BY ZenonT(90), <2>1, <2>7, PassTimeGuest DEF EndPass, TimeUnitEnds
  <2>8. ASSUME NEW cause \in {"power", "brownout", "watchdog"}, Reset(cause)
        PROVE  GuestOverrideSelected'
    BY <2>2, <2>8 DEF Reset, NewDevice
  <2>9. CASE UNCHANGED vars
    BY <2>1, <2>9 DEF vars, ram, SameOverride
  <2> QED
    BY <2>3, <2>4, <2>5, <2>6, <2>7, <2>8, <2>9 DEF Step, LoopStep
<1> QED
  BY <1>1, <1>2, TypeCorrect, NextCases, PTL DEF Spec
=============================================================================
