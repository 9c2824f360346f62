---------------------- MODULE PowerManagerDisableProofs ----------------------
(***************************************************************************)
(* A disabled device is and stays without power, nothing is powered once a *)
(* reset is pending, and the recovery at start-up disables the devices     *)
(* whose relays were being switched when the power failed.  DisableInv,    *)
(* QuietInv and RecoveryInv add what holds in the middle of start(),       *)
(* disable() and the recovery loop.                                        *)
(***************************************************************************)
EXTENDS PowerManagerProofs

\* RAM and EEPROM agree on what is disabled, but for a running disable()
DisableInv ==
    /\ DisabledUnpowered
    /\ pc \notin Booting =>
         \A p \in Ports \ {NC} : devices[p].state # "DISABLED" =>
            enabled[p] \/ (disabling /\ target = p /\ pc \in TurningOff)
    /\ pc \in TurningOn => devices[target].state = "STOPPED"
    /\ pc \in TurningOff =>
         /\ devices[target].state # "DISABLED"
         /\ disabling /\ target # NC => ~ enabled[target]
-----------------------------------------------------------------------------
(* Disabled devices *)

\* the devices that are disabled, and the record of it, stay as they are
SameDisabled ==
    /\ \A p \in Ports : devices'[p].state = "DISABLED" <=> devices[p].state = "DISABLED"
    /\ \A p \in Ports : enabled'[p] = enabled[p]

\* A heartbeat changes nothing about what is disabled.
LEMMA HeartbeatSame ==
    ASSUME TypeOK, DisableInv, pc \in Looping, NEW p \in Ports
    PROVE  \A q \in Ports : EnabledAfterHeartbeat(p, devices[p])[q] = enabled[q]
BY ZenonT(90) DEF TypeOK, DisableInv, DisabledUnpowered, EnabledAfterHeartbeat, Looping, Booting

\* The start of start() finds a stopped device and changes no state.
LEMMA StartNextSame ==
    ASSUME TypeOK, StartNext
    PROVE  /\ SameDisabled
           /\ pc' = "turnOn" => target' \in Ports /\ devices'[target'].state = "STOPPED"
           /\ pc' # "turnOff"
<1>1. ASSUME NEW p \in Ports, BeginStart(p)
      PROVE  /\ \A q \in Ports : devices'[q].state = devices[q].state
             /\ target' = p /\ devices'[p].state = "STOPPED" /\ pc' = "turnOn"
  <2> DEFINE m == failures[p] < ManagedLimit
             e == [[devices[p] EXCEPT !.managed = m] EXCEPT !.forceBootMedia = NoMedia]
  <2>1. devices' = [devices EXCEPT ![p] = e]
    BY <1>1 DEF BeginStart
  <2> HIDE DEF m
  <2>2. e.state = devices[p].state
    BY DEF TypeOK, Device
  <2> HIDE DEF e
  <2> QED
    BY <1>1, <2>1, <2>2 DEF BeginStart, Goto, TypeOK
<1>2. CASE StartRequested
  <2>1. deviceWantsStart \in Ports
    BY <1>2 DEF StartRequested, TypeOK
  <2> QED
    BY <1>1, <1>2, <2>1 DEF StartRequested, SameDisabled, Goto
<1>3. CASE StartFirst
  BY <1>1, <1>3 DEF StartFirst, SameDisabled
<1>4. CASE StartNothing
  BY <1>4 DEF StartNothing, SameDisabled, eeprom, ram, Goto
<1> QED
  BY <1>2, <1>3, <1>4 DEF StartNext

\* Device::update disables nothing and kills only what is not disabled.
LEMMA UpdateSame ==
    ASSUME TypeOK, DisableInv, NEW beat \in BOOLEAN, Update(beat)
    PROVE  /\ SameDisabled
           /\ pc' # "turnOn"
           /\ pc' = "turnOff" => /\ target' \in Ports /\ ~ disabling'
                                 /\ devices'[target'].state # "DISABLED"
<1> DEFINE d == IF beat THEN OnHeartbeat(at, devices[at]) ELSE devices[at]
<1>1. /\ at \in Ports /\ d \in Device
      /\ d.state = "DISABLED" <=> devices[at].state = "DISABLED"
  BY OnHeartbeatFacts DEF Update, TypeOK
<1>2. pc = "update" /\ \A p \in Ports : enabled'[p] = enabled[p]
  BY <1>1, HeartbeatSame DEF Update, Looping
<1>3. \/ UpdateHeartbeatLost(at, d) \/ UpdateUnmanagedSwitch(at, d)
      \/ UpdateStopDue(at, d) \/ UpdateNothingDue(at, d)
  BY DEF Update
<1> HIDE DEF d
<1>4. /\ ChangeState(d, "STOPPING") \in Device
      /\ ChangeState(d, "STOPPING").state = "STOPPING"
  BY <1>1, ChangeStateFacts DEF States
<1>5. NextUpdate \in {"update", "commands"}
  BY DEF NextUpdate
<1>6. CASE UpdateHeartbeatLost(at, d)
  BY SMTT(60), <1>1, <1>2, <1>4, <1>5, <1>6
     DEF UpdateHeartbeatLost, HeartbeatLost, SameDisabled, Goto, TypeOK
<1>7. CASE UpdateUnmanagedSwitch(at, d)
  <2>1. PICK media \in Media : SetNextBootMedia(at, ChangeState(d, "STOPPING"), media)
    BY <1>7 DEF UpdateUnmanagedSwitch, Media
  <2>2. [ChangeState(d, "STOPPING") EXCEPT !.forceBootMedia = media].state = "STOPPING"
    BY <1>4 DEF Device
  <2>3. devices'[at].state = "STOPPING" /\ \A p \in Ports \ {at} : devices'[p] = devices[p]
    BY <1>1, <2>1, <2>2 DEF SetNextBootMedia, TypeOK
  <2> QED
    BY <1>1, <1>2, <1>5, <1>7, <2>3
       DEF UpdateUnmanagedSwitch, SwitchDue, SameDisabled, Goto
<1>8. CASE UpdateStopDue(at, d)
  <2>1. [d EXCEPT !.stopTimeout = StopTimeout].state = d.state
    BY <1>1 DEF Device
  <2>2. devices'[at].state = d.state /\ \A p \in Ports \ {at} : devices'[p] = devices[p]
    BY SMTT(60), <1>1, <1>8, <2>1 DEF UpdateStopDue, TypeOK
  <2> QED
    BY <1>1, <1>2, <1>8, <2>2 DEF UpdateStopDue, StopDue, BeginKill, SameDisabled, Goto
<1>9. CASE UpdateNothingDue(at, d)
  BY SMTT(60), <1>1, <1>2, <1>5, <1>9 DEF UpdateNothingDue, SameDisabled, Goto, TypeOK
<1> QED
  BY <1>3, <1>6, <1>7, <1>8, <1>9

\* Time changes no state.
LEMMA PassTimeSame ==
    ASSUME TypeOK, PassTime
    PROVE  \A p \in Ports : devices'[p].state = devices[p].state
<1> SUFFICES ASSUME NEW p \in Ports PROVE devices'[p].state = devices[p].state
  OBVIOUS
<1> DEFINE a == Tick(devices[p].stateTimer)
           b == Tick(devices[p].heartbeatTimer)
<1>1. devices'[p] = [devices[p] EXCEPT !.stateTimer = a, !.heartbeatTimer = b]
  BY ZenonT(90) DEF PassTime
<1> HIDE DEF a, b
<1> QED
  BY <1>1 DEF TypeOK, Device

\* Of the commands, only enable and disable change what is disabled.
LEMMA CommandSame ==
    ASSUME TypeOK, DisableInv, Command
    PROVE  \/ SameDisabled /\ UNCHANGED control
           \/ \E p \in Ports : CommandEnable(p) \/ CommandDisable(p)
<1>0. pc = "commands"
  BY DEF Command
<1>1. ASSUME NEW p \in Ports, CommandPing(p) PROVE SameDisabled /\ UNCHANGED control
  <2>1. OnHeartbeat(p, devices[p]).state = "DISABLED" <=> devices[p].state = "DISABLED"
    BY SMTT(60), OnHeartbeatFacts DEF TypeOK
  <2>2. \A q \in Ports : enabled'[q] = enabled[q]
    BY <1>0, <1>1, HeartbeatSame DEF CommandPing, Looping
  <2> QED
    BY SMTT(60), <1>1, <2>1, <2>2 DEF CommandPing, SameDisabled, TypeOK
<1>2. ASSUME NEW p \in Ports, NEW t \in StopTimeouts, CommandStop(p, t)
      PROVE  SameDisabled /\ UNCHANGED control
  <2> DEFINE d == [devices[p] EXCEPT !.stopTimeout = t]
  <2>1. t \in Time
    BY TimeAssumption DEF Time
  <2>2. d \in Device /\ d.state = devices[p].state
    BY SMTT(60), <2>1 DEF TypeOK, Device
  <2>3. devices' = [devices EXCEPT ![p] =
                     IF d.state = "STARTED" THEN ChangeState(d, "STOPPING") ELSE d]
    BY <1>2 DEF CommandStop
  <2> HIDE DEF d
  <2>4. ChangeState(d, "STOPPING").state = "STOPPING"
    BY <2>2, ChangeStateFacts DEF States
  <2> QED
    BY <1>2, <2>2, <2>3, <2>4 DEF CommandStop, SameDisabled, TypeOK
<1>3. ASSUME NEW p \in Ports, NEW m \in Media, CommandBootMedia(p, m)
      PROVE  SameDisabled /\ UNCHANGED control
  <2>1. [devices[p] EXCEPT !.forceBootMedia = m].state = devices[p].state
    BY DEF TypeOK, Device
  <2>2. \A q \in Ports : devices'[q].state = devices[q].state
    BY <1>3, <2>1 DEF CommandBootMedia, SetNextBootMedia, TypeOK
  <2> QED
    BY <1>3, <2>2 DEF CommandBootMedia, SameDisabled
<1>4. ASSUME NEW p \in Ports, NEW mode \in BOOLEAN, CommandWatch(p, mode)
      PROVE  SameDisabled /\ UNCHANGED control
  <2>1. [devices[p] EXCEPT !.watchHeartbeat = mode].state = devices[p].state
    BY DEF TypeOK, Device
  <2>2. \A q \in Ports : devices'[q].state = devices[q].state
    BY <1>4, <2>1 DEF CommandWatch, TypeOK
  <2> QED
    BY <1>4, <2>2 DEF CommandWatch, SameDisabled
<1>5. ASSUME \/ \E p \in Ports : CommandStart(p)
             \/ \E t \in ResetTimeouts : CommandReset(t)
             \/ \E mode \in {"off", "sd", "emmc"} : CommandBLFlag(mode)
             \/ CommandResetEEPROM
      PROVE  SameDisabled /\ UNCHANGED control
  BY <1>5 DEF CommandStart, CommandReset, CommandBLFlag, CommandResetEEPROM, SameDisabled
<1> QED
  BY <1>1, <1>2, <1>3, <1>4, <1>5 DEF Command

\* DisableInv holds at first.
LEMMA DisableInit == Init => DisableInv
BY DEF Init, DisableInv, DisabledUnpowered, Booting, TurningOn, TurningOff

\* Every step of the main loop keeps DisableInv.
LEMMA LoopDisable ==
    ASSUME TypeOK, DisableInv, LoopStep
    PROVE  DisableInv'
<1> USE DEF DisableInv, DisabledUnpowered, Booting, TurningOn, TurningOff
<1>0. /\ pc \in Looping /\ relay' = relay
      /\ pc' \in Looping \union {"turnOn", "turnOff"}
  BY LoopControl
<1>1. CASE StartNext
  BY <1>0, <1>1, StartNextSame DEF SameDisabled, Looping
<1>2. ASSUME NEW beat \in BOOLEAN, Update(beat) PROVE DisableInv'
  BY SMTT(90), <1>0, <1>2, UpdateSame DEF SameDisabled, Looping
<1>3. CASE Command
  <2>1. CASE SameDisabled /\ UNCHANGED control
    BY <1>0, <2>1 DEF SameDisabled, control, Looping
  <2>2. ASSUME NEW p \in Ports, CommandEnable(p) PROVE DisableInv'
    <3>1. ChangeState(devices[p], "STOPPED").state = "STOPPED"
      BY SMTT(60), ChangeStateFacts DEF TypeOK, States
    <3>2. /\ devices'[p].state = "STOPPED" /\ enabled'[p]
          /\ \A q \in Ports \ {p} : devices'[q] = devices[q] /\ enabled'[q] = enabled[q]
      BY <2>2, <3>1 DEF CommandEnable, TypeOK
    <3> QED
      BY <1>0, <2>2, <3>2 DEF CommandEnable, control, Looping
  <2>3. ASSUME NEW p \in Ports, CommandDisable(p) PROVE DisableInv'
    <3>1. ChangeState(devices[p], "DISABLED").state = "DISABLED"
      BY ChangeStateFacts DEF TypeOK, States
    <3>2. /\ \A q \in Ports : devices'[q].state = devices[q].state
          /\ \A q \in Ports : enabled'[q] = (enabled[q] /\ (q = p => p = NC))
      BY ZenonT(90), <2>3, <3>1 DEF CommandDisable, Disable, TypeOK
    <3>3. \/ /\ devices[p].state # "DISABLED" /\ pc' = "turnOff"
             /\ target' = p /\ disabling' = TRUE
          \/ devices[p].state = "DISABLED" /\ pc' = "commands"
      BY <2>3 DEF CommandDisable, Disable, BeginKill, Goto
    <3> QED
      BY ZenonT(90), <1>0, <3>2, <3>3 DEF Looping
  <2> QED
    BY SMTT(90), <1>3, <2>1, <2>2, <2>3, CommandSame
<1>4. ASSUME NEW tick \in BOOLEAN, EndPass(tick) PROVE DisableInv'
  <2>1. \A p \in Ports : devices'[p].state = devices[p].state
    BY <1>4, PassTimeSame DEF EndPass
  <2> QED
    BY <1>0, <1>4, <2>1 DEF EndPass, eeprom, Goto, Looping
<1> QED
  BY <1>1, <1>2, <1>3, <1>4 DEF LoopStep

\* Every step keeps DisableInv.
LEMMA DisableStep == TypeOK /\ RelayInv /\ DisableInv /\ Step => DisableInv'
<1> SUFFICES ASSUME TypeOK, RelayInv, DisableInv, Step PROVE DisableInv'
  OBVIOUS
<1> USE DEF DisableInv, DisabledUnpowered, Booting, TurningOn, TurningOff
<1>0. /\ target \in Ports /\ devices \in [Ports -> Device]
      /\ enabled \in [Ports -> BOOLEAN] /\ relay \in [Ports -> BOOLEAN]
      /\ caller \in {"recover", "update", "commands"}
      /\ NC \in Ports
  BY SMTT(60), PortAssumption DEF TypeOK, NC, Ports
<1>1. CASE BootloaderStart \/ BootloaderExit \/ InitRecord
  BY SMTT(90), <1>1 DEF BootloaderStart, BootloaderExit, InitRecord, Goto, control
<1>2. CASE SetupDevices
  <2>1. \A p \in Ports : devices'[p].state = IF p = NC \/ enabled[p] THEN "STOPPED" ELSE "DISABLED"
    <3> TAKE p \in Ports
    <3>1. GetDeviceEnabled(p) \in BOOLEAN
      BY DEF GetDeviceEnabled, TypeOK
    <3>2. NewDevice(p, GetDeviceEnabled(p)).state
            = IF GetDeviceEnabled(p) THEN "STOPPED" ELSE "DISABLED"
      BY SMTT(90), <3>1, NewDeviceFacts
    <3> QED
      BY <1>2, <3>2 DEF SetupDevices, GetDeviceEnabled
  <2>2. \A p \in Ports \ {NC} : ~ relay[p]
    BY <1>2 DEF SetupDevices, RelayInv
  <2> QED
    BY SMTT(90), <1>2, <2>1, <2>2 DEF SetupDevices, Goto, eeprom
<1>3. CASE RecoverNext \/ RecoverJournal \/ FinishSetup
  BY SMTT(90), <1>3 DEF RecoverNext, RecoverJournal, FinishSetup, Goto, eeprom, ram
<1>4. CASE RecoverPort
  <2>1. at \in Ports /\ pc = "recoverPort" /\ relay' = relay
    BY SMTT(90), <1>4 DEF RecoverPort, TypeOK
  <2>2. CASE PowerFault
    <3>1. ChangeState(devices[at], "DISABLED").state = "DISABLED"
      BY <1>0, <2>1, ChangeStateFacts DEF States
    <3>2. Disable(at, "recover")
      BY ZenonT(90), <1>4, <2>2 DEF RecoverPort
    <3>3. /\ \A q \in Ports : devices'[q].state = devices[q].state
          /\ \A q \in Ports : enabled'[q] = (enabled[q] /\ (q = at => at = NC))
      BY ZenonT(90), <1>0, <2>1, <3>1, <3>2 DEF Disable
    <3>4. \/ /\ devices[at].state # "DISABLED" /\ pc' = "turnOff"
             /\ target' = at /\ disabling' = TRUE
          \/ devices[at].state = "DISABLED" /\ pc' = "recover"
      BY SMTT(60), <3>2 DEF Disable, BeginKill, Goto
    <3> QED
      BY ZenonT(90), <2>1, <3>3, <3>4
  <2>3. CASE ~ PowerFault
    BY <1>4, <2>1, <2>3 DEF RecoverPort, BeginKill, Goto
  <2> QED
    BY ZenonT(90), <2>2, <2>3
<1>5. CASE TurnOn \/ RelayOn \/ TurnOff
  BY <1>0, <1>5 DEF TurnOn, RelayOn, TurnOff, Goto, eeprom, ram
<1>6. CASE RelayOff
  BY <1>0, <1>6 DEF RelayOff, Goto, eeprom, ram
<1>7. CASE TurnedOn
  <2>1. ChangeState(devices[target], "STARTED").state = "STARTED"
    BY <1>0, ChangeStateFacts DEF States
  <2>2. /\ devices'[target].state = "STARTED"
        /\ \A p \in Ports \ {target} : devices'[p] = devices[p]
    BY SMTT(90), <1>0, <1>7, <2>1 DEF TurnedOn
  <2> QED
    BY <1>0, <1>7, <2>2 DEF TurnedOn, Return, Goto
<1>8. CASE TurnedOff
  <2> DEFINE new == IF disabling /\ target # NC THEN "DISABLED" ELSE "STOPPED"
  <2>1. new \in States
    BY DEF States
  <2>2. devices' = [devices EXCEPT ![target] = ChangeState(devices[target], new)]
    BY <1>0, <1>8 DEF TurnedOff
  <2>3. ChangeState(devices[target], new).state = new
    BY <1>0, <2>1, ChangeStateFacts
  <2>4. /\ devices'[target].state = new
        /\ \A p \in Ports \ {target} : devices'[p] = devices[p]
    BY SMTT(90), <1>0, <2>2, <2>3
  <2>5. ~ relay[target] /\ pc = "turnedOff" /\ UNCHANGED <<relay, enabled>> /\ pc' = caller
    BY SMTT(90), <1>8 DEF TurnedOff, Return, Goto, RelayInv
  <2> QED
    BY SMTT(90), <1>0, <2>4, <2>5
<1>9. CASE LoopStep
  BY SMTT(90), <1>9, LoopDisable
<1>10. CASE TimeUnitEnds
  <2>1. \A p \in Ports : devices'[p].state = devices[p].state
    BY SMTT(90), <1>10, PassTimeSame DEF TimeUnitEnds
  <2> QED
    BY SMTT(90), <1>0, <1>10, <2>1 DEF TimeUnitEnds, eeprom, control
<1>11. CASE UNCHANGED vars
  BY SMTT(90), <1>11 DEF vars, eeprom, ram, control
<1>12. ASSUME NEW cause \in {"power", "brownout", "watchdog"}, Reset(cause) PROVE DisableInv'
  BY <1>12, ResetControl
<1> HIDE DEF DisableInv
<1> QED
  BY <1>1, <1>2, <1>3, <1>4, <1>5, <1>6, <1>7, <1>8, <1>9, <1>10, <1>11, <1>12
     DEF Step, Boot, Recover, Switch

\* The conjunction is the inductive invariant.
LEMMA Inductive == Spec => [](TypeOK /\ RelayInv /\ DisableInv)
BY TypeInit, TypeStep, RelayInit, RelayStep, DisableInit, DisableStep, NextCases, PTL DEF Spec

\* Whatever is disabled is without power and on record as disabled, and the
\* node controller never is.
THEOREM DisabledCorrect == Spec => []DisabledUnpowered
<1>1. DisableInv => DisabledUnpowered
  BY DEF DisableInv
<1> QED
  BY <1>1, Inductive, PTL

\* No step switches on a port that is on record as disabled.
THEOREM NeverPowersDisabledCorrect == Spec => NeverPowersDisabled
<1> DEFINE Powers == \A p \in Ports \ {NC} : ~ relay[p] /\ relay'[p] => enabled[p]
<1>1. TypeOK /\ RelayInv /\ DisableInv /\ Step => [Powers]_vars
  <2> SUFFICES ASSUME TypeOK, DisableInv, Step, NEW p \in Ports \ {NC},
                      ~ relay[p], relay'[p]
               PROVE  enabled[p]
    OBVIOUS
  <2>1. CASE RelayOn
    BY <2>1 DEF RelayOn, TypeOK, DisableInv, Booting, TurningOn, TurningOff
  <2>2. CASE RelayOff
    BY SMTT(60), <2>2 DEF RelayOff, TypeOK
  <2>3. CASE Boot
    BY <2>3 DEF Boot, BootloaderStart, BootloaderExit, InitRecord, SetupDevices, TypeOK
  <2>4. CASE TurnOn \/ TurnedOn \/ TurnOff \/ TurnedOff \/ Recover \/ UNCHANGED vars
    BY ZenonT(90), <2>4 DEF TurnOn, TurnedOn, TurnOff, TurnedOff, Recover, RecoverNext, RecoverJournal,
       RecoverPort, FinishSetup, vars
  <2>5. CASE LoopStep
    BY <2>5, LoopControl
  <2>6. ASSUME NEW cause \in {"power", "brownout", "watchdog"}, Reset(cause) PROVE FALSE
    BY <2>6, ResetControl
  <2> QED
    BY <2>1, <2>2, <2>3, <2>4, <2>5, <2>6 DEF Step, Switch, TimeUnitEnds
<1> QED
  BY <1>1, Inductive, NextCases, PTL DEF Spec, NeverPowersDisabled
-----------------------------------------------------------------------------
(* Pending resets *)

\* no start is on its way once a reset is pending
QuietInv == pc \in {"bootloader", "turnOn", "relayOn"} => ~ reset.wanted

\* Time does not take a reset back, nor does it ask for one.
LEMMA PassTimeReset ==
    ASSUME TypeOK, PassTime
    PROVE  reset'.wanted = reset.wanted
<1> DEFINE t == Tick(reset.timer)
<1>1. reset' = reset \/ reset' = [reset EXCEPT !.timer = t]
  BY ZenonT(90) DEF PassTime
<1> HIDE DEF t
<1> QED
  BY <1>1 DEF TypeOK

\* The main loop starts nothing when a reset is pending.
LEMMA LoopQuiet ==
    ASSUME TypeOK, LoopStep
    PROVE  QuietInv'
<1> USE DEF QuietInv
<1>1. CASE StartNext
  <2>1. CASE pc' = "turnOn"
    BY <1>1, <2>1 DEF StartNext, StartRequested, StartFirst, StartNothing, Goto
  <2>2. CASE pc' # "turnOn"
    BY <1>1, <2>2, LoopControl DEF LoopStep, Looping
  <2> QED
    BY <2>1, <2>2
<1>2. ASSUME NEW beat \in BOOLEAN, Update(beat) PROVE QuietInv'
  BY <1>2 DEF Update, UpdateHeartbeatLost, UpdateUnmanagedSwitch, UpdateStopDue,
     UpdateNothingDue, NextUpdate, BeginKill, Goto
<1>3. CASE Command
  <2>1. pc' \in {"commands", "turnOff"}
    BY ZenonT(90), <1>3 DEF Command, CommandPing, CommandStart, CommandStop, CommandBootMedia,
       CommandEnable, CommandDisable, Disable, BeginKill, CommandWatch, CommandReset,
       CommandBLFlag, CommandResetEEPROM, control, Goto
  <2> QED
    BY <2>1
<1>4. CASE \E tick \in BOOLEAN : EndPass(tick)
  BY <1>4 DEF EndPass, Goto
<1> QED
  BY <1>1, <1>2, <1>3, <1>4 DEF LoopStep

\* Every step keeps QuietInv.
LEMMA QuietStep == TypeOK /\ QuietInv /\ Step => QuietInv'
<1> SUFFICES ASSUME TypeOK, QuietInv, Step PROVE QuietInv'
  OBVIOUS
<1> USE DEF QuietInv
<1>1. CASE Boot
  BY <1>1 DEF Boot, BootloaderStart, BootloaderExit, InitRecord, SetupDevices, Goto, control
<1>2. CASE Recover
  BY SMTT(60), <1>2 DEF Recover, RecoverNext, RecoverJournal, RecoverPort, FinishSetup, Disable,
     BeginKill, Goto
<1>3. CASE Switch
  <2>1. caller \in {"recover", "update", "commands"}
    BY DEF TypeOK
  <2> QED
    BY <1>3, <2>1 DEF Switch, TurnOn, RelayOn, TurnedOn, TurnOff, RelayOff, TurnedOff,
       Return, Goto, ram
<1>4. CASE LoopStep
  BY <1>4, LoopQuiet
<1>5. CASE TimeUnitEnds
  BY <1>5, PassTimeReset DEF TimeUnitEnds, control
<1>6. ASSUME NEW cause \in {"power", "brownout", "watchdog"}, Reset(cause) PROVE QuietInv'
  BY <1>6 DEF Reset
<1>7. CASE UNCHANGED vars
  BY <1>7 DEF vars, control, ram
<1> QED
  BY <1>1, <1>2, <1>3, <1>4, <1>5, <1>6, <1>7 DEF Step

\* Once a reset is wanted no relay is switched on before it, whatever starts
\* were asked for: startNextDevice is the only way to a start(), and a command
\* cannot come between its test of shouldResetSystem and the relay.
THEOREM NoStartOnceResettingCorrect == Spec => NoStartOnceResetting
<1> DEFINE Starts == \A p \in Ports : ~ relay[p] /\ relay'[p] => ~ reset.wanted
<1>1. TypeOK /\ QuietInv /\ Step => [Starts]_vars
  <2> SUFFICES ASSUME TypeOK, QuietInv, Step, NEW p \in Ports,
                      ~ relay[p], relay'[p]
               PROVE  ~ reset.wanted
    OBVIOUS
  <2>1. CASE RelayOn \/ BootloaderStart
    BY <2>1 DEF RelayOn, BootloaderStart, QuietInv
  <2>2. CASE RelayOff
    BY <2>2 DEF RelayOff, TypeOK
  <2>3. CASE BootloaderExit \/ InitRecord \/ SetupDevices \/ Recover
    BY ZenonT(90), <2>3 DEF BootloaderExit, InitRecord, SetupDevices, Recover, RecoverNext,
       RecoverJournal, RecoverPort, FinishSetup
  <2>4. CASE TurnOn \/ TurnedOn \/ TurnOff \/ TurnedOff \/ TimeUnitEnds \/ UNCHANGED vars
    BY ZenonT(90), <2>4 DEF TurnOn, TurnedOn, TurnOff, TurnedOff, TimeUnitEnds, vars
  <2>5. CASE LoopStep
    BY <2>5, LoopControl
  <2>6. ASSUME NEW cause \in {"power", "brownout", "watchdog"}, Reset(cause) PROVE FALSE
    <3>1. PICK latchHolds \in BOOLEAN : relay' = RelaysAfter(latchHolds)
      BY ZenonT(90), <2>6 DEF Reset
    <3> QED
      BY ZenonT(90), <3>1 DEF RelaysAfter
  <2> QED
    BY <2>1, <2>2, <2>3, <2>4, <2>5, <2>6 DEF Step, Boot, Switch
<1>2. Init => QuietInv
  BY DEF Init, QuietInv
<1> QED
  BY <1>1, <1>2, QuietStep, TypeCorrect, NextCases, PTL DEF Spec, NoStartOnceResetting
-----------------------------------------------------------------------------
(* The recovery at start-up.  RecoveryInv follows its loop. *)

\* the recovery is done with a suspect
Secured(p) ==
    devices[p].state = "DISABLED" /\ ~ enabled[p] /\ ~ relay[p] /\ journal[p] = "OFF"

Recovering == pc \in {"recover", "recoverPort"} \/ (pc \in TurningOff /\ caller = "recover")

\* the suspects ahead still have their entries, those behind are secured
RecoveryInv ==
    /\ Recovering /\ suspects # {} => PowerFault
    /\ pc = "recover" =>
         \A p \in suspects : /\ p >= at => Incomplete(p)
                             /\ p < at /\ p # NC => Secured(p)
    /\ pc = "recoverPort" => /\ journal[at] = "OFF"
                             /\ \A p \in suspects : /\ p > at => Incomplete(p)
                                                    /\ p < at /\ p # NC => Secured(p)
    /\ pc \in TurningOff /\ caller = "recover" =>
         /\ at = target + 1
         /\ suspects # {} => disabling
         /\ \A p \in suspects : /\ p >= at => Incomplete(p)
                                /\ p < target /\ p # NC => Secured(p)

\* RecoveryInv holds at first.
LEMMA RecoveryInit == Init => RecoveryInv
BY DEF Init, RecoveryInv, Recovering, TurningOff

\* a step does not take a suspect back
Kept(p) == (Incomplete(p) => Incomplete(p)') /\ (Secured(p) => Secured(p)')

LEMMA SuspectTypes ==
    ASSUME TypeOK
    PROVE  /\ suspects \subseteq Ports /\ target \in Ports /\ Ports \subseteq Int
           /\ \A p \in Ports : p >= 0 /\ p < PortCount
BY PortAssumption DEF TypeOK, Ports

\* Where the recovery does not run there is nothing to show.
LEMMA RecoveryElsewhere == ASSUME ~ Recovering' PROVE RecoveryInv'
BY DEF RecoveryInv, Recovering

LEMMA RecoveryStutter ==
    ASSUME RecoveryInv, UNCHANGED <<pc, at, target, caller, disabling, suspects, bootflags>>,
           journal' = journal, \A p \in suspects : Kept(p)
    PROVE  RecoveryInv'
BY DEF RecoveryInv, Recovering, PowerFault, Kept

\* kill() is at work on the port that the loop has just passed.
LEMMA RecoveryKills ==
    ASSUME TypeOK, RecoveryInv, pc \in TurningOff, pc' \in TurningOff,
           UNCHANGED <<at, target, caller, disabling, suspects, bootflags>>,
           \A p \in Ports \ {target} : Kept(p)
    PROVE  RecoveryInv'
<1>1. ASSUME NEW p \in suspects, at = target + 1,
             p >= at => Incomplete(p), p < target /\ p # NC => Secured(p)
      PROVE  (p >= at => Incomplete(p)') /\ (p < target /\ p # NC => Secured(p)')
  <2>1. p \in Ports /\ p \in Int /\ target \in Int
    BY <1>1, SuspectTypes
  <2>2. p >= at \/ p < target => p # target
    BY <1>1, <2>1
  <2> QED
    BY <1>1, <2>1, <2>2 DEF Kept
<1>2. pc' \notin {"recover", "recoverPort"} /\ PowerFault' = PowerFault
  BY DEF TurningOff, PowerFault
<1> QED
  BY <1>1, <1>2 DEF RecoveryInv, Recovering

\* The loop passes port q, and secures it if it is a suspect.
LEMMA SuspectsAdvance ==
    ASSUME TypeOK, NEW q \in Ports, suspects' = suspects,
           \A p \in Ports \ {q} : Kept(p),
           \A p \in suspects : (p > q => Incomplete(p)) /\ (p < q /\ p # NC => Secured(p))
    PROVE  /\ \A p \in suspects' : (p >= q + 1 => Incomplete(p)') /\ (p < q /\ p # NC => Secured(p)')
           /\ (q \in suspects /\ q # NC => Secured(q)') =>
                \A p \in suspects' : p < q + 1 /\ p # NC => Secured(p)'
<1>1. ASSUME NEW p \in suspects
      PROVE  (p >= q + 1 => Incomplete(p)') /\ (p < q /\ p # NC => Secured(p)')
  <2>1. p \in Ports /\ p \in Int /\ q \in Int
    BY SuspectTypes
  <2>2. (p >= q + 1 => p > q /\ p # q) /\ (p < q => p # q)
    BY <2>1
  <2> QED
    BY <2>1, <2>2 DEF Kept
<1>2. ASSUME NEW p \in suspects PROVE p < q + 1 => p < q \/ p = q
  <2>1. p \in Int /\ q \in Int
    BY SuspectTypes
  <2> QED
    BY <2>1
<1> QED
  BY <1>1, <1>2

LEMMA RecoverNextRecovery == ASSUME TypeOK, RecoveryInv, RecoverNext PROVE RecoveryInv'
<1>1. /\ pc = "recover" /\ pc' = "recover" /\ at \in Ports /\ at' = at + 1 /\ ~ Incomplete(at)
      /\ UNCHANGED <<suspects, bootflags, journal, enabled, relay, devices>>
  BY PortAssumption DEF RecoverNext, eeprom, ram, TypeOK, Ports
<1>2. \A p \in Ports : Kept(p)
  BY <1>1 DEF Kept, Incomplete, Secured
<1>3. \A p \in suspects : (p >= at => Incomplete(p)) /\ (p < at /\ p # NC => Secured(p))
  BY <1>1 DEF RecoveryInv
<1>4. \A p \in suspects : (p > at => Incomplete(p)) /\ (p < at /\ p # NC => Secured(p))
  BY <1>1, <1>3, SuspectTypes
<1>5. at \notin suspects
  BY <1>1, <1>3, SuspectTypes
<1>6. \A p \in suspects' : (p >= at' => Incomplete(p)') /\ (p < at' /\ p # NC => Secured(p)')
  BY <1>1, <1>2, <1>4, <1>5, SuspectsAdvance
<1>7. Recovering /\ PowerFault' = PowerFault
  BY <1>1 DEF Recovering, PowerFault
<1> QED
  BY <1>1, <1>6, <1>7 DEF RecoveryInv, TurningOff

LEMMA RecoverJournalRecovery == ASSUME TypeOK, RecoveryInv, RecoverJournal PROVE RecoveryInv'
<1>1. /\ pc = "recover" /\ pc' = "recoverPort" /\ at \in Ports /\ journal'[at] = "OFF"
      /\ \A p \in Ports \ {at} : journal'[p] = journal[p]
      /\ UNCHANGED <<at, suspects, bootflags, enabled, relay, devices>>
  BY PortAssumption DEF RecoverJournal, ram, Goto, TypeOK, Ports
<1>2. \A p \in Ports \ {at} : Kept(p)
  BY <1>1 DEF Kept, Incomplete, Secured
<1>3. \A p \in suspects : (p >= at => Incomplete(p)) /\ (p < at /\ p # NC => Secured(p))
  BY <1>1 DEF RecoveryInv
<1>4. \A p \in suspects : (p > at => Incomplete(p)) /\ (p < at /\ p # NC => Secured(p))
  BY <1>1, <1>3, SuspectTypes
<1>5. \A p \in suspects' : (p >= at + 1 => Incomplete(p)') /\ (p < at /\ p # NC => Secured(p)')
  BY <1>1, <1>2, <1>4, SuspectsAdvance
<1>6. \A p \in suspects' : (p > at' => Incomplete(p)') /\ (p < at' /\ p # NC => Secured(p)')
  BY <1>1, <1>5, SuspectTypes
<1>7. Recovering /\ PowerFault' = PowerFault
  BY <1>1 DEF Recovering, PowerFault
<1> QED
  BY <1>1, <1>6, <1>7 DEF RecoveryInv, TurningOff

LEMMA RecoverPortRecovery ==
    ASSUME TypeOK, DisableInv, RecoveryInv, RecoverPort
    PROVE  RecoveryInv'
<1>1. at \in Ports /\ pc = "recoverPort" /\ at' = at + 1
      /\ UNCHANGED <<journal, relay, bootflags, suspects>>
  BY DEF RecoverPort, TypeOK
<1>2. /\ journal[at] = "OFF" /\ (suspects # {} => PowerFault)
      /\ \A p \in suspects : (p > at => Incomplete(p)) /\ (p < at /\ p # NC => Secured(p))
  BY <1>1 DEF RecoveryInv, Recovering
<1>3. PowerFault' = PowerFault
  BY <1>1 DEF PowerFault
<1>4. CASE PowerFault
  <2>1. Disable(at, "recover")
    BY <1>4, Zenon DEF RecoverPort
  <2>2. enabled' = IF at = NC THEN enabled ELSE [enabled EXCEPT ![at] = FALSE]
    BY <2>1, Zenon DEF Disable
  <2>3. \/ devices' = devices
        \/ /\ devices[at].state = "DISABLED"
           /\ devices' = [devices EXCEPT ![at] = ChangeState(devices[at], "DISABLED")]
    BY <2>1, Zenon DEF Disable
  <2>4. \/ /\ pc' = "turnOff" /\ target' = at /\ disabling' = TRUE /\ caller' = "recover"
        \/ devices[at].state = "DISABLED" /\ pc' = "recover"
    BY <2>1, Zenon DEF Disable, BeginKill, Goto
  <2>5. ChangeState(devices[at], "DISABLED").state = "DISABLED"
    BY <1>1, ChangeStateFacts DEF States, TypeOK
  <2>6. \A q \in Ports : devices'[q].state = devices[q].state
    BY <1>1, <2>3, <2>5 DEF TypeOK
  <2>7. (\A q \in Ports \ {at} : enabled'[q] = enabled[q]) /\ (at # NC => ~ enabled'[at])
    BY <1>1, <2>2 DEF TypeOK
  <2>8. \A p \in Ports \ {at} : Kept(p)
    BY <1>1, <2>6, <2>7 DEF Kept, Incomplete, Secured
  <2>q. PICK q \in Ports : q = at
    BY <1>1
  <2>9. devices[at].state = "DISABLED" /\ q # NC => Secured(q)'
    <3>1. devices[at].state = "DISABLED" => ~ relay[at]
      BY <1>1, Zenon DEF DisableInv, DisabledUnpowered, Booting
    <3> QED
      BY <1>1, <1>2, <2>q, <2>6, <2>7, <3>1 DEF Secured
  <2>10. /\ \A p \in suspects' : /\ p >= at + 1 => Incomplete(p)'
                                 /\ p < at /\ p # NC => Secured(p)'
         /\ (q \in suspects /\ q # NC => Secured(q)') =>
              \A p \in suspects' : p < at + 1 /\ p # NC => Secured(p)'
    BY <1>1, <1>2, <2>q, <2>8, SuspectsAdvance
  <2>11. CASE pc' = "turnOff"
    BY <1>1, <1>3, <1>4, <2>4, <2>10, <2>11 DEF RecoveryInv, TurningOff
  <2>12. CASE pc' = "recover"
    BY <1>1, <1>3, <1>4, <2>4, <2>9, <2>10, <2>12 DEF RecoveryInv, TurningOff
  <2> QED
    BY <2>4, <2>11, <2>12, Zenon
<1>5. CASE ~ PowerFault
  <2>1. suspects' = {}
    BY <1>1, <1>2, <1>5
  <2>2. \/ pc' = "turnOff" /\ target' = at
        \/ pc' = "recover"
    BY <1>5, Zenon DEF RecoverPort, BeginKill, Goto
  <2> QED
    BY <1>1, <2>1, <2>2 DEF RecoveryInv, TurningOff
<1> QED
  BY <1>4, <1>5, Zenon

LEMMA TurnedOffRecovery ==
    ASSUME TypeOK, RelayInv, DisableInv, RecoveryInv, TurnedOff
    PROVE  RecoveryInv'
<1>1. /\ pc = "turnedOff" /\ pc' = caller
      /\ UNCHANGED <<relay, enabled, at, suspects, bootflags>>
      /\ caller \in {"recover", "update", "commands"}
  BY DEF TurnedOff, Return, Goto, TypeOK
<1>2. CASE caller = "recover"
  <2> DEFINE new == IF disabling /\ target # NC THEN "DISABLED" ELSE "STOPPED"
  <2>1. target \in Ports /\ target \in Int
    BY SuspectTypes
  <2>q. PICK q \in Ports : q = target
    BY <2>1
  <2>2. devices' = [devices EXCEPT ![target] = ChangeState(devices[target], new)]
    BY Zenon DEF TurnedOff
  <2>3. ChangeState(devices[target], new).state = new
    BY <2>1, ChangeStateFacts DEF States, TypeOK
  <2>4. /\ devices'[target].state = new
        /\ \A p \in Ports \ {target} : devices'[p] = devices[p]
    BY <2>1, <2>2, <2>3 DEF TypeOK
  <2>5. /\ journal'[target] = "OFF"
        /\ \A p \in Ports \ {target} : journal'[p] = journal[p]
    BY <2>1 DEF TurnedOff, TypeOK
  <2>6. ~ relay[target] /\ (disabling /\ target # NC => ~ enabled[target])
    BY <1>1 DEF RelayInv, DisableInv, TurningOff
  <2>7. /\ at = target + 1 /\ (suspects # {} => disabling /\ PowerFault)
        /\ \A p \in suspects : (p >= at => Incomplete(p)) /\ (p < target /\ p # NC => Secured(p))
    BY <1>1, <1>2 DEF RecoveryInv, Recovering, TurningOff
  <2>8. \A p \in suspects : (p > target => Incomplete(p)) /\ (p < target /\ p # NC => Secured(p))
    <3>1. ASSUME NEW p \in suspects PROVE p > target => p >= at
      <4>1. p \in Int /\ at = target + 1
        BY <2>7, SuspectTypes
      <4> QED
        BY <2>1, <4>1
    <3> QED
      BY <2>7, <3>1, Zenon
  <2>9. \A p \in Ports \ {target} : Kept(p)
    BY <1>1, <2>4, <2>5 DEF Kept, Incomplete, Secured
  <2>10. q \in suspects /\ q # NC => Secured(q)'
    <3>1. target \in suspects /\ target # NC => new = "DISABLED" /\ ~ enabled[target]
      BY <2>6, <2>7
    <3> HIDE DEF new
    <3> QED
      BY <1>1, <2>q, <2>4, <2>5, <2>6, <3>1 DEF Secured
  <2>11. \A p \in suspects' : (p >= at' => Incomplete(p)') /\ (p < at' /\ p # NC => Secured(p)')
    BY <1>1, <2>q, <2>7, <2>8, <2>9, <2>10, SuspectsAdvance
  <2>12. suspects' # {} => PowerFault'
    BY <1>1, <2>7 DEF PowerFault
  <2> QED
    BY <1>1, <1>2, <2>11, <2>12 DEF RecoveryInv, TurningOff
<1>3. CASE caller # "recover"
  BY <1>1, <1>3, RecoveryElsewhere DEF Recovering, TurningOff
<1> QED
  BY <1>2, <1>3, Zenon

\* Every step keeps RecoveryInv.
LEMMA RecoveryStep ==
    TypeOK /\ RelayInv /\ DisableInv /\ RecoveryInv /\ Step => RecoveryInv'
<1> SUFFICES ASSUME TypeOK, RelayInv, DisableInv, RecoveryInv, Step PROVE RecoveryInv'
  BY Zenon
<1>1. CASE BootloaderStart \/ BootloaderExit \/ InitRecord \/ FinishSetup \/ TurnOn \/ RelayOn
  <2>1. pc' \in {"bootloader", "bootloaderWait", "setup", "start", "relayOn", "turnedOn"}
    BY <1>1 DEF BootloaderStart, BootloaderExit, InitRecord, FinishSetup, TurnOn, RelayOn, Goto,
       control
  <2> QED
    BY <2>1, RecoveryElsewhere DEF Recovering, TurningOff
<1>2. CASE SetupDevices
  <2>1. /\ pc' = "recover" /\ at' = 0 /\ UNCHANGED <<bootflags, journal>>
        /\ suspects' = IF PowerFault THEN {p \in Ports : Incomplete(p)} ELSE {}
    BY <1>2 DEF SetupDevices, Goto, eeprom
  <2>2. \A p \in suspects' : p \in Ports /\ Incomplete(p)' /\ PowerFault'
    BY <2>1 DEF Incomplete, PowerFault
  <2>3. \A p \in suspects' : ~ (p < at')
    BY <2>1, <2>2, SuspectTypes
  <2> QED
    BY <2>1, <2>2, <2>3 DEF RecoveryInv, TurningOff
<1>3. CASE Recover /\ ~ FinishSetup
  BY <1>3, RecoverNextRecovery, RecoverJournalRecovery, RecoverPortRecovery DEF Recover
<1>4. CASE TurnOff \/ RelayOff
  <2>1. /\ pc \in TurningOff /\ pc' \in TurningOff
        /\ UNCHANGED <<at, target, caller, disabling, suspects, bootflags, enabled, devices>>
    BY <1>4 DEF TurnOff, RelayOff, Goto, TurningOff, ram, eeprom
  <2>2. \A p \in Ports \ {target} : journal'[p] = journal[p] /\ relay'[p] = relay[p]
    BY <1>4 DEF TurnOff, RelayOff, TypeOK, eeprom
  <2>3. \A p \in Ports \ {target} : Kept(p)
    BY <2>1, <2>2 DEF Kept, Incomplete, Secured
  <2> QED
    BY <2>1, <2>3, RecoveryKills
<1>5. CASE TurnedOn
  <2>1. pc' \in {"update", "commands"}
    BY <1>5 DEF TurnedOn, Return, Goto, RelayInv, TurningOn, TypeOK
  <2> QED
    BY <2>1, RecoveryElsewhere DEF Recovering, TurningOff
<1>6. CASE TurnedOff
  BY <1>6, TurnedOffRecovery
<1>7. CASE LoopStep
  BY <1>7, LoopControl, RecoveryElsewhere DEF Looping, Recovering, TurningOff
<1>8. CASE TimeUnitEnds
  <2>1. \A p \in Ports : devices'[p].state = devices[p].state
    BY <1>8, PassTimeSame DEF TimeUnitEnds
  <2>2. UNCHANGED <<pc, at, target, caller, disabling, suspects, bootflags, journal, enabled, relay>>
    BY <1>8 DEF TimeUnitEnds, eeprom, control
  <2>3. \A p \in suspects : Kept(p)
    BY <2>1, <2>2, SuspectTypes DEF Kept, Incomplete, Secured
  <2> QED
    BY <2>2, <2>3, RecoveryStutter
<1>9. CASE UNCHANGED vars
  <2>1. UNCHANGED <<pc, at, target, caller, disabling, suspects, bootflags, journal, enabled,
                    relay, devices>>
    BY <1>9 DEF vars, eeprom, ram, control
  <2>2. \A p \in suspects : Kept(p)
    BY <2>1 DEF Kept, Incomplete, Secured
  <2> QED
    BY <2>1, <2>2, RecoveryStutter
<1>10. ASSUME NEW cause \in {"power", "brownout", "watchdog"}, Reset(cause) PROVE RecoveryInv'
  <2>1. pc' = "bootloader"
    BY <1>10, Zenon DEF Reset, Goto
  <2> QED
    BY <2>1, RecoveryElsewhere DEF Recovering, TurningOff
<1> QED
  BY <1>1, <1>2, <1>3, <1>4, <1>5, <1>6, <1>7, <1>8, <1>9, <1>10 DEF Step, Boot, Recover, Switch

\* The recovery loop ends with every device off and disabled whose journal entry
\* it found open after a power fault.
THEOREM RecoveryCorrect == Spec => []SuspectsDisabled
<1>1. TypeOK /\ RecoveryInv => SuspectsDisabled
  BY PortAssumption DEF RecoveryInv, SuspectsDisabled, Secured, TypeOK, Ports
<1> QED
  BY <1>1, Inductive, RecoveryInit, RecoveryStep, NextCases, PTL DEF Spec
=============================================================================
