------------------------- MODULE PowerManager4Proofs -------------------------
(***************************************************************************)
(* Proofs about PowerManager4, for any of its ports, any timeouts, any set *)
(* of commands and any causes of reset: type correctness, and what becomes *)
(* of the power of a device that is started and stopped while every latch  *)
(* outlives a reset.                                                       *)
(*                                                                         *)
(* Inv is what makes these inductive: what start() and kill() know of      *)
(* their device when they reach the relay, and what the record says of the *)
(* devices that are disabled.                                              *)
(***************************************************************************)
EXTENDS PowerManager4, TLAPS

Points == {"setup", "relayOn", "relayOff", "start", "update", "commands", "resetSystem"}

\* start() was not called on a device that is STOPPING, nor kill() on one that
\* is STARTED; setup() finds the devices as a reset leaves them
AtRelay ==
    /\ pc = "setup" => \A p \in Ports : devices[p].state = "STOPPED"
    /\ pc = "relayOn" => devices[target].state # "STOPPING"
    /\ pc = "relayOff" => devices[target].state \in {"STOPPING", "STOPPED"}

\* a record that was initialized enables the first three ports, and a device
\* is disabled because the record says so
OnRecord ==
    /\ \A p \in Ports : magic /\ p <= 2 => enabled[p]
    /\ \A p \in Ports : devices[p].state = "DISABLED" => ~ GetDeviceEnabled(p)

Inv == TypeOK /\ AtRelay /\ OnRecord /\ SilentStartedPowered
-----------------------------------------------------------------------------
(* Devices *)

\* The types of the devices, and the types of everything else.
DeviceTypes ==
    /\ devices \in [Ports -> Device]
    /\ \A p \in Ports : pc # "setup" /\ p <= 2 => devices[p].state # "DISABLED"

RecordTypes ==
    /\ magic \in BOOLEAN
    /\ enabled \in [Ports -> BOOLEAN]
    /\ attempts \in [Ports -> 0 .. WordSize - 1]
    /\ failures \in [Ports -> 0 .. WordSize - 1]
    /\ relay \in [Ports -> BOOLEAN]
    /\ selector \in [{0, 1} -> Media]

ControlTypes ==
    /\ startTimer \in Time
    /\ deviceWantsStart \in Ports \union {NoPort}
    /\ shouldResetSystem \in BOOLEAN
    /\ pc \in Points
    /\ todo \subseteq Ports
    /\ target \in Ports
    /\ caller \in {"start", "update", "commands"}

\* TypeOK is the three together.
LEMMA TypeParts == TypeOK <=> DeviceTypes /\ RecordTypes /\ ControlTypes
BY Zenon DEF TypeOK, DeviceTypes, RecordTypes, ControlTypes, Points

\* Inv, put together after a step.
LEMMA InvParts ==
    ASSUME DeviceTypes', RecordTypes', ControlTypes', AtRelay', OnRecord', SilentStartedPowered'
    PROVE  Inv'
BY Zenon DEF Inv, TypeOK, DeviceTypes, RecordTypes, ControlTypes, Points

\* The node controller has a port, a timer that was just reset a time.
LEMMA SomeValues == NC \in Ports /\ NoPort \notin Ports /\ 0 \in Time /\ StopTimeout \in Time
                    /\ StopTimeouts \subseteq Time
BY PortAssumption, TimeAssumption DEF NC, NoPort, Time

\* changeState yields a device in the new state, with its other fields kept.
LEMMA ChangeStateFacts ==
    ASSUME NEW d \in Device, NEW s \in States
    PROVE  /\ ChangeState(d, s) \in Device
           /\ ChangeState(d, s).state = s
BY ZenonT(60), SomeValues DEF ChangeState, Device

\* Device::init yields a device, disabled or stopped.
LEMMA NewDeviceFacts ==
    ASSUME NEW e \in BOOLEAN
    PROVE  /\ NewDevice(e) \in Device
           /\ NewDevice(e).state = IF e THEN "STOPPED" ELSE "DISABLED"
BY SomeValues DEF NewDevice, Device, States, Media

\* A heartbeat takes a stopped device to be running, and changes no other state.
LEMMA OnHeartbeatFacts ==
    ASSUME NEW p \in Ports, NEW d \in Device
    PROVE  /\ OnHeartbeat(p, d) \in Device
           /\ OnHeartbeat(p, d).state = IF d.state = "STOPPED" THEN "STARTED" ELSE d.state
<1>1. CASE d.state = "STOPPED"
  BY <1>1, ChangeStateFacts DEF OnHeartbeat, States
<1>2. CASE d.state = "DISABLED" /\ p # NC
  BY <1>2, ChangeStateFacts DEF OnHeartbeat, States
<1>3. CASE d.state = "STARTED" /\ d.managed
  BY <1>3, SomeValues DEF OnHeartbeat, Device
<1>4. CASE /\ d.state # "STOPPED" /\ ~ (d.state = "DISABLED" /\ p # NC)
           /\ ~ (d.state = "STARTED" /\ d.managed)
  BY <1>4 DEF OnHeartbeat
<1> QED
  BY <1>1, <1>2, <1>3, <1>4

\* The boot media of a device are one of the two.
LEMMA NextBootMediaType ==
    ASSUME NEW p \in Ports, NEW d \in Device PROVE NextBootMedia(p, d) \in Media
BY DEF NextBootMedia, Device, Media, SD, EMMC, NoMedia, PrimaryMedia, SecondaryMedia

\* Every port has one of the two selectors.
LEMMA SelectorType ==
    ASSUME NEW p \in Ports, NEW m \in Media, selector \in [{0, 1} -> Media]
    PROVE  [selector EXCEPT ![SelectorOf(p)] = m] \in [{0, 1} -> Media]
BY DEF SelectorOf

\* A boot counter is a word again after its increment.
LEMMA WordIncrement ==
    ASSUME NEW c \in [Ports -> 0 .. WordSize - 1], NEW p \in Ports
    PROVE  [c EXCEPT ![p] = (@ + 1) % WordSize] \in [Ports -> 0 .. WordSize - 1]
<1>1. c[p] \in Nat
  BY CounterAssumption
<1>2. (c[p] + 1) % WordSize \in 0 .. WordSize - 1
  BY <1>1, CounterAssumption
<1> QED
  BY <1>2

\* Of the ports that are left in a pass there is a first one.
LEMMA FirstPort ==
    ASSUME todo \subseteq Ports, todo # {}
    PROVE  (CHOOSE q \in todo : \A r \in todo : q <= r) \in todo
<1>1. todo \subseteq {0, 1, 2, 3, 4}
  BY PortAssumption
<1>2. \E q \in todo : \A r \in todo : q <= r
  <2>1. CASE 0 \in todo
    BY <1>1, <2>1
  <2>2. CASE 0 \notin todo /\ 1 \in todo
    BY <1>1, <2>2
  <2>3. CASE 0 \notin todo /\ 1 \notin todo /\ 2 \in todo
    BY <1>1, <2>3
  <2>4. CASE 0 \notin todo /\ 1 \notin todo /\ 2 \notin todo /\ 3 \in todo
    BY <1>1, <2>4
  <2>5. CASE todo = {4}
    BY <2>5
  <2> QED
    BY ZenonT(60), <1>1, <2>1, <2>2, <2>3, <2>4, <2>5
<1> QED
  BY <1>2, Zenon

\* A change of one device that neither disables it nor, unless it gave a sign of
\* life, makes it run, keeps what Inv says of the devices.
LEMMA OneDevice ==
    ASSUME Inv, NEW p \in Ports, NEW e \in Device,
           devices' = [devices EXCEPT ![p] = e],
           UNCHANGED <<magic, enabled, relay>>, pc # "setup", pc' # "setup",
           e.state = "DISABLED" => devices[p].state = "DISABLED",
           e.state = "STARTED" => devices[p].state = "STARTED" \/ p \notin Silent
    PROVE  DeviceTypes' /\ OnRecord' /\ SilentStartedPowered'
<1>1. devices \in [Ports -> Device]
  BY TypeParts DEF Inv, DeviceTypes
<1>2. \A q \in Ports : devices'[q] = IF q = p THEN e ELSE devices[q]
  BY <1>1
<1>3. DeviceTypes'
  BY <1>1, <1>2, TypeParts DEF Inv, DeviceTypes
<1>4. OnRecord'
  BY <1>2 DEF Inv, OnRecord, GetDeviceEnabled
<1>5. SilentStartedPowered'
  BY <1>2 DEF Inv, SilentStartedPowered
<1> QED
  BY <1>3, <1>4, <1>5
-----------------------------------------------------------------------------
(* Every step keeps Inv *)

\* A fresh board.
LEMMA InitInv == Init => Inv
<1> SUFFICES ASSUME Init PROVE Inv
  OBVIOUS
<1>1. /\ devices \in [Ports -> Device]
      /\ \A p \in Ports : devices[p].state = "STOPPED"
  BY ZenonT(60), NewDeviceFacts DEF Init
<1>2. DeviceTypes /\ ControlTypes
  BY ZenonT(60), <1>1, SomeValues DEF Init, DeviceTypes, ControlTypes, Points
<1>3. RecordTypes
  <2>1. /\ magic \in BOOLEAN /\ enabled \in [Ports -> BOOLEAN]
        /\ relay \in [Ports -> BOOLEAN]
    BY Zenon DEF Init
  <2> QED
    BY <2>1, CounterAssumption DEF Init, RecordTypes, Media
<1>4. AtRelay /\ OnRecord /\ SilentStartedPowered
  BY ZenonT(60), <1>1 DEF Init, AtRelay, OnRecord, SilentStartedPowered
<1> QED
  BY <1>2, <1>3, <1>4, TypeParts DEF Inv

\* A reset makes every device STOPPED, and leaves the record.
LEMMA ResetInv ==
    ASSUME Inv, NEW cause \in {"power", "watchdog"}, Reset(cause) PROVE Inv'
<1>1. /\ devices' \in [Ports -> Device]
      /\ \A p \in Ports : devices'[p].state = "STOPPED"
  BY ZenonT(60), NewDeviceFacts DEF Reset
<1>2. DeviceTypes' /\ ControlTypes'
  BY ZenonT(60), <1>1, SomeValues DEF Reset, Goto, DeviceTypes, ControlTypes, Points
<1>3. RecordTypes'
  <2>1. RecordTypes
    BY TypeParts DEF Inv
  <2>2. relay' \in [Ports -> BOOLEAN]
    BY <2>1, ZenonT(60) DEF Reset, RecordTypes
  <2>3. selector' \in [{0, 1} -> Media]
    BY DEF Reset, Media
  <2> QED
    BY <2>1, <2>2, <2>3 DEF Reset, eeprom, RecordTypes
<1>4. AtRelay' /\ OnRecord' /\ SilentStartedPowered'
  BY ZenonT(60), <1>1 DEF Inv, Reset, Goto, eeprom, AtRelay, OnRecord, SilentStartedPowered, GetDeviceEnabled
<1> QED
  BY <1>2, <1>3, <1>4, InvParts

\* Record::init enables the first three ports.
LEMMA InitRecordInv == ASSUME Inv, InitRecord PROVE Inv'
<1>1. pc = "setup" /\ UNCHANGED <<relay, selector, ram, control>>
  BY DEF InitRecord
<1>2. \A p \in Ports : devices[p].state = "STOPPED"
  BY <1>1 DEF Inv, AtRelay
<1>3. DeviceTypes' /\ ControlTypes'
  BY <1>1, TypeParts DEF Inv, ram, control, DeviceTypes, ControlTypes
<1>4. RecordTypes'
  <2>1. RecordTypes
    BY TypeParts DEF Inv
  <2>2. magic' \in BOOLEAN
    BY Zenon DEF InitRecord
  <2>3. enabled' \in [Ports -> BOOLEAN]
    BY PortAssumption DEF InitRecord
  <2> QED
    BY <2>1, <2>2, <2>3, CounterAssumption DEF InitRecord, RecordTypes
<1>5. AtRelay' /\ OnRecord' /\ SilentStartedPowered'
  BY ZenonT(60), <1>1, <1>2 DEF Inv, InitRecord, ram, control, AtRelay, OnRecord, SilentStartedPowered
<1> QED
  BY <1>3, <1>4, <1>5, InvParts

\* setupDevices disables what is not on record as enabled, and setup() calls
\* start() on the node controller.
LEMMA SetupInv == ASSUME Inv, Setup PROVE Inv'
<1> DEFINE new == [p \in Ports |-> NewDevice(GetDeviceEnabled(p))]
           managed == failures[NC] < ManagedLimit
           nc == [new[NC] EXCEPT !.managed = managed]
<1>0. DeviceTypes /\ RecordTypes /\ ControlTypes /\ NC \in Ports
  BY TypeParts, SomeValues DEF Inv
<1>1. \A p \in Ports : GetDeviceEnabled(p) \in BOOLEAN
  BY <1>0, ZenonT(60) DEF GetDeviceEnabled, RecordTypes
<1>2. /\ new \in [Ports -> Device]
      /\ \A p \in Ports : new[p].state = IF GetDeviceEnabled(p) THEN "STOPPED" ELSE "DISABLED"
  BY <1>1, NewDeviceFacts
<1>3. nc \in Device /\ nc.state = "STOPPED"
  <2>1. new[NC] \in Device /\ new[NC].state = "STOPPED"
    BY <1>0, <1>2 DEF GetDeviceEnabled
  <2>2. managed \in BOOLEAN
    OBVIOUS
  <2> HIDE DEF new, managed
  <2> QED
    BY <2>1, <2>2 DEF Device
<1>4. devices' = [new EXCEPT ![NC] = nc]
  BY <1>0, <1>2, ZenonT(60) DEF Setup
<1>5. /\ devices' \in [Ports -> Device]
      /\ \A p \in Ports : devices'[p].state =
                             IF GetDeviceEnabled(p) THEN "STOPPED" ELSE "DISABLED"
  <2> HIDE DEF new, nc
  <2>1. GetDeviceEnabled(NC)
    BY DEF GetDeviceEnabled
  <2> QED
    BY <1>0, <1>2, <1>3, <1>4, <2>1
<1>6. pc = "setup" /\ magic /\ pc' = "relayOn" /\ UNCHANGED <<magic, enabled, relay>>
  BY DEF Setup, Goto
<1>7. DeviceTypes'
  BY <1>5, <1>6 DEF Inv, DeviceTypes, OnRecord, GetDeviceEnabled
<1>8. RecordTypes'
  <2>1. NextBootMedia(NC, nc) \in Media
    BY <1>0, <1>3, NextBootMediaType
  <2>2. selector' = [selector EXCEPT ![SelectorOf(NC)] = NextBootMedia(NC, nc)]
    BY DEF Setup
  <2>3. selector' \in [{0, 1} -> Media]
    <3> HIDE DEF nc
    <3> QED BY <1>0, <2>1, <2>2, SelectorType DEF RecordTypes
  <2>4. attempts' \in [Ports -> 0 .. WordSize - 1]
    BY <1>0, WordIncrement DEF Setup, RecordTypes
  <2> QED
    BY <1>0, <2>3, <2>4 DEF Setup, RecordTypes
<1>9. ControlTypes'
  BY <1>0 DEF Setup, Goto, ControlTypes, Points
<1>10. AtRelay' /\ OnRecord' /\ SilentStartedPowered'
  <2>1. target' = NC
    BY DEF Setup
  <2> QED
    BY <1>0, <1>5, <1>6, <2>1 DEF Inv, AtRelay, OnRecord, SilentStartedPowered, GetDeviceEnabled
<1> QED
  BY <1>7, <1>8, <1>9, <1>10, InvParts

\* The end of start(): the one step that makes a device run without a sign of
\* life, and it closes the relay.
LEMMA RelayOnInv == ASSUME Inv, RelayOn PROVE Inv'
<1> DEFINE e == ChangeState(devices[target], "STARTED")
<1>0. DeviceTypes /\ RecordTypes /\ ControlTypes
  BY TypeParts DEF Inv
<1>1. target \in Ports /\ e \in Device /\ e.state = "STARTED"
  BY <1>0, ChangeStateFacts DEF DeviceTypes, ControlTypes, States
<1>2. \A q \in Ports : /\ devices'[q] = IF q = target THEN e ELSE devices[q]
                       /\ relay'[q] = IF q = target THEN TRUE ELSE relay[q]
  BY <1>0 DEF RelayOn, DeviceTypes, RecordTypes
<1>3. /\ devices' \in [Ports -> Device] /\ relay' \in [Ports -> BOOLEAN]
      /\ pc = "relayOn" /\ pc' \in {"start", "update", "commands"}
  <2>1. devices' \in [Ports -> Device] /\ relay' \in [Ports -> BOOLEAN]
    <3> HIDE DEF e
    <3>1. devices' = [devices EXCEPT ![target] = e]
      BY DEF RelayOn, e
    <3> QED BY <1>0, <1>1, <3>1 DEF RelayOn, DeviceTypes, RecordTypes
  <2> QED
    BY <1>0, <2>1 DEF RelayOn, Goto, ControlTypes
<1> HIDE DEF e
<1>4. DeviceTypes'
  BY ZenonT(60), <1>0, <1>1, <1>2, <1>3 DEF DeviceTypes
<1>5. RecordTypes' /\ ControlTypes'
  BY <1>0, <1>3, SomeValues DEF RelayOn, eeprom, RecordTypes, ControlTypes, Points
<1>6. AtRelay' /\ OnRecord' /\ SilentStartedPowered'
  BY <1>1, <1>2, <1>3
     DEF Inv, RelayOn, eeprom, AtRelay, OnRecord, SilentStartedPowered, GetDeviceEnabled
<1> QED
  BY <1>4, <1>5, <1>6, InvParts

\* The end of kill().
LEMMA RelayOffInv == ASSUME Inv, RelayOff PROVE Inv'
<1> DEFINE e == ChangeState(devices[target], "STOPPED")
<1>0. DeviceTypes /\ RecordTypes /\ ControlTypes
  BY TypeParts DEF Inv
<1>1. target \in Ports /\ e \in Device /\ e.state = "STOPPED"
  BY <1>0, ChangeStateFacts DEF DeviceTypes, ControlTypes, States
<1>2. \A q \in Ports : /\ devices'[q] = IF q = target THEN e ELSE devices[q]
                       /\ q # target => relay'[q] = relay[q]
  BY ZenonT(60), <1>0 DEF RelayOff, DeviceTypes, RecordTypes
<1>3. /\ devices' \in [Ports -> Device] /\ relay' \in [Ports -> BOOLEAN]
      /\ pc = "relayOff" /\ pc' \in {"start", "update", "commands"}
  <2>1. devices' \in [Ports -> Device] /\ relay' \in [Ports -> BOOLEAN]
    <3> HIDE DEF e
    <3>1. devices' = [devices EXCEPT ![target] = e]
      BY DEF RelayOff, e
    <3> QED BY <1>0, <1>1, <3>1 DEF RelayOff, DeviceTypes, RecordTypes
  <2> QED
    BY <1>0, <2>1 DEF RelayOff, Goto, ControlTypes
<1> HIDE DEF e
<1>4. DeviceTypes'
  BY <1>0, <1>1, <1>2, <1>3 DEF DeviceTypes
<1>5. RecordTypes' /\ ControlTypes'
  BY <1>0, <1>3, SomeValues DEF RelayOff, eeprom, RecordTypes, ControlTypes, Points
<1>6. AtRelay' /\ OnRecord' /\ SilentStartedPowered'
  BY ZenonT(60), <1>1, <1>2, <1>3
     DEF Inv, RelayOff, eeprom, AtRelay, OnRecord, SilentStartedPowered, GetDeviceEnabled
<1> QED
  BY <1>4, <1>5, <1>6, InvParts

\* A step that leaves devices, relays and record alone, and enters neither
\* setup() nor a relay operation, keeps what Inv says of the devices.
LEMMA DeviceFrame ==
    ASSUME Inv, UNCHANGED <<devices, magic, enabled, relay>>, pc # "setup",
           pc' \notin {"setup", "relayOn", "relayOff"}
    PROVE  DeviceTypes' /\ OnRecord' /\ SilentStartedPowered' /\ AtRelay'
<1>1. DeviceTypes'
  BY TypeParts DEF Inv, DeviceTypes
<1> QED
  BY <1>1 DEF Inv, OnRecord, SilentStartedPowered, AtRelay, GetDeviceEnabled

\* start() up to the relay, called on a device that is not STOPPING.
LEMMA BeginStartInv ==
    ASSUME Inv, NEW p \in Ports, BeginStart(p, "update"), pc = "start",
           devices[p].state # "STOPPING", UNCHANGED <<magic, enabled, failures, relay>>,
           startTimer' = 0, deviceWantsStart' \in Ports \union {NoPort},
           UNCHANGED shouldResetSystem, todo' = Ports
    PROVE  Inv'
<1> DEFINE m == failures[p] < ManagedLimit
           d == [devices[p] EXCEPT !.managed = m]
           e == [d EXCEPT !.forceBootMedia = NoMedia]
<1>0. DeviceTypes /\ RecordTypes /\ ControlTypes
  BY TypeParts DEF Inv
<1>1. m \in BOOLEAN
  OBVIOUS
<1>2. /\ devices' = [devices EXCEPT ![p] = e]
      /\ selector' = [selector EXCEPT ![SelectorOf(p)] = NextBootMedia(p, d)]
      /\ target' = p /\ caller' = "update" /\ pc' = "relayOn"
  BY DEF BeginStart, Goto
<1> HIDE DEF m
<1>3. d \in Device /\ d.state = devices[p].state
  BY <1>0, <1>1 DEF Device, DeviceTypes
<1>4. NextBootMedia(p, d) \in Media
  BY <1>3, NextBootMediaType
<1> HIDE DEF d
<1>5. e \in Device /\ e.state = devices[p].state
  BY <1>3 DEF Device
<1> HIDE DEF e
<1>6. DeviceTypes' /\ OnRecord' /\ SilentStartedPowered'
  BY ZenonT(60), <1>2, <1>5, OneDevice
<1>7. RecordTypes'
  <2>1. attempts' \in [Ports -> 0 .. WordSize - 1]
    BY <1>0, WordIncrement DEF BeginStart, RecordTypes
  <2>2. selector' \in [{0, 1} -> Media]
    BY <1>0, <1>2, <1>4, SelectorType DEF RecordTypes
  <2> QED
    BY <1>0, <2>1, <2>2 DEF RecordTypes
<1>8. ControlTypes'
  BY <1>0, <1>2, SomeValues DEF ControlTypes, Points
<1>9. AtRelay'
  <2>1. devices'[p] = e
    BY <1>0, <1>2 DEF DeviceTypes
  <2> QED
    BY <1>2, <1>5, <2>1 DEF AtRelay
<1> QED
  BY <1>6, <1>7, <1>8, <1>9, InvParts

\* startNextDevice starts no device that is STOPPING.
LEMMA StartNextInv == ASSUME Inv, StartNext PROVE Inv'
<1>0. DeviceTypes /\ RecordTypes /\ ControlTypes
  BY TypeParts DEF Inv
<1>1. ASSUME StartRequested, devices[deviceWantsStart].state # "STOPPING" PROVE Inv'
  <2>1. deviceWantsStart \in Ports
    BY <1>0, <1>1 DEF StartRequested, ControlTypes
  <2> QED
    BY <1>1, <2>1, BeginStartInv DEF StartRequested
<1>2. ASSUME StartRequested, devices[deviceWantsStart].state = "STOPPING" PROVE Inv'
  <2>1. /\ pc = "start" /\ pc' = "update"
        /\ UNCHANGED <<devices, magic, enabled, failures, attempts, relay, selector,
                       shouldResetSystem, target, caller>>
        /\ startTimer' = 0 /\ deviceWantsStart' = NoPort /\ todo' = Ports
    BY <1>2 DEF StartRequested, Goto
  <2>2. RecordTypes' /\ ControlTypes'
    BY <1>0, <2>1, SomeValues DEF RecordTypes, ControlTypes, Points
  <2> QED
    BY <2>1, <2>2, DeviceFrame, InvParts
<1>3. ASSUME NEW p \in Ports, StartFirst(p) PROVE Inv'
  <2>1. devices[p].state # "STOPPING"
    BY <1>3 DEF StartFirst, CanStart
  <2>2. deviceWantsStart' \in Ports \union {NoPort}
    BY <1>3 DEF StartFirst
  <2> QED
    BY <1>3, <2>1, <2>2, BeginStartInv DEF StartFirst
<1>4. CASE StartNothing
  <2>1. /\ pc = "start" /\ pc' = "update" /\ todo' = Ports
        /\ UNCHANGED <<eeprom, relay, selector, ram, target, caller>>
    BY <1>4 DEF StartNothing, Goto
  <2>2. RecordTypes' /\ ControlTypes'
    BY <1>0, <2>1 DEF eeprom, ram, RecordTypes, ControlTypes, Points
  <2> QED
    BY <2>1, <2>2, DeviceFrame, InvParts DEF eeprom, ram
<1> QED
  BY <1>1, <1>2, <1>3, <1>4 DEF StartNext

\* A device that is updated: stop() makes it STOPPING, kill() is called on one
\* that is STOPPING, and only a heartbeat can make it STARTED.
LEMMA UpdateInv == ASSUME Inv, NEW beat \in BOOLEAN, Update(beat) PROVE Inv'
<1> DEFINE p == CHOOSE q \in todo : \A r \in todo : q <= r
           d == IF beat THEN OnHeartbeat(p, devices[p]) ELSE devices[p]
<1>0. DeviceTypes /\ RecordTypes /\ ControlTypes
  BY TypeParts DEF Inv
<1>1. p \in todo /\ p \in Ports
  BY <1>0, FirstPort DEF Update, ControlTypes
<1>2. /\ pc = "update" /\ (beat => p \notin Silent) /\ todo' = todo \ {p}
      /\ \/ UpdateHeartbeatLost(p, d) \/ UpdateUnmanagedSwitch(p, d)
         \/ UpdateStopDue(p, d) \/ UpdateNothingDue(p, d)
      /\ UNCHANGED <<magic, enabled, attempts, relay, startTimer, deviceWantsStart,
                     shouldResetSystem>>
  BY DEF Update
<1> HIDE DEF p
<1>3. /\ d \in Device
      /\ \/ d.state = devices[p].state
         \/ devices[p].state = "STOPPED" /\ d.state = "STARTED" /\ p \notin Silent
  <2>1. devices[p] \in Device
    BY <1>0, <1>1 DEF DeviceTypes
  <2>2. CASE beat
    <3>1. d = OnHeartbeat(p, devices[p])
      BY <2>2, Zenon
    <3> HIDE DEF d
    <3> QED
      BY <1>1, <1>2, <2>1, <2>2, <3>1, OnHeartbeatFacts
  <2>3. CASE ~ beat
    <3>1. d = devices[p]
      BY <2>3, Zenon
    <3> HIDE DEF d
    <3> QED
      BY <2>1, <3>1
  <2> QED
    BY <2>2, <2>3
<1> HIDE DEF d
<1>4. ASSUME NEW e \in Device, devices' = [devices EXCEPT ![p] = e],
             e.state \in {"STOPPING", d.state}, pc' # "setup"
      PROVE  DeviceTypes' /\ OnRecord' /\ SilentStartedPowered'
  BY ZenonT(60), <1>1, <1>2, <1>3, <1>4, OneDevice
<1>5. ASSUME UNCHANGED <<pc, target, caller>>, failures' \in [Ports -> 0 .. WordSize - 1],
             selector' \in [{0, 1} -> Media]
      PROVE  RecordTypes' /\ ControlTypes' /\ AtRelay' /\ pc' # "setup"
  BY <1>0, <1>2, <1>5 DEF RecordTypes, ControlTypes, AtRelay
<1>6. ChangeState(d, "STOPPING") \in Device /\ ChangeState(d, "STOPPING").state = "STOPPING"
  BY <1>3, ChangeStateFacts DEF States
<1>7. CASE UpdateHeartbeatLost(p, d)
  <2>1. /\ devices' = [devices EXCEPT ![p] = ChangeState(d, "STOPPING")]
        /\ UNCHANGED <<selector, pc, target, caller>>
    BY <1>7 DEF UpdateHeartbeatLost
  <2>2. failures' \in [Ports -> 0 .. WordSize - 1] /\ selector' \in [{0, 1} -> Media]
    BY <1>0, <1>1, <1>7, <2>1, WordIncrement DEF UpdateHeartbeatLost, RecordTypes
  <2> QED
    BY ZenonT(60), <1>4, <1>5, <1>6, <2>1, <2>2, InvParts
<1>8. CASE UpdateUnmanagedSwitch(p, d)
  <2> DEFINE media == IF NextBootMedia(p, d) = SD THEN EMMC ELSE SD
             e == [ChangeState(d, "STOPPING") EXCEPT !.forceBootMedia = media]
  <2>1. /\ devices' = [devices EXCEPT ![p] = e]
        /\ selector' = [selector EXCEPT ![SelectorOf(p)] = media]
        /\ UNCHANGED <<failures, pc, target, caller>>
    BY <1>8 DEF UpdateUnmanagedSwitch, SetNextBootMedia
  <2>2. media \in Media
    BY DEF Media
  <2> HIDE DEF media
  <2>3. e \in Device /\ e.state = "STOPPING"
    BY <1>6, <2>2 DEF Device
  <2> HIDE DEF e
  <2>4. failures' \in [Ports -> 0 .. WordSize - 1] /\ selector' \in [{0, 1} -> Media]
    BY <1>0, <1>1, <2>1, <2>2, SelectorType DEF RecordTypes
  <2> QED
    BY ZenonT(60), <1>4, <1>5, <2>1, <2>3, <2>4, InvParts
<1>9. CASE UpdateStopDue(p, d)
  <2> DEFINE e == [d EXCEPT !.stopTimeout = StopTimeout]
  <2>1. /\ devices' = [devices EXCEPT ![p] = e] /\ d.state = "STOPPING"
        /\ target' = p /\ caller' = "update" /\ pc' = "relayOff"
        /\ UNCHANGED <<failures, selector>>
    BY <1>9 DEF UpdateStopDue, StopDue, BeginKill, Goto
  <2>2. e \in Device /\ e.state = "STOPPING"
    BY <1>3, <2>1, SomeValues DEF Device
  <2> HIDE DEF e
  <2>3. DeviceTypes' /\ OnRecord' /\ SilentStartedPowered'
    BY ZenonT(60), <1>4, <2>1, <2>2
  <2>4. RecordTypes' /\ ControlTypes'
    BY <1>0, <1>1, <1>2, <2>1 DEF RecordTypes, ControlTypes, Points
  <2>5. AtRelay'
    BY <1>0, <1>1, <2>1, <2>2 DEF AtRelay, DeviceTypes
  <2> QED
    BY <2>3, <2>4, <2>5, InvParts
<1>10. CASE UpdateNothingDue(p, d)
  <2>1. /\ devices' = [devices EXCEPT ![p] = d]
        /\ UNCHANGED <<failures, selector, pc, target, caller>>
    BY <1>10 DEF UpdateNothingDue
  <2> QED
    BY ZenonT(60), <1>0, <1>3, <1>4, <1>5, <2>1, InvParts DEF RecordTypes
<1> QED
  BY <1>2, <1>7, <1>8, <1>9, <1>10

\* The end of the updates, and of a pass: time goes on.
LEMMA PassInv ==
    ASSUME Inv, UpdatesDone \/ \E tick, later \in BOOLEAN : EndPass(tick, later)
    PROVE  Inv'
<1>0. DeviceTypes /\ RecordTypes /\ ControlTypes
  BY TypeParts DEF Inv
<1>1. CASE UpdatesDone
  <2>1. /\ pc = "update" /\ pc' = "commands"
        /\ UNCHANGED <<eeprom, relay, selector, ram, todo, target, caller>>
    BY <1>1 DEF UpdatesDone, Goto
  <2>2. RecordTypes' /\ ControlTypes'
    BY <1>0, <2>1 DEF eeprom, ram, RecordTypes, ControlTypes, Points
  <2> QED
    BY <2>1, <2>2, DeviceFrame, InvParts DEF eeprom, ram
<1>2. ASSUME NEW tick \in BOOLEAN, NEW later \in BOOLEAN, EndPass(tick, later) PROVE Inv'
  <2>1. /\ pc = "commands" /\ pc' \in {"resetSystem", "start"}
        /\ UNCHANGED <<eeprom, relay, selector, deviceWantsStart, shouldResetSystem, todo,
                       target, caller>>
    BY <1>2 DEF EndPass, Goto
  <2>2. CASE UNCHANGED <<devices, startTimer>>
    <3>1. RecordTypes' /\ ControlTypes'
      BY <1>0, <2>1, <2>2 DEF eeprom, RecordTypes, ControlTypes, Points
    <3> QED
      BY <2>1, <2>2, <3>1, DeviceFrame, InvParts DEF eeprom
  <2>3. CASE PassTime
    <3>1. \A t \in Time : Tick(t) \in Time
      BY TimeAssumption DEF Tick, Time
    <3>2. \A q \in Ports : /\ devices'[q] \in Device
                           /\ devices'[q].state = devices[q].state
      BY SMTT(60), <1>0, <2>3, <3>1 DEF PassTime, Device, DeviceTypes
    <3>3. devices' \in [Ports -> Device]
      BY <2>3, <3>2, Zenon DEF PassTime
    <3>4. DeviceTypes'
      BY <1>0, <2>1, <3>2, <3>3 DEF DeviceTypes
    <3>5. RecordTypes' /\ ControlTypes'
      BY <1>0, <2>1, <2>3, <3>1 DEF PassTime, eeprom, RecordTypes, ControlTypes, Points
    <3>6. AtRelay' /\ OnRecord' /\ SilentStartedPowered'
      BY <2>1, <3>2
         DEF Inv, eeprom, AtRelay, OnRecord, SilentStartedPowered, GetDeviceEnabled
    <3> QED
      BY <3>4, <3>5, <3>6, InvParts
  <2> QED
    BY <1>2, <2>2, <2>3 DEF EndPass
<1> QED
  BY <1>1, <1>2

\* The commands: none makes a device STARTED without a sign of life, disables
\* one, or calls kill() on one that is STARTED.
LEMMA CommandInv == ASSUME Inv, Command PROVE Inv'
<1>0. DeviceTypes /\ RecordTypes /\ ControlTypes
  BY TypeParts DEF Inv
<1>1. pc = "commands" /\ UNCHANGED <<attempts, failures, relay, startTimer>>
  BY DEF Command
<1>2. ASSUME UNCHANGED control PROVE pc' # "setup" /\ AtRelay'
  BY <1>1, <1>2 DEF control, AtRelay
<1>3. ASSUME NEW p \in Ports, CommandPing(p) PROVE Inv'
  <2> DEFINE e == OnHeartbeat(p, devices[p])
  <2>1. /\ p \notin Silent /\ devices' = [devices EXCEPT ![p] = e]
        /\ UNCHANGED <<magic, enabled, selector, deviceWantsStart, shouldResetSystem, control>>
    BY <1>3 DEF CommandPing
  <2>2. e \in Device /\ (e.state = "DISABLED" => devices[p].state = "DISABLED")
    BY <1>0, OnHeartbeatFacts DEF DeviceTypes
  <2> HIDE DEF e
  <2>3. RecordTypes' /\ ControlTypes'
    BY <1>0, <1>1, <2>1 DEF control, RecordTypes, ControlTypes
  <2> QED
    BY ZenonT(60), <1>1, <1>2, <2>1, <2>2, <2>3, OneDevice, InvParts
<1>4. ASSUME NEW p \in Ports, CommandStart(p) PROVE Inv'
  <2>1. RecordTypes' /\ ControlTypes'
    BY <1>0, <1>1, <1>4 DEF CommandStart, control, RecordTypes, ControlTypes
  <2> QED
    BY <1>1, <1>4, <2>1, DeviceFrame, InvParts DEF CommandStart, control
<1>5. ASSUME NEW p \in Ports, NEW t \in StopTimeouts, CommandStop(p, t) PROVE Inv'
  <2> DEFINE d == [devices[p] EXCEPT !.stopTimeout = t]
             e == IF d.state \in {"DISABLED", "STARTED"} THEN ChangeState(d, "STOPPING") ELSE d
  <2>1. /\ devices' = [devices EXCEPT ![p] = e]
        /\ IF d.state = "STOPPED" THEN BeginKill(p, "commands") ELSE UNCHANGED <<pc, target, caller>>
        /\ UNCHANGED <<magic, enabled, selector, deviceWantsStart, shouldResetSystem, todo>>
    BY <1>5 DEF CommandStop
  <2>2. d \in Device /\ d.state = devices[p].state
    BY <1>0, SomeValues DEF Device, DeviceTypes
  <2> HIDE DEF d
  <2>3. /\ e \in Device
        /\ e.state = IF d.state \in {"DISABLED", "STARTED"} THEN "STOPPING" ELSE d.state
    BY <2>2, ChangeStateFacts DEF States
  <2> HIDE DEF e
  <2>4. \/ /\ d.state = "STOPPED" /\ target' = p /\ caller' = "commands" /\ pc' = "relayOff"
        \/ UNCHANGED <<pc, target, caller>>
    BY <2>1 DEF BeginKill, Goto
  <2>5. DeviceTypes' /\ OnRecord' /\ SilentStartedPowered'
    BY ZenonT(60), <1>1, <2>1, <2>2, <2>3, <2>4, OneDevice
  <2>6. RecordTypes' /\ ControlTypes'
    BY <1>0, <1>1, <2>1, <2>4 DEF RecordTypes, ControlTypes, Points
  <2>7. AtRelay'
    BY <1>0, <1>1, <2>1, <2>3, <2>4 DEF AtRelay, DeviceTypes
  <2> QED
    BY <2>5, <2>6, <2>7, InvParts
<1>6. ASSUME NEW p \in Ports, CommandEnable(p) PROVE Inv'
  <2> DEFINE e == ChangeState(devices[p], "STOPPED")
  <2>1. /\ devices' = [devices EXCEPT ![p] = e] /\ enabled' = [enabled EXCEPT ![p] = TRUE]
        /\ UNCHANGED <<magic, selector, deviceWantsStart, shouldResetSystem, control>>
    BY <1>6 DEF CommandEnable
  <2>2. e \in Device /\ e.state = "STOPPED"
    BY <1>0, ChangeStateFacts DEF DeviceTypes, States
  <2> HIDE DEF e
  <2>3. \A q \in Ports : /\ devices'[q] = IF q = p THEN e ELSE devices[q]
                         /\ enabled'[q] = IF q = p THEN TRUE ELSE enabled[q]
    BY <1>0, <2>1 DEF DeviceTypes, RecordTypes
  <2>4. DeviceTypes' /\ SilentStartedPowered' /\ OnRecord'
    BY <1>0, <1>1, <2>1, <2>2, <2>3
       DEF Inv, DeviceTypes, SilentStartedPowered, OnRecord, GetDeviceEnabled, control
  <2>5. RecordTypes' /\ ControlTypes'
    <3>1. enabled' \in [Ports -> BOOLEAN]
      BY <1>0, <2>1, Zenon DEF RecordTypes
    <3> QED
      BY <1>0, <1>1, <2>1, <3>1 DEF control, RecordTypes, ControlTypes
  <2> QED
    BY <1>2, <2>1, <2>4, <2>5, InvParts
<1>7. ASSUME NEW p \in Ports, NEW m \in Media, CommandSetMediaSelect(p, m) PROVE Inv'
  <2> DEFINE e == [devices[p] EXCEPT !.forceBootMedia = m]
  <2>1. /\ devices' = [devices EXCEPT ![p] = e]
        /\ selector' = [selector EXCEPT ![SelectorOf(p)] = m]
        /\ UNCHANGED <<magic, enabled, deviceWantsStart, shouldResetSystem, control>>
    BY <1>7 DEF CommandSetMediaSelect, SetNextBootMedia
  <2>2. e \in Device /\ e.state = devices[p].state
    BY <1>0 DEF Device, DeviceTypes
  <2> HIDE DEF e
  <2>3. RecordTypes' /\ ControlTypes'
    BY <1>0, <1>1, <2>1, SelectorType DEF control, RecordTypes, ControlTypes
  <2> QED
    BY ZenonT(60), <1>1, <1>2, <2>1, <2>2, <2>3, OneDevice, InvParts
<1>8. CASE CommandReset
  <2>1. RecordTypes' /\ ControlTypes'
    <3>1. shouldResetSystem' \in BOOLEAN
      BY <1>8, Zenon DEF CommandReset
    <3> QED
      BY <1>0, <1>1, <1>8, <3>1 DEF CommandReset, control, RecordTypes, ControlTypes
  <2> QED
    BY <1>1, <1>8, <2>1, DeviceFrame, InvParts DEF CommandReset, control
<1>9. CASE CommandResetEEPROM
  <2>1. RecordTypes' /\ ControlTypes'
    <3>1. magic' \in BOOLEAN
      BY <1>9, Zenon DEF CommandResetEEPROM
    <3> QED
      BY <1>0, <1>1, <1>9, <3>1 DEF CommandResetEEPROM, control, RecordTypes, ControlTypes
  <2>2. DeviceTypes' /\ OnRecord' /\ SilentStartedPowered' /\ AtRelay'
    BY <1>0, <1>1, <1>9 DEF CommandResetEEPROM, control, Inv, DeviceTypes, OnRecord,
       SilentStartedPowered, AtRelay, GetDeviceEnabled
  <2> QED
    BY <2>1, <2>2, InvParts
<1> QED
  BY <1>3, <1>4, <1>5, <1>6, <1>7, <1>8, <1>9 DEF Command

\* Next, with the steps of the main loop together and resets of either cause.
LEMMA NextCases ==
    ASSUME [Next]_vars
    PROVE  \/ InitRecord \/ Setup \/ RelayOn \/ RelayOff \/ StartNext \/ Command
           \/ \E beat \in BOOLEAN : Update(beat)
           \/ UpdatesDone \/ \E tick, later \in BOOLEAN : EndPass(tick, later)
           \/ \E cause \in {"power", "watchdog"} : Reset(cause)
           \/ UNCHANGED vars
BY FaultAssumption DEF Next, Program, ResetSystem, Fault

\* Every step keeps Inv.
LEMMA StepInv == Inv /\ [Next]_vars => Inv'
<1> SUFFICES ASSUME Inv, [Next]_vars PROVE Inv'
  OBVIOUS
<1>1. CASE UNCHANGED vars
  <2>1. DeviceTypes' /\ RecordTypes' /\ ControlTypes'
    BY SMTT(60), <1>1, TypeParts DEF Inv, vars, eeprom, ram, control, DeviceTypes, RecordTypes, ControlTypes
  <2>2. AtRelay' /\ OnRecord' /\ SilentStartedPowered'
    BY <1>1 DEF Inv, vars, eeprom, ram, control, AtRelay, OnRecord, SilentStartedPowered,
       GetDeviceEnabled
  <2> QED
    BY <2>1, <2>2, InvParts
<1> QED
  BY <1>1, InitRecordInv, SetupInv, RelayOnInv, RelayOffInv, StartNextInv, CommandInv, UpdateInv,
     PassInv, ResetInv, NextCases

\* Inv is an invariant.
LEMMA Inductive == Spec => []Inv
BY InitInv, StepInv, PTL DEF Spec

\* Type correctness of the version 4 power manager; no port that the default
\* record enables is ever disabled.
THEOREM TypeCorrect == Spec => []TypeOK
<1>1. Inv => TypeOK
  BY DEF Inv
<1> QED
  BY <1>1, Inductive, PTL

\* The state of a device and its latch part only by a reset or a sign of life:
\* start() and kill() keep them together.
THEOREM StartedPoweredCorrect == Spec => []SilentStartedPowered
<1>1. Inv => SilentStartedPowered
  BY DEF Inv
<1> QED
  BY <1>1, Inductive, PTL
-----------------------------------------------------------------------------
(* What a step may not do *)

\* The power of a port is only cut by the end of kill() and by resets.
LEMMA WhoCutsPower ==
    ASSUME Inv, [Next]_vars, NEW p \in Ports, relay[p], ~ relay'[p], pc' # "setup"
    PROVE  RelayOff /\ target = p
<1>0. DeviceTypes /\ RecordTypes /\ ControlTypes
  BY TypeParts DEF Inv
<1>1. ~ UNCHANGED relay
  BY SMTT(60)
<1>2. ~ RelayOn
  BY <1>0 DEF RelayOn, RecordTypes
<1>3. ~ (InitRecord \/ Setup \/ Command \/ UpdatesDone \/ UNCHANGED vars)
  BY <1>1 DEF InitRecord, Setup, Command, UpdatesDone, vars
<1>4. ~ StartNext
  BY <1>1 DEF StartNext, StartRequested, StartFirst, StartNothing
<1>5. ASSUME NEW beat \in BOOLEAN, NEW later \in BOOLEAN
      PROVE  ~ Update(beat) /\ ~ EndPass(beat, later)
  BY <1>1 DEF Update, EndPass
<1>6. ASSUME NEW cause \in {"power", "watchdog"} PROVE ~ Reset(cause)
  BY ZenonT(60) DEF Reset, Goto
<1>7. RelayOff
  BY <1>2, <1>3, <1>4, <1>5, <1>6, NextCases
<1> QED
  BY <1>0, <1>7 DEF RelayOff, RecordTypes

\* A running device is told to stop before it loses its power: kill() is called
\* by updateStopping, and by stop() on a device that is STOPPED, only.
THEOREM CutsOnlyStoppedCorrect == Spec => CutsOnlyStopped
<1>1. ASSUME Inv, [Next]_vars
      PROVE  \A p \in Ports : relay[p] /\ ~ relay'[p] /\ pc' # "setup"
                                => devices[p].state \in {"STOPPING", "STOPPED"}
  BY <1>1, WhoCutsPower DEF Inv, AtRelay, RelayOff
<1> QED
  BY <1>1, Inductive, PTL DEF Spec, CutsOnlyStopped

\* A device that was told to stop goes on STOPPING until kill() has cut its
\* power, through every start, heartbeat and command but enable(), which takes
\* the stop back with the power on; only a reset forgets it.
THEOREM OnlyEnableUndoesStopCorrect == Spec => OnlyEnableUndoesStop
<1> DEFINE Kept(p) == \/ devices'[p].state = "STOPPING"
                      \/ devices'[p].state = "STOPPED" /\ ~ relay'[p]
                      \/ pc = "commands" /\ CommandEnable(p)
                      \/ pc' = "setup"
<1>1. ASSUME Inv, [Next]_vars
      PROVE  \A p \in Ports : devices[p].state = "STOPPING" => Kept(p)
  <2> SUFFICES ASSUME NEW p \in Ports, devices[p].state = "STOPPING"
               PROVE  Kept(p)
    OBVIOUS
  <2>0. DeviceTypes /\ RecordTypes /\ ControlTypes
    BY <1>1, TypeParts DEF Inv
  <2>1. CASE InitRecord \/ Setup
    BY <1>1, <2>1 DEF InitRecord, Setup, Inv, AtRelay
  <2>2. CASE RelayOn
    <3>1. target # p
      BY <1>1, <2>2 DEF RelayOn, Inv, AtRelay
    <3> QED
      BY <1>1, <2>0, <2>2, <3>1 DEF RelayOn, DeviceTypes
  <2>3. CASE RelayOff
    <3>1. CASE target = p
      BY <1>1, <2>0, <2>3, <3>1, ChangeStateFacts
         DEF RelayOff, DeviceTypes, RecordTypes, ControlTypes, States
    <3>2. CASE target # p
      BY <1>1, <2>0, <2>3, <3>2 DEF RelayOff, DeviceTypes
    <3> QED
      BY <3>1, <3>2
  <2>4. CASE StartNext
    <3>1. CASE UNCHANGED devices
      BY <1>1, <3>1
    <3>2. ASSUME NEW q \in Ports, NEW return, BeginStart(q, return)
          PROVE  devices'[p].state = devices[p].state
      BY SMTT(60), <1>1, <2>0, <3>2 DEF BeginStart, DeviceTypes, Device
    <3>3. \/ UNCHANGED devices
          \/ \E q \in Ports : BeginStart(q, "update")
      BY <2>0, <2>4 DEF StartNext, StartRequested, StartFirst, StartNothing, ram, ControlTypes
    <3> QED
      BY <1>1, <3>1, <3>2, <3>3
  <2>5. ASSUME NEW beat \in BOOLEAN, Update(beat)
        PROVE  devices'[p].state = "STOPPING"
    <3> DEFINE q == CHOOSE q \in todo : \A r \in todo : q <= r
               d == IF beat THEN OnHeartbeat(q, devices[q]) ELSE devices[q]
    <3>1. q \in Ports
      <4>1. todo # {}
        BY <2>5, Zenon DEF Update
      <4>2. todo \subseteq Ports
        BY <2>0 DEF ControlTypes
      <4>3. q \in todo
        BY <4>1, <4>2, FirstPort
      <4> QED
        BY <4>2, <4>3
    <3>2. \/ UpdateHeartbeatLost(q, d) \/ UpdateUnmanagedSwitch(q, d)
          \/ UpdateStopDue(q, d) \/ UpdateNothingDue(q, d)
      BY <2>5 DEF Update
    <3> HIDE DEF q
    <3>3. d \in Device /\ (q = p => d.state = "STOPPING")
      <4>1. devices[q] \in Device
        BY <2>0, <3>1 DEF DeviceTypes
      <4>2. d = OnHeartbeat(q, devices[q]) \/ d = devices[q]
        BY Zenon
      <4> HIDE DEF d
      <4> QED
        BY <1>1, <3>1, <4>1, <4>2, OnHeartbeatFacts
    <3> HIDE DEF d
    <3>4. PICK e \in Device : /\ devices' = [devices EXCEPT ![q] = e]
                              /\ q = p => e.state = "STOPPING"
      <4>1. ChangeState(d, "STOPPING") \in Device /\ ChangeState(d, "STOPPING").state = "STOPPING"
        BY <3>3, ChangeStateFacts DEF States
      <4>2. CASE UpdateHeartbeatLost(q, d)
        BY ZenonT(60), <4>1, <4>2 DEF UpdateHeartbeatLost
      <4>3. CASE UpdateUnmanagedSwitch(q, d)
        <5> DEFINE m == IF NextBootMedia(q, d) = SD THEN EMMC ELSE SD
                   e == [ChangeState(d, "STOPPING") EXCEPT !.forceBootMedia = m]
        <5>1. devices' = [devices EXCEPT ![q] = e]
          BY <4>3 DEF UpdateUnmanagedSwitch, SetNextBootMedia
        <5>2. m \in Media
          BY DEF Media
        <5> HIDE DEF m
        <5>3. e \in Device /\ e.state = "STOPPING"
          BY <4>1, <5>2 DEF Device
        <5> HIDE DEF e
        <5> QED
          BY ZenonT(60), <5>1, <5>3
      <4>4. CASE UpdateStopDue(q, d)
        <5> DEFINE e == [d EXCEPT !.stopTimeout = StopTimeout]
        <5>1. devices' = [devices EXCEPT ![q] = e]
          BY <4>4 DEF UpdateStopDue
        <5>2. e \in Device /\ e.state = d.state
          BY <3>3, SomeValues DEF Device
        <5> HIDE DEF e
        <5> QED
          BY ZenonT(60), <3>3, <5>1, <5>2
      <4>5. CASE UpdateNothingDue(q, d)
        BY ZenonT(60), <3>3, <4>5 DEF UpdateNothingDue
      <4> QED
        BY <3>2, <4>2, <4>3, <4>4, <4>5
    <3> QED
      BY SMTT(60), <1>1, <2>0, <3>1, <3>4 DEF DeviceTypes
  <2>6. CASE Command
    <3>1. ASSUME NEW q \in Ports, NEW e \in Device, devices' = [devices EXCEPT ![q] = e],
                 q = p => e.state = "STOPPING"
          PROVE  devices'[p].state = "STOPPING"
      BY <2>0, <3>1 DEF DeviceTypes
    <3>2. ASSUME NEW q \in Ports, CommandPing(q)
          PROVE  devices'[p].state = "STOPPING"
      BY <2>0, <3>1, <3>2, OnHeartbeatFacts DEF CommandPing, DeviceTypes
    <3>3. ASSUME NEW q \in Ports, NEW t \in StopTimeouts, CommandStop(q, t)
          PROVE  devices'[p].state = "STOPPING"
      <4> DEFINE d == [devices[q] EXCEPT !.stopTimeout = t]
                 e == IF d.state \in {"DISABLED", "STARTED"} THEN ChangeState(d, "STOPPING") ELSE d
      <4>1. d \in Device /\ d.state = devices[q].state
        BY <2>0, SomeValues DEF DeviceTypes, Device
      <4>2. devices' = [devices EXCEPT ![q] = e]
        BY <3>3 DEF CommandStop
      <4> HIDE DEF d
      <4>3. e \in Device /\ (q = p => e.state = "STOPPING")
        BY <4>1, ChangeStateFacts DEF States
      <4> HIDE DEF e
      <4> QED
        BY <3>1, <4>2, <4>3
    <3>4. ASSUME NEW q \in Ports, CommandEnable(q)
          PROVE  Kept(p)
      <4>1. CASE q = p
        BY <2>6, <3>4, <4>1 DEF Command
      <4>2. CASE q # p
        BY <1>1, <2>0, <3>4, <4>2 DEF CommandEnable, DeviceTypes
      <4> QED
        BY <4>1, <4>2
    <3>5. ASSUME NEW q \in Ports, NEW m \in Media, CommandSetMediaSelect(q, m)
          PROVE  devices'[p].state = "STOPPING"
      BY <2>0, <3>5 DEF CommandSetMediaSelect, SetNextBootMedia, DeviceTypes, Device
    <3>6. CASE (\E q \in Ports : CommandStart(q)) \/ CommandReset \/ CommandResetEEPROM
      BY <3>6 DEF CommandStart, CommandReset, CommandResetEEPROM
    <3> QED
      BY <2>6, <3>2, <3>3, <3>4, <3>5, <3>6 DEF Command
  <2>7. CASE UpdatesDone \/ \E tick, later \in BOOLEAN : EndPass(tick, later)
    BY <1>1, <2>0, <2>7 DEF UpdatesDone, EndPass, PassTime, ram, DeviceTypes, Device
  <2>8. ASSUME NEW cause \in {"power", "watchdog"}, Reset(cause)
        PROVE  pc' = "setup"
    BY ZenonT(60), <2>8 DEF Reset, Goto
  <2>9. CASE UNCHANGED vars
    BY <2>9 DEF vars, ram
  <2> QED
    BY <1>1, <2>1, <2>2, <2>3, <2>4, <2>5, <2>6, <2>7, <2>8, <2>9, NextCases
<1> QED
  BY <1>1, Inductive, PTL DEF Spec, OnlyEnableUndoesStop
=============================================================================
