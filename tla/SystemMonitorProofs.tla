------------------------ MODULE SystemMonitorProofs ------------------------
(***************************************************************************)
(* What the v2 monitor supplies with power is what it watches and what is  *)
(* not on record as dead, for every number of devices and all operating    *)
(* parameters.                                                             *)
(***************************************************************************)
EXTENDS SystemMonitor, TLAPS

Callers == Sequences \union {"reboot"}
LoopCallers == {"react", "rebooting", "reboot"}
LoopPoints == {"count", "restart", "react", "request", "reboot", "rebooting", "idle"}

\* the part of the type invariant that the argument needs
Places ==
    /\ relay \in [Devices -> BOOLEAN]
    /\ running \in [Devices -> BOOLEAN]
    /\ enabled \in [Devices -> BOOLEAN]
    /\ at \in 0 .. DeviceCount
    /\ dev \in Devices
    /\ caller \in Callers

\* boot_NC is the node controller's; past the look at the record, the device
\* that is being booted is not dead, and it is known if its relay is on.
PoweredPoints == {"config", "power", "powerAgain", "heartbeat", "beat"}
CutPoints == {"bootTemp", "powerCycle", "dead", "beatCycle"}

BootPlace ==
    /\ pc \in {"bootNC", "config"} => dev = NC
    /\ pc \in PoweredPoints \union (CutPoints \ {"dead"}) => enabled[dev]
    /\ pc \in PoweredPoints => relay[dev]
    /\ pc \in CutPoints => ~ relay[dev]
    /\ pc \in PoweredPoints \union CutPoints /\ dev # NC => ~ running[dev]

\* Of all devices but the node controller and the one that is being booted,
\* those with power are the ones that are marked as running.
Watched ==
    pc # "asleep" => \A d \in Devices \ {NC} :
                        (pc \in Booting => d # dev) => (relay[d] <=> running[d])

Inv == Places /\ DeadUnpowered /\ BootPlace /\ Watched

\* The invariant gives the property of the idle monitor.
LEMMA InvWatches == Inv => PoweredIsWatched
  <1> SUFFICES ASSUME Inv, pc \in {"idle", "count", "request", "reboot"},
                      NEW d \in Devices \ {NC}
               PROVE  relay[d] = running[d]
    BY DEF PoweredIsWatched
  <1>1. relay[d] <=> running[d]
    BY DEF Inv, Watched, Booting
  <1>2. relay[d] \in BOOLEAN /\ running[d] \in BOOLEAN
    BY DEF Inv, Places
  <1> QED BY <1>1, <1>2

\* All relays are off at first, and after every reset.
LEMMA InitInv == Init => Inv
  <1> SUFFICES ASSUME Init PROVE Inv
    OBVIOUS
  <1> USE DeviceAssumption
  <1>1. 0 \in 0 .. DeviceCount /\ NC \in Devices
    BY DEF NC, Devices
  <1>2. Places
    BY <1>1 DEF Init, Places, Callers, Sequences
  <1>3. DeadUnpowered /\ Watched
    BY DEF Init, DeadUnpowered, Watched
  <1>4. BootPlace
    BY DEF Init, BootPlace, PoweredPoints, CutPoints
  <1> QED BY <1>2, <1>3, <1>4 DEF Inv

LEMMA ResetInv == Inv /\ Reset => Inv'
  <1> SUFFICES ASSUME Inv, Reset PROVE Inv'
    OBVIOUS
  <1> USE DeviceAssumption
  <1>1. 0 \in 0 .. DeviceCount /\ NC \in Devices
    BY DEF NC, Devices
  <1>2. /\ relay' = [d \in Devices |-> FALSE] /\ running' = [d \in Devices |-> FALSE]
        /\ enabled' = enabled /\ at' = 0 /\ dev' = NC /\ caller' = "setup" /\ pc' = "init"
    BY DEF Reset, Forget, Goto, eeprom
  <1>3. Places'
    BY <1>1, <1>2 DEF Inv, Places, Callers, Sequences
  <1>4. DeadUnpowered' /\ Watched'
    BY <1>2 DEF DeadUnpowered, Watched
  <1>5. BootPlace'
    BY <1>2 DEF BootPlace, PoweredPoints, CutPoints
  <1> QED BY <1>3, <1>4, <1>5 DEF Inv
-----------------------------------------------------------------------------
(* steps outside of the boot routines *)

\* A step that switches nothing and does not boot a device.
LEMMA ElsewhereInv ==
    ASSUME Inv, UNCHANGED <<relay, running, enabled, dev, caller>>,
           at' \in 0 .. DeviceCount,
           pc \notin Booting \union {"asleep"}, pc' \notin Booting
    PROVE  Inv'
  <1>1. Places'
    BY DEF Inv, Places
  <1>2. DeadUnpowered'
    BY DEF Inv, DeadUnpowered
  <1>3. BootPlace'
    BY DEF BootPlace, PoweredPoints, CutPoints, Booting
  <1>4. Watched'
    BY DEF Inv, Watched
  <1> QED BY <1>1, <1>2, <1>3, <1>4 DEF Inv

\* A step that calls a boot routine.
LEMMA CallBootInv ==
    ASSUME Inv, UNCHANGED <<relay, running, enabled>>, at' \in 0 .. DeviceCount,
           pc \notin Booting \union {"asleep"},
           NEW d \in Devices, NEW return \in Callers, CallBoot(d, return)
    PROVE  Inv'
  <1>1. /\ dev' = d /\ caller' = return
        /\ pc' = IF d = NC THEN "bootNC" ELSE "bootOff"
    BY DEF CallBoot, Goto
  <1>2. Places'
    BY <1>1 DEF Inv, Places
  <1>3. DeadUnpowered'
    BY DEF Inv, DeadUnpowered
  <1>4. BootPlace'
    BY <1>1 DEF BootPlace, PoweredPoints, CutPoints
  <1>5. Watched'
    BY <1>1 DEF Inv, Watched
  <1> QED BY <1>2, <1>3, <1>4, <1>5 DEF Inv
-----------------------------------------------------------------------------
(* the ends of the boot routines *)

\* A failed boot leaves a device other than the node controller off.
LEMMA FailInv ==
    ASSUME Inv, pc \in Booting, Fail, at' = at,
           relay' \in [Devices -> BOOLEAN], running' \in [Devices -> BOOLEAN],
           enabled' \in [Devices -> BOOLEAN], DeadUnpowered',
           \A d \in Devices \ {dev} : relay'[d] = relay[d] /\ running'[d] = running[d],
           dev # NC => ~ relay'[dev] /\ ~ running'[dev]
    PROVE  Inv'
  <1>1. dev' = NC /\ caller' = "setup" /\ (pc' = "bootFailed" \/ pc' \in Callers)
    BY DEF Inv, Places, Fail, Forget, Goto
  <1>2. pc' \notin Booting \union {"asleep"}
    BY <1>1 DEF Callers, Sequences, Booting
  <1>3. NC \in Devices
    BY DeviceAssumption DEF NC, Devices
  <1>4. Places'
    BY <1>1, <1>3 DEF Inv, Places, Callers, Sequences
  <1>5. BootPlace'
    BY <1>2 DEF BootPlace, PoweredPoints, CutPoints, Booting
  <1>6. ASSUME NEW d \in Devices \ {NC} PROVE relay'[d] <=> running'[d]
    <2>1. CASE d = dev
      BY <2>1
    <2>2. CASE d # dev
      BY <2>2, <1>2 DEF Inv, Watched, Booting
    <2> QED BY <2>1, <2>2
  <1>7. Watched'
    BY <1>6 DEF Watched
  <1> QED BY <1>4, <1>5, <1>7 DEF Inv

\* A boot that succeeds leaves the device on and running.
LEMMA SucceedInv ==
    ASSUME Inv, pc \in PoweredPoints, Succeed, UNCHANGED <<relay, enabled, at>>
    PROVE  Inv'
  <1>1. dev' = NC /\ caller' = "setup" /\ pc' \in Callers
        /\ running' = [running EXCEPT ![dev] = TRUE]
    BY DEF Inv, Places, Succeed, Forget, Goto
  <1>2. pc' \notin Booting \union {"asleep"}
    BY <1>1 DEF Callers, Sequences, Booting
  <1>3. NC \in Devices
    BY DeviceAssumption DEF NC, Devices
  <1>4. Places'
    BY <1>1, <1>3 DEF Inv, Places, Callers, Sequences
  <1>5. BootPlace'
    BY <1>2 DEF BootPlace, PoweredPoints, CutPoints, Booting
  <1>6. DeadUnpowered'
    BY DEF Inv, DeadUnpowered
  <1>7. ASSUME NEW d \in Devices \ {NC} PROVE relay'[d] <=> running'[d]
    <2>1. CASE d = dev
      BY <1>1, <2>1 DEF Inv, Places, BootPlace
    <2>2. CASE d # dev
      BY <1>1, <2>2 DEF Inv, Places, Watched, PoweredPoints
    <2> QED BY <2>1, <2>2
  <1>8. Watched'
    BY <1>7 DEF Watched
  <1> QED BY <1>4, <1>5, <1>6, <1>8 DEF Inv

\* A step of a boot routine that switches the relay to on and goes to label, for
\* a device that is not dead.
LEMMA SwitchInv ==
    ASSUME Inv, pc \in Booting, UNCHANGED <<running, enabled, at, dev, caller>>,
           NEW on \in BOOLEAN, relay' = [relay EXCEPT ![dev] = on],
           enabled[dev], dev # NC => ~ running[dev],
           \/ on /\ pc' \in PoweredPoints /\ (pc' = "config" => dev = NC)
           \/ ~ on /\ pc' \in CutPoints
    PROVE  Inv'
  <1>1. Places'
    BY DEF Inv, Places
  <1>2. DeadUnpowered'
    BY DEF Inv, Places, DeadUnpowered
  <1>3. relay'[dev] = on
    BY DEF Inv, Places
  <1>4. BootPlace'
    BY <1>3 DEF BootPlace, PoweredPoints, CutPoints
  <1>5. pc' \in Booting
    BY DEF Booting, PoweredPoints, CutPoints
  <1>6. Watched'
    BY <1>5 DEF Inv, Places, Watched, Booting
  <1> QED BY <1>1, <1>2, <1>4, <1>6 DEF Inv
-----------------------------------------------------------------------------
(* the steps of the boot routines *)

LEMMA BootOffInv == Inv /\ BootOff => Inv'
  <1> SUFFICES ASSUME Inv, BootOff PROVE Inv'
    OBVIOUS
  <1>1. pc = "bootOff" /\ pc \in Booting /\ dev \in Devices
    BY DEF Inv, Places, BootOff, Booting
  <1>2. /\ relay' = [relay EXCEPT ![dev] = FALSE]
        /\ running' = [running EXCEPT ![dev] = FALSE]
        /\ enabled' = enabled /\ at' = at
    BY DEF BootOff, eeprom
  <1>3. /\ relay' \in [Devices -> BOOLEAN] /\ running' \in [Devices -> BOOLEAN]
        /\ enabled' \in [Devices -> BOOLEAN]
        /\ ~ relay'[dev] /\ ~ running'[dev]
    BY <1>1, <1>2 DEF Inv, Places
  <1>4. \A d \in Devices \ {dev} : relay'[d] = relay[d] /\ running'[d] = running[d]
    BY <1>1, <1>2 DEF Inv, Places
  <1>5. DeadUnpowered'
    BY <1>2, <1>3, <1>4 DEF Inv, DeadUnpowered
  <1>6. CASE Fail
    BY <1>1, <1>2, <1>3, <1>4, <1>5, <1>6, FailInv
  <1>7. CASE enabled[dev] /\ pc' = "bootTemp" /\ UNCHANGED local
    <2>1. dev' = dev /\ caller' = caller
      BY <1>7 DEF local
    <2>2. Places'
      BY <1>2, <1>3, <2>1 DEF Inv, Places
    <2>3. BootPlace'
      BY <1>2, <1>3, <1>7, <2>1 DEF BootPlace, PoweredPoints, CutPoints
    <2>4. Watched'
      BY <1>1, <1>4, <1>7, <2>1 DEF Inv, Watched, Booting
    <2> QED BY <1>5, <2>2, <2>3, <2>4 DEF Inv
  <1> QED BY <1>6, <1>7 DEF BootOff, Goto

\* A boot that ends before the relay is switched on changes nothing else.
LEMMA FailUnchangedInv ==
    ASSUME Inv, pc \in Booting, Fail, UNCHANGED <<relay, running, enabled, at>>,
           dev # NC => ~ relay[dev] /\ ~ running[dev]
    PROVE  Inv'
  <1>1. /\ relay' \in [Devices -> BOOLEAN] /\ running' \in [Devices -> BOOLEAN]
        /\ enabled' \in [Devices -> BOOLEAN] /\ DeadUnpowered'
    BY DEF Inv, Places, DeadUnpowered
  <1> QED BY <1>1, FailInv

LEMMA BootTempInv ==
    ASSUME Inv, NEW good, BootTemp(good) PROVE Inv'
  <1>1. /\ pc = "bootTemp" /\ pc \in Booting /\ enabled[dev]
        /\ (dev # NC => ~ relay[dev] /\ ~ running[dev])
    BY DEF Inv, BootPlace, BootTemp, PoweredPoints, CutPoints, Booting
  <1>2. UNCHANGED <<running, enabled, at>>
    BY DEF BootTemp, eeprom, ram
  <1>3. CASE Fail /\ UNCHANGED relay
    BY <1>1, <1>2, <1>3, FailUnchangedInv
  <1>4. CASE relay' = [relay EXCEPT ![dev] = TRUE] /\ pc' = "power" /\ UNCHANGED local
    <2>1. UNCHANGED <<dev, caller>> /\ pc' \in PoweredPoints
      BY <1>4 DEF local, PoweredPoints
    <2> QED BY <1>1, <1>2, <1>4, <2>1, SwitchInv, Zenon
  <1> QED BY <1>3, <1>4 DEF BootTemp, Goto

LEMMA BootNCInv ==
    ASSUME Inv, NEW good, BootNC(good) PROVE Inv'
  <1>1. pc = "bootNC" /\ pc \in Booting /\ dev = NC
    BY DEF Inv, BootPlace, BootNC, Booting
  <1>2. UNCHANGED <<running, enabled, at>>
    BY DEF BootNC, eeprom, ram
  <1>3. CASE Fail /\ UNCHANGED relay
    BY <1>1, <1>2, <1>3, FailUnchangedInv
  <1>4. CASE /\ enabled[NC] /\ relay' = [relay EXCEPT ![NC] = TRUE]
             /\ pc' = "config" /\ UNCHANGED local
    <2>1. UNCHANGED <<dev, caller>> /\ pc' \in PoweredPoints
      BY <1>4 DEF local, PoweredPoints
    <2> QED BY <1>1, <1>2, <1>4, <2>1, SwitchInv, Zenon
  <1> QED BY <1>3, <1>4 DEF BootNC, Goto

\* A step that switches nothing, for a device that is on.
LEMMA StayInv ==
    ASSUME Inv, pc \in Booting, UNCHANGED <<relay, running, enabled, at, dev, caller>>,
           pc' \in PoweredPoints \ {"config"}, relay[dev], enabled[dev], dev # NC => ~ running[dev]
    PROVE  Inv'
  <1>1. relay' = [relay EXCEPT ![dev] = TRUE]
    <2>1. relay[dev] = TRUE
      BY DEF Inv, Places
    <2> QED BY <2>1 DEF Inv, Places
  <1> QED BY <1>1, SwitchInv, Zenon

LEMMA ConfigNCInv ==
    ASSUME Inv, NEW done, ConfigNC(done) PROVE Inv'
  <1>1. pc = "config" /\ pc \in Booting /\ dev = NC /\ enabled[dev] /\ relay[dev]
    BY DEF Inv, BootPlace, ConfigNC, Booting, PoweredPoints
  <1>2. UNCHANGED <<relay, running, enabled, at>>
    BY DEF ConfigNC, eeprom, ram
  <1>3. CASE Fail
    BY <1>1, <1>2, <1>3, FailUnchangedInv
  <1>4. CASE pc' = "power" /\ UNCHANGED local
    <2>1. UNCHANGED <<dev, caller>> /\ pc' \in PoweredPoints \ {"config"}
      BY <1>4 DEF local, PoweredPoints
    <2> QED BY <1>1, <1>2, <2>1, StayInv
  <1> QED BY <1>3, <1>4 DEF ConfigNC, Goto

\* Where the boot routine has switched the relay on
LEMMA PoweredFacts ==
    ASSUME Inv, pc \in PoweredPoints
    PROVE  pc \in Booting /\ enabled[dev] /\ relay[dev] /\ (dev # NC => ~ running[dev])
  BY DEF Inv, BootPlace, PoweredPoints, CutPoints, Booting

LEMMA PowerGoodInv ==
    ASSUME Inv, pc \in PoweredPoints, PowerGood, UNCHANGED <<relay, enabled, at>>
    PROVE  Inv'
  <1>1. CASE Succeed
    BY <1>1, SucceedInv
  <1>2. CASE pc' = "heartbeat" /\ UNCHANGED <<running, local>>
    <2>1. UNCHANGED <<running, dev, caller>> /\ pc' \in PoweredPoints \ {"config"}
      BY <1>2 DEF local, PoweredPoints
    <2> QED BY <2>1, PoweredFacts, StayInv
  <1> QED BY <1>1, <1>2 DEF PowerGood, Goto

\* The power is cut, for another try or for good.
LEMMA CutInv ==
    ASSUME Inv, pc \in PoweredPoints, relay' = [relay EXCEPT ![dev] = FALSE],
           pc' \in CutPoints, UNCHANGED <<running, enabled, at, dev, caller>>
    PROVE  Inv'
  BY PoweredFacts, SwitchInv, Zenon

LEMMA CheckPowerInv ==
    ASSUME Inv, NEW good, CheckPower(good) \/ CheckPowerAgain(good) PROVE Inv'
  <1>1. pc \in PoweredPoints /\ UNCHANGED <<enabled, at>>
    BY DEF CheckPower, CheckPowerAgain, PoweredPoints, eeprom
  <1>2. CASE PowerGood /\ UNCHANGED relay
    BY <1>1, <1>2, PowerGoodInv
  <1>3. CASE /\ relay' = [relay EXCEPT ![dev] = FALSE]
             /\ pc' \in {"powerCycle", "dead"} /\ UNCHANGED <<running, local>>
    <2>1. UNCHANGED <<running, dev, caller>> /\ pc' \in CutPoints
      BY <1>3 DEF local, CutPoints
    <2> QED BY <1>1, <1>3, <2>1, CutInv
  <1> QED BY <1>2, <1>3 DEF CheckPower, CheckPowerAgain, Goto

\* The power comes back after it was cut.
LEMMA CycleInv ==
    ASSUME Inv, PowerCycle \/ BeatCycle PROVE Inv'
  <1>1. /\ pc \in CutPoints \ {"dead"}
        /\ relay' = [relay EXCEPT ![dev] = TRUE]
        /\ pc' \in PoweredPoints \ {"config"}
        /\ UNCHANGED <<running, enabled, at, dev, caller>>
    BY DEF PowerCycle, BeatCycle, Goto, CutPoints, PoweredPoints, eeprom, ram, local
  <1>2. pc \in Booting /\ enabled[dev] /\ (dev # NC => ~ running[dev])
    BY <1>1 DEF Inv, BootPlace, CutPoints, PoweredPoints, Booting
  <1> QED BY <1>1, <1>2, SwitchInv, Zenon

LEMMA MarkDeadInv == ASSUME Inv, MarkDead PROVE Inv'
  <1>1. /\ pc \in Booting /\ ~ relay[dev] /\ (dev # NC => ~ running[dev])
    BY DEF Inv, BootPlace, MarkDead, CutPoints, Booting
  <1>2. /\ enabled' = [enabled EXCEPT ![dev] = FALSE] /\ Fail
        /\ UNCHANGED <<relay, running, at>>
    BY DEF MarkDead, ram
  <1>3. DeadUnpowered'
    BY <1>1, <1>2 DEF Inv, Places, DeadUnpowered
  <1>4. /\ relay' \in [Devices -> BOOLEAN] /\ running' \in [Devices -> BOOLEAN]
        /\ enabled' \in [Devices -> BOOLEAN]
    BY <1>2 DEF Inv, Places
  <1> QED BY <1>1, <1>2, <1>3, <1>4, FailInv

LEMMA CheckHeartbeatInv ==
    ASSUME Inv, NEW good, CheckHeartbeat(good) PROVE Inv'
  <1>1. pc \in PoweredPoints /\ UNCHANGED <<relay, enabled, at>>
    BY DEF CheckHeartbeat, PoweredPoints, eeprom
  <1>2. CASE Succeed
    BY <1>1, <1>2, SucceedInv
  <1>3. CASE pc' = "beat" /\ UNCHANGED <<running, dev, caller>>
    BY <1>1, <1>3, PoweredFacts, StayInv DEF PoweredPoints
  <1> QED BY <1>2, <1>3 DEF CheckHeartbeat, Goto

LEMMA BeatInv ==
    ASSUME Inv, NEW good, Beat(good) PROVE Inv'
  <1>1. pc = "beat" /\ pc \in PoweredPoints /\ UNCHANGED <<running, enabled, at, dev, caller>>
    BY DEF Beat, PoweredPoints, eeprom, ram
  <1>2. CASE UNCHANGED <<relay, pc>>
    BY <1>1, <1>2, PoweredFacts, StayInv
  <1>3. CASE relay' = [relay EXCEPT ![dev] = FALSE] /\ pc' = "beatCycle"
    BY <1>1, <1>3, CutInv DEF CutPoints
  <1> QED BY <1>2, <1>3 DEF Beat, Goto

LEMMA BeatEndInv == ASSUME Inv, BeatEnd PROVE Inv'
  <1>1. pc \in PoweredPoints /\ UNCHANGED <<enabled, at>>
    BY DEF BeatEnd, PoweredPoints, eeprom
  <1>2. CASE Succeed /\ UNCHANGED relay
    BY <1>1, <1>2, SucceedInv
  <1>3. CASE relay' = [relay EXCEPT ![dev] = FALSE] /\ Fail /\ UNCHANGED running
    <2>1. /\ relay' \in [Devices -> BOOLEAN] /\ running' \in [Devices -> BOOLEAN]
          /\ enabled' \in [Devices -> BOOLEAN] /\ ~ relay'[dev]
      BY <1>1, <1>3 DEF Inv, Places
    <2>2. \A d \in Devices \ {dev} : relay'[d] = relay[d] /\ running'[d] = running[d]
      BY <1>3 DEF Inv, Places
    <2>3. DeadUnpowered'
      BY <1>1, <2>1, <2>2 DEF Inv, DeadUnpowered
    <2> QED BY <1>1, <1>3, <2>1, <2>2, <2>3, PoweredFacts, FailInv
  <1> QED BY <1>2, <1>3 DEF BeatEnd

LEMMA BootInv == ASSUME Inv, Boot PROVE Inv'
  <1>1. CASE BootOff
    BY <1>1, BootOffInv
  <1>2. CASE PowerCycle \/ BeatCycle
    BY <1>2, CycleInv
  <1>3. CASE MarkDead
    BY <1>3, MarkDeadInv
  <1>4. CASE BeatEnd
    BY <1>4, BeatEndInv
  <1>5. ASSUME NEW good \in BOOLEAN, BootTemp(good) \/ BootNC(good) \/ ConfigNC(good)
        PROVE  Inv'
    BY <1>5, BootTempInv, BootNCInv, ConfigNCInv
  <1>6. ASSUME NEW good \in BOOLEAN,
               \/ CheckPower(good) \/ CheckPowerAgain(good)
               \/ CheckHeartbeat(good) \/ Beat(good)
        PROVE  Inv'
    BY <1>6, CheckPowerInv, CheckHeartbeatInv, BeatInv
  <1> QED BY <1>1, <1>2, <1>3, <1>4, <1>5, <1>6 DEF Boot
-----------------------------------------------------------------------------
(* setup and loop *)

LEMMA GiveUpInv == ASSUME Inv, GiveUp PROVE Inv'
  <1>1. /\ relay' = [d \in Devices |-> FALSE] /\ pc' = "asleep"
        /\ UNCHANGED <<running, enabled, at, dev, caller>>
    BY DEF GiveUp, Goto, ram, local
  <1>2. Places'
    BY <1>1 DEF Inv, Places
  <1>3. DeadUnpowered' /\ Watched' /\ BootPlace'
    BY <1>1 DEF DeadUnpowered, Watched, BootPlace, PoweredPoints, CutPoints
  <1> QED BY <1>2, <1>3 DEF Inv

\* The operating parameters are got and stored without switching anything, ...
LEMMA GetParamsKeeps ==
    ASSUME GetParams
    PROVE  UNCHANGED <<firstBoot, attempts, enabled, relay, ram, local>>
  <1>1. CASE GetParamsCore \/ GetParamsGNs
    BY <1>1 DEF GetParamsCore, GetParamsGNs, eeprom
  <1>2. CASE StoreParamsCore \/ StoreParamsGNs
    BY <1>2 DEF StoreParamsCore, StoreLimit, StorePresentSwitch, StoreParamsGNs
  <1> QED BY <1>1, <1>2 DEF GetParams

\* ... in steps that follow one another and end in the boot of the switch.
LEMMA GetParamsPlaces ==
    ASSUME GetParams, at \in 0 .. DeviceCount
    PROVE  /\ pc \in Storing \union {"params"}
           /\ pc' \in Storing \union {"setup", "hung"}
           /\ at' \in 0 .. DeviceCount
  <1> USE DeviceAssumption
  <1>1. CASE GetParamsCore
    BY <1>1 DEF GetParamsCore, Goto, Storing, LimitCells
  <1>2. CASE StoreParamsCore
    BY <1>2 DEF StoreParamsCore, StoreLimit, StorePresentSwitch, Goto, Storing, LimitCells
  <1>3. CASE GetParamsGNs
    BY <1>3 DEF GetParamsGNs, Goto, Storing, SW
  <1>4. CASE StoreParamsGNs
    BY <1>4 DEF StoreParamsGNs, Goto, Storing, SW
  <1> QED BY <1>1, <1>2, <1>3, <1>4 DEF GetParams

LEMMA SetupInv == ASSUME Inv, Setup PROVE Inv'
  <1> USE DeviceAssumption
  <1>0. at \in 0 .. DeviceCount /\ NC \in Devices /\ SW \in 0 .. DeviceCount
    BY DEF Inv, Places, NC, SW, Devices
  <1>1. CASE InitPrimary \/ ClearAttempts \/ BootFailed
    <2>1. /\ UNCHANGED <<relay, running, enabled, at, dev, caller>>
          /\ pc \notin Booting \union {"asleep"} /\ pc' \notin Booting
      BY <1>1 DEF InitPrimary, ClearAttempts, BootFailed, Goto, ram, local, Booting
    <2> QED BY <1>0, <2>1, ElsewhereInv
  <1>2. CASE SoftRestart
    BY <1>2, ResetInv DEF SoftRestart
  <1>3. CASE GiveUp
    BY <1>3, GiveUpInv
  <1>4. CASE GetParams
    <2>1. UNCHANGED <<relay, running, enabled, dev, caller>>
      BY <1>4, GetParamsKeeps DEF ram, local
    <2>2. pc \notin Booting \union {"asleep"} /\ pc' \notin Booting
      BY <1>0, <1>4, GetParamsPlaces DEF Storing, LimitCells, Booting
    <2>3. at' \in 0 .. DeviceCount
      BY <1>0, <1>4, GetParamsPlaces
    <2> QED BY <2>1, <2>2, <2>3, ElsewhereInv
  <1>5. CASE SetupDevice
    <2>1. UNCHANGED <<relay, running, enabled>> /\ pc \notin Booting \union {"asleep"}
      BY <1>5 DEF SetupDevice, eeprom, ram, Booting
    <2>2. CASE at < DeviceCount /\ CallBoot(at, "setup") /\ at' = at + 1
      <3>1. at \in Devices /\ at' \in 0 .. DeviceCount /\ "setup" \in Callers
        BY <1>0, <2>2 DEF Devices, Callers, Sequences
      <3> QED BY <2>1, <2>2, <3>1, CallBootInv
    <2>3. CASE pc' = "idle" /\ at' = 0 /\ UNCHANGED local
      <3>1. UNCHANGED <<dev, caller>> /\ pc' \notin Booting /\ at' \in 0 .. DeviceCount
        BY <2>3 DEF local, Booting
      <3> QED BY <2>1, <3>1, ElsewhereInv
    <2> QED BY <1>5, <2>2, <2>3 DEF SetupDevice, Goto
  <1>6. ASSUME NEW good \in BOOLEAN, BootSysMon(good) PROVE Inv'
    <2>1. /\ UNCHANGED <<relay, running, enabled, at>>
          /\ pc \notin Booting \union {"asleep"} /\ "params" \in Callers
      BY <1>6 DEF BootSysMon, eeprom, ram, Booting, Callers, Sequences
    <2>2. CASE CallBoot(NC, "params")
      BY <1>0, <2>1, <2>2, CallBootInv
    <2>3. CASE pc' = "bootFailed" /\ UNCHANGED local
      <3>1. UNCHANGED <<dev, caller>> /\ pc' \notin Booting
        BY <2>3 DEF local, Booting
      <3> QED BY <1>0, <2>1, <3>1, ElsewhereInv
    <2> QED BY <1>6, <2>2, <2>3 DEF BootSysMon, Goto
  <1> QED BY <1>1, <1>2, <1>3, <1>4, <1>5, <1>6 DEF Setup

\* The main loop switches nothing itself; what it calls comes back to it.
LEMMA LoopFacts ==
    ASSUME Inv, Loop
    PROVE  /\ UNCHANGED <<relay, running, enabled>> /\ pc \notin Booting \union {"asleep"}
           /\ at' \in 0 .. DeviceCount
           /\ \/ UNCHANGED local /\ (pc' = pc \/ pc' \in LoopPoints)
              \/ \E d \in Devices, return \in LoopCallers : CallBoot(d, return)
  <1> USE DeviceAssumption
  <1>0. at \in 0 .. DeviceCount
    BY DEF Inv, Places
  <1>1. UNCHANGED <<relay, running, enabled>> /\ pc \notin Booting \union {"asleep"}
    <2>1. CASE StartPass \/ CountDevice \/ ReactSysMon
      BY <2>1 DEF StartPass, CountDevice, ReactSysMon, eeprom, ram, Booting
    <2>2. CASE ReactDevice \/ ReactEnd
      BY <2>2 DEF ReactDevice, ReactEnd, eeprom, ram, Booting
    <2>3. CASE Request \/ RebootDue \/ RebootDevice
      BY <2>3 DEF Request, RebootDue, RebootDevice, eeprom, ram, Booting
    <2> QED BY SMTT(60), <2>1, <2>2, <2>3 DEF Loop
  <1>2. at' \in 0 .. DeviceCount
    <2>1. CASE StartPass \/ ReactSysMon \/ ReactEnd \/ Request \/ RebootDue
      <3>1. at' = 0 \/ at' = at
        BY <2>1 DEF StartPass, ReactSysMon, ReactEnd, Request, RebootDue
      <3> QED BY SMTT(60), <1>0, <3>1
    <2>2. CASE CountDevice \/ ReactDevice \/ RebootDevice
      <3>1. at' = 0 \/ (at < DeviceCount /\ at' = at + 1)
        BY <2>2 DEF CountDevice, ReactDevice, RebootDevice
      <3> QED BY SMTT(60), <1>0, <3>1
    <2> QED BY <2>1, <2>2 DEF Loop
  <1>3. \/ UNCHANGED local /\ (pc' = pc \/ pc' \in LoopPoints)
        \/ \E d \in Devices, return \in LoopCallers : CallBoot(d, return)
    <2>1. CASE StartPass \/ CountDevice \/ ReactSysMon \/ ReactEnd \/ RebootDue
      BY <2>1 DEF StartPass, CountDevice, ReactSysMon, ReactEnd, RebootDue, Goto, LoopPoints
    <2>2. CASE ReactDevice \/ RebootDevice
      <3>1. at < DeviceCount => at \in Devices
        BY <1>0 DEF Devices
      <3>2. {"react", "rebooting"} \subseteq LoopCallers
        BY DEF LoopCallers
      <3> QED BY <2>2, <3>1, <3>2 DEF ReactDevice, RebootDevice, Goto, LoopPoints
    <2>3. CASE Request
      BY <2>3 DEF Request, Goto, LoopPoints, LoopCallers
    <2> QED BY SMTT(60), <2>1, <2>2, <2>3 DEF Loop
  <1> QED BY <1>1, <1>2, <1>3

LEMMA LoopInv == ASSUME Inv, Loop PROVE Inv'
  <1>1. CASE UNCHANGED local /\ (pc' = pc \/ pc' \in LoopPoints)
    <2>1. UNCHANGED <<dev, caller>> /\ pc' \notin Booting
      BY <1>1, LoopFacts DEF local, Booting, LoopPoints
    <2> QED BY <2>1, LoopFacts, ElsewhereInv
  <1>2. CASE \E d \in Devices, return \in LoopCallers : CallBoot(d, return)
    <2>1. LoopCallers \subseteq Callers
      BY DEF LoopCallers, Callers, Sequences
    <2> QED BY <1>2, <2>1, LoopFacts, CallBootInv
  <1> QED BY <1>1, <1>2, LoopFacts

LEMMA StepInv == Inv /\ [Next]_vars => Inv'
  <1> SUFFICES ASSUME Inv, [Next]_vars PROVE Inv'
    OBVIOUS
  <1>1. CASE Boot
    BY <1>1, BootInv
  <1>2. CASE Setup
    BY <1>2, SetupInv
  <1>3. CASE Loop
    BY <1>3, LoopInv
  <1>4. CASE PowerFailure
    BY SMTT(60), <1>4, ResetInv DEF PowerFailure
  <1>5. CASE UNCHANGED vars
    BY <1>5 DEF vars, eeprom, ram, local, Inv, Places, DeadUnpowered, BootPlace, Watched
  <1> QED BY <1>1, <1>2, <1>3, <1>4, <1>5 DEF Next, Program

\* A device on record as dead is never supplied with power, whatever the
\* readings, the requests and the resets: check_power's two failures cut the
\* relay before the record is written, and every later boot reads the record
\* before it switches the relay on.
THEOREM DeadCorrect == Spec => []DeadUnpowered
  <1>1. Inv => DeadUnpowered
    BY DEF Inv
  <1> QED BY InitInv, StepInv, <1>1, PTL DEF Spec

\* Once the monitor is done with booting, a switch or guest node with power is
\* marked as running and one without is not: no early return of boot_switch and
\* boot_GN, and no reset in the middle of them, leaves the two apart.
THEOREM WatchedCorrect == Spec => []PoweredIsWatched
  BY InitInv, StepInv, InvWatches, PTL DEF Spec
-----------------------------------------------------------------------------
(* Power only to the devices that are there *)

\* before the node controller has said which devices there are, it alone has
\* been booted
Early ==
    \/ pc \in {"init", "clearAttempts", "bootSysMon", "params"} \union Storing
    \/ pc \in Booting /\ caller = "params"

PresentInv ==
    /\ present \in [Devices -> BOOLEAN]
    /\ present[NC]
    /\ PowersOnlyPresent
    /\ Early => \A d \in Devices \ {NC} : ~ relay[d]
    /\ pc \in Booting /\ caller = "params" => dev = NC
    /\ pc \in PoweredPoints \union CutPoints => present[dev]
    /\ pc = "presentGN" => at > SW

\* Every device is there at first, and none has power.
LEMMA PresentInit == Init => PresentInv
  BY SMTT(60), DeviceAssumption DEF Init, PresentInv, PowersOnlyPresent, Devices, NC, PoweredPoints, CutPoints,
     Booting

\* A boot routine goes on with its device, or returns; it powers a device only
\* past the look at the record.
LEMMA BootFacts ==
    ASSUME Inv, PresentInv, Boot
    PROVE  /\ pc \in Booting /\ present' = present
           /\ \A d \in Devices : relay'[d] => relay[d] \/ (d = dev /\ present[dev])
           /\ \/ pc' \in Booting /\ UNCHANGED <<dev, caller>>
                 /\ (pc' \in PoweredPoints \union CutPoints => present[dev])
              \/ pc' \in {"bootFailed", caller} /\ pc' \notin Booting
  <1> DEFINE Goal ==
        /\ pc \in Booting /\ present' = present
        /\ \A d \in Devices : relay'[d] => relay[d] \/ (d = dev /\ present[dev])
        /\ \/ pc' \in Booting /\ UNCHANGED <<dev, caller>>
              /\ (pc' \in PoweredPoints \union CutPoints => present[dev])
           \/ pc' \in {"bootFailed", caller} /\ pc' \notin Booting
  <1>0. /\ relay \in [Devices -> BOOLEAN] /\ dev \in Devices /\ caller \in Callers
        /\ present[NC] /\ (pc \in PoweredPoints \union CutPoints => present[dev])
    BY DEF Inv, Places, PresentInv
  <1>1. ASSUME Fail \/ Succeed PROVE pc' \in {"bootFailed", caller} /\ pc' \notin Booting
    BY <1>0, <1>1 DEF Fail, Succeed, Goto, Callers, Sequences, Booting
  <1>2. CASE BootOff
    BY <1>0, <1>1, <1>2 DEF BootOff, Goto, eeprom, local, Booting
  <1>3. ASSUME NEW good \in BOOLEAN, BootTemp(good) PROVE Goal
    BY <1>0, <1>1, <1>3 DEF BootTemp, Goto, eeprom, local, Booting, CutPoints
  <1>4. ASSUME NEW good \in BOOLEAN, BootNC(good) PROVE Goal
    <2>1. dev = NC
      BY <1>4 DEF BootNC, Inv, BootPlace
    <2> QED BY <1>0, <1>1, <1>4, <2>1 DEF BootNC, Goto, eeprom, local, Booting
  <1>5. ASSUME NEW good \in BOOLEAN, ConfigNC(good) PROVE Goal
    BY <1>0, <1>1, <1>5 DEF ConfigNC, Goto, eeprom, local, Booting, PoweredPoints
  <1>6. ASSUME NEW good \in BOOLEAN, CheckPower(good) PROVE Goal
    BY <1>0, <1>1, <1>6 DEF CheckPower, PowerGood, Goto, eeprom, local, Booting, PoweredPoints
  <1>7. ASSUME NEW good \in BOOLEAN, CheckPowerAgain(good) PROVE Goal
    BY <1>0, <1>1, <1>7 DEF CheckPowerAgain, PowerGood, Goto, eeprom, local, Booting, PoweredPoints
  <1>8. ASSUME NEW good \in BOOLEAN, CheckHeartbeat(good) PROVE Goal
    BY <1>0, <1>1, <1>8 DEF CheckHeartbeat, Goto, eeprom, local, Booting, PoweredPoints
  <1>9. ASSUME NEW good \in BOOLEAN, Beat(good) PROVE Goal
    BY <1>0, <1>9 DEF Beat, Goto, eeprom, local, Booting, PoweredPoints
  <1>10. CASE PowerCycle \/ BeatCycle
    BY <1>0, <1>10 DEF PowerCycle, BeatCycle, Goto, eeprom, local, Booting, CutPoints
  <1>11. CASE MarkDead
    BY <1>0, <1>1, <1>11 DEF MarkDead, Booting
  <1>12. CASE BeatEnd
    BY <1>0, <1>1, <1>12 DEF BeatEnd, eeprom, Booting
  <1> QED BY <1>2, <1>3, <1>4, <1>5, <1>6, <1>7, <1>8, <1>9, <1>10, <1>11, <1>12 DEF Boot

\* The boot routines keep PresentInv.
LEMMA BootPresent == ASSUME Inv, PresentInv, Boot PROVE PresentInv'
  <1>1. /\ present' \in [Devices -> BOOLEAN] /\ present'[NC] /\ PowersOnlyPresent'
    BY BootFacts DEF PresentInv, PowersOnlyPresent
  <1>2. Early' => caller = "params"
    BY BootFacts DEF Early, Inv, Places, Callers, Sequences, Booting, Storing, LimitCells
  <1>3. Early' => \A d \in Devices \ {NC} : ~ relay'[d]
    BY <1>2, BootFacts DEF PresentInv, Early
  <1>4. pc' \in Booting /\ caller' = "params" => dev' = NC
    BY BootFacts DEF PresentInv
  <1>5. pc' \in PoweredPoints \union CutPoints => present'[dev']
    BY BootFacts DEF PoweredPoints, CutPoints, Booting
  <1>6. pc' # "presentGN"
    BY BootFacts DEF Inv, Places, Callers, Sequences, Booting
  <1> QED BY <1>1, <1>3, <1>4, <1>5, <1>6 DEF PresentInv

\* A step that calls a boot routine, or none.
LEMMA CallPresent ==
    ASSUME PresentInv, UNCHANGED <<relay, present>>, NEW d \in Devices,
           NEW return \in Callers \ {"params"}, CallBoot(d, return)
    PROVE  PresentInv'
  <1>1. caller' = return /\ pc' \in {"bootNC", "bootOff"}
    BY DEF CallBoot, Goto
  <1>2. ~ Early'
    BY <1>1 DEF Early, Storing, LimitCells
  <1> QED BY <1>1, <1>2 DEF PresentInv, PowersOnlyPresent, PoweredPoints, CutPoints

LEMMA ElsewherePresent ==
    ASSUME PresentInv, UNCHANGED <<relay, present>>, pc' \notin Booting \union {"presentGN"},
           Early' => Early
    PROVE  PresentInv'
  BY DEF PresentInv, PowersOnlyPresent, PoweredPoints, CutPoints, Booting

\* With all relays off nothing can be wrong.
LEMMA UnpoweredPresent ==
    ASSUME PresentInv, present' = present, relay' = [d \in Devices |-> FALSE],
           pc' \in {"init", "asleep"}
    PROVE  PresentInv'
  BY DEF PresentInv, PowersOnlyPresent, PoweredPoints, CutPoints, Booting

\* The record of the devices is rewritten while the node controller alone can
\* have power, and the node controller is not in it.
LEMMA RecordPresent ==
    ASSUME PresentInv, Early, UNCHANGED relay, present' \in [Devices -> BOOLEAN], present'[NC],
           pc' \notin Booting, pc' = "presentGN" => at' > SW
    PROVE  PresentInv'
  BY DEF PresentInv, PowersOnlyPresent, PoweredPoints, CutPoints, Booting

\* What is stored says of the switch and the guest nodes whether they are there;
\* the guest nodes are the devices that follow the switch.
LEMMA GetParamsPresent ==
    ASSUME GetParams, at \in 0 .. DeviceCount, PresentInv
    PROVE  /\ present' \in [Devices -> BOOLEAN] /\ present'[NC]
           /\ pc' = "presentGN" => at' > SW
  <1> USE DeviceAssumption
  <1> DEFINE Recorded == present' \in [Devices -> BOOLEAN] /\ present'[NC]
  <1>0. present \in [Devices -> BOOLEAN] /\ present[NC] /\ (pc = "presentGN" => at > SW)
    BY DEF PresentInv
  <1>1. CASE GetParamsCore \/ GetParamsGNs
    BY <1>0, <1>1 DEF GetParamsCore, GetParamsGNs, Goto, eeprom, SW
  <1>2. ASSUME NEW d \in Devices \ {NC}, NEW there \in BOOLEAN,
               present' = [present EXCEPT ![d] = there]
        PROVE  Recorded
    BY <1>0, <1>2
  <1>3. CASE StoreParamsCore
    <2>1. SW \in Devices \ {NC}
      BY DEF SW, NC, Devices
    <2>2. Recorded
      BY <1>0, <1>2, <1>3, <2>1 DEF StoreParamsCore, StoreLimit, StorePresentSwitch
    <2>3. pc' # "presentGN"
      BY <1>3 DEF StoreParamsCore, StoreLimit, StorePresentSwitch, Goto
    <2> QED BY <2>2, <2>3
  <1>4. CASE StoreParamsGNs
    <2>1. at < DeviceCount => at \in Devices \ {NC}
      BY <1>0, <1>4 DEF StoreParamsGNs, Devices, NC, SW
    <2>2. Recorded
      BY <1>0, <1>2, <1>4, <2>1 DEF StoreParamsGNs
    <2>3. pc' = "presentGN" => at' > SW
      BY <1>0, <1>4 DEF StoreParamsGNs, Goto, SW
    <2> QED BY <2>2, <2>3
  <1> QED BY <1>1, <1>3, <1>4 DEF GetParams

LEMMA SetupPresent == ASSUME Inv, PresentInv, Setup PROVE PresentInv'
  <1> USE DeviceAssumption
  <1>0. NC \in Devices /\ SW \in Devices /\ NC # SW /\ present \in [Devices -> BOOLEAN] /\ present[NC]
    BY DEF NC, SW, Devices, PresentInv
  <1>1. CASE InitPrimary
    <2>1. Early /\ UNCHANGED relay /\ pc' \notin Booting \union {"presentGN"}
      BY <1>1 DEF InitPrimary, Goto, Early, Booting
    <2>2. present' \in [Devices -> BOOLEAN] /\ present'[NC]
      BY ZenonT(60), <1>0, <1>1 DEF InitPrimary
    <2> QED BY <2>1, <2>2, RecordPresent
  <1>2. CASE ClearAttempts \/ BootFailed
    BY <1>2, ElsewherePresent DEF ClearAttempts, BootFailed, Goto, Early, Booting,
       Storing, LimitCells
  <1>3. CASE SoftRestart \/ GiveUp
    BY <1>3, UnpoweredPresent DEF SoftRestart, Reset, GiveUp, Goto, eeprom
  <1>4. CASE GetParams
    <2>1. at \in 0 .. DeviceCount
      BY DEF Inv, Places
    <2>2. Early /\ UNCHANGED relay /\ pc' \notin Booting
      BY <1>4, <2>1, GetParamsKeeps, GetParamsPlaces DEF Early, Storing, LimitCells, Booting
    <2> QED BY <1>4, <2>1, <2>2, GetParamsPresent, RecordPresent
  <1>5. CASE SetupDevice
    <2>1. CASE at < DeviceCount
      <3>1. at \in Devices /\ "setup" \in Callers \ {"params"}
        BY <2>1 DEF Inv, Places, Devices, Callers, Sequences
      <3>2. CallBoot(at, "setup") /\ UNCHANGED <<relay, present>>
        BY <1>5, <2>1 DEF SetupDevice, eeprom
      <3> QED BY <3>1, <3>2, CallPresent
    <2>2. CASE ~ (at < DeviceCount)
      BY <1>5, <2>2, ElsewherePresent DEF SetupDevice, eeprom, Goto, Early, Booting, Storing, LimitCells
    <2> QED BY <2>1, <2>2
  <1>6. ASSUME NEW good \in BOOLEAN, BootSysMon(good) PROVE PresentInv'
    <2>1. Early /\ UNCHANGED <<relay, present>>
      BY <1>6 DEF BootSysMon, eeprom, Early
    <2>2. CASE good
      <3>1. dev' = NC /\ pc' = "bootNC"
        BY <1>6, <2>2 DEF BootSysMon, CallBoot, Goto
      <3> QED BY <2>1, <3>1 DEF PresentInv, PowersOnlyPresent, PoweredPoints, CutPoints
    <2>3. CASE ~ good
      BY <1>6, <2>1, <2>3, ElsewherePresent DEF BootSysMon, Goto, Booting
    <2> QED BY <2>2, <2>3
  <1> QED BY <1>1, <1>2, <1>3, <1>4, <1>5, <1>6 DEF Setup

LEMMA LoopPresent == ASSUME Inv, PresentInv, Loop PROVE PresentInv'
  <1>0. present' = present /\ UNCHANGED relay /\ pc \notin Booting \union {"presentGN"}
    BY ZenonT(60), LoopFacts DEF Loop, StartPass, CountDevice, ReactSysMon, ReactDevice, ReactEnd, Request,
       RebootDue, RebootDevice, eeprom
  <1>1. CASE UNCHANGED local /\ (pc' = pc \/ pc' \in LoopPoints)
    <2>1. pc' \in LoopPoints => ~ Early' /\ pc' \notin Booting \union {"presentGN"}
      BY DEF LoopPoints, Early, Booting, Storing, LimitCells
    <2>2. pc' = pc => (Early' => Early)
      BY <1>1 DEF Early, local
    <2> QED BY <1>0, <1>1, <2>1, <2>2, ElsewherePresent
  <1>2. CASE \E d \in Devices, return \in LoopCallers : CallBoot(d, return)
    <2>1. LoopCallers \subseteq Callers \ {"params"}
      BY DEF LoopCallers, Callers, Sequences
    <2> QED BY <1>0, <1>2, <2>1, CallPresent
  <1> QED BY SMTT(60), <1>1, <1>2, LoopFacts

LEMMA PresentStep == Inv /\ PresentInv /\ [Next]_vars => PresentInv'
  <1> SUFFICES ASSUME Inv, PresentInv, [Next]_vars PROVE PresentInv'
    OBVIOUS
  <1>1. CASE Boot
    BY <1>1, BootPresent
  <1>2. CASE Setup
    BY <1>2, SetupPresent
  <1>3. CASE Loop
    BY <1>3, LoopPresent
  <1>4. CASE Reset
    BY <1>4, UnpoweredPresent DEF Reset, Goto, eeprom
  <1>5. CASE UNCHANGED vars
    BY <1>5 DEF PresentInv, PowersOnlyPresent, Early, vars, eeprom, ram, local
  <1> QED BY <1>1, <1>2, <1>3, <1>4, <1>5 DEF Next, Program, PowerFailure

\* A device that the node controller did not report is never supplied with
\* power: boot_switch and boot_GN look at E_*_PRESENT, and the record is written
\* before any of them can have been called.
THEOREM PresentCorrect == Spec => []PowersOnlyPresent
  <1>1. PresentInv => PowersOnlyPresent
    BY SMTT(60) DEF PresentInv
  <1> QED BY InitInv, StepInv, PresentInit, PresentStep, <1>1, PTL DEF Spec
-----------------------------------------------------------------------------
(* Types.  Places and PresentInv type the relays and the records of the     *)
(* devices; the rest is the control, the operating parameters and the       *)
(* counters.                                                                *)

Kinds ==
    /\ firstBoot \in BOOLEAN
    /\ attempts \in 0 .. ByteSize - 1
    /\ limits \in Limits
    /\ rebootCount \in Nat
    /\ tries \in Nat
    /\ heard \in BOOLEAN
    /\ pc \in Points

Counted ==
    /\ DOMAIN counts = Devices \union {SysMon}
    /\ \A d \in DOMAIN counts : counts[d] \in [Checks[d] -> Nat]

LEMMA TypeParts == Inv /\ PresentInv /\ Kinds /\ Counted => TypeOK
  BY DEF Inv, Places, PresentInv, Kinds, Counted, TypeOK, Callers

LEMMA NoCountsCounted == ASSUME counts' = NoCounts PROVE Counted'
  BY DEF NoCounts, Counted

\* A device's counters are written as a whole.
LEMMA WriteCounted ==
    ASSUME Counted, NEW d \in Devices \union {SysMon}, NEW c \in [Checks[d] -> Nat],
           counts' = [counts EXCEPT ![d] = c]
    PROVE  Counted'
  BY DEF Counted

LEMMA CountType ==
    ASSUME Counted, NEW d \in Devices \union {SysMon}, NEW bad
    PROVE  Count(d, bad) \in [Checks[d] -> Nat]
  BY DEF Counted, Count

LEMMA ClearedCounted ==
    ASSUME Counted, NEW d \in Devices \union {SysMon}, counts' = Cleared(d)
    PROVE  Counted'
  <1>1. [k \in Checks[d] |-> 0] \in [Checks[d] -> Nat]
    OBVIOUS
  <1> QED BY ZenonT(60), <1>1, WriteCounted DEF Cleared

\* Only the main loop counts.
LEMMA CountedStep == Inv /\ Counted /\ [Next]_vars => Counted'
  <1> SUFFICES ASSUME Inv, Counted, [Next]_vars PROVE Counted'
    OBVIOUS
  <1>0. SysMon \in Devices \union {SysMon} /\ (at < DeviceCount => at \in Devices \union {SysMon})
    BY DeviceAssumption DEF Inv, Places, Devices
  <1>1. CASE counts' = counts
    BY <1>1 DEF Counted
  <1>2. CASE Reset
    BY <1>2, NoCountsCounted DEF Reset
  <1>3. CASE Boot
    BY <1>1, <1>3 DEF Boot, BootOff, PowerCycle, MarkDead, BeatCycle, BeatEnd, BootTemp, BootNC,
       ConfigNC, CheckPower, CheckPowerAgain, CheckHeartbeat, Beat, ram
  <1>4. CASE Setup
    BY ZenonT(60), <1>1, <1>2, <1>4, GetParamsKeeps DEF Setup, InitPrimary, ClearAttempts, BootFailed,
       SoftRestart, GiveUp, SetupDevice, BootSysMon, ram
  <1>5. CASE StartPass
    BY ZenonT(60), <1>0, <1>5, CountType, WriteCounted DEF StartPass
  <1>6. CASE CountDevice
    BY <1>0, <1>1, <1>6, CountType, WriteCounted DEF CountDevice
  <1>7. CASE ReactSysMon
    BY <1>0, <1>1, <1>7, ClearedCounted DEF ReactSysMon
  <1>8. CASE ReactDevice
    BY <1>0, <1>1, <1>8, ClearedCounted DEF ReactDevice
  <1>9. CASE ReactEnd \/ Request \/ RebootDue \/ RebootDevice
    BY <1>1, <1>9 DEF ReactEnd, Request, RebootDue, RebootDevice, ram
  <1>10. CASE UNCHANGED vars
    BY <1>1, <1>10 DEF vars, ram
  <1> QED BY <1>2, <1>3, <1>4, <1>5, <1>6, <1>7, <1>8, <1>9, <1>10 DEF Next, Program, PowerFailure, Loop

\* The boot routines count their attempts and nothing else.
LEMMA BootKinds == ASSUME Inv, PresentInv, Kinds, Boot PROVE Kinds'
  <1>1. UNCHANGED <<firstBoot, attempts, limits, rebootCount>>
    <2>1. CASE BootOff \/ PowerCycle \/ MarkDead \/ BeatCycle \/ BeatEnd
      BY <2>1 DEF BootOff, PowerCycle, MarkDead, BeatCycle, BeatEnd, ram, eeprom
    <2>2. ASSUME NEW good \in BOOLEAN, BootTemp(good) \/ BootNC(good) \/ ConfigNC(good)
          PROVE  UNCHANGED <<firstBoot, attempts, limits, rebootCount>>
      BY <2>2 DEF BootTemp, BootNC, ConfigNC, ram, eeprom
    <2>3. ASSUME NEW good \in BOOLEAN, CheckPower(good) \/ CheckPowerAgain(good)
          PROVE  UNCHANGED <<firstBoot, attempts, limits, rebootCount>>
      BY <2>3 DEF CheckPower, CheckPowerAgain, eeprom
    <2>4. ASSUME NEW good \in BOOLEAN, CheckHeartbeat(good) \/ Beat(good)
          PROVE  UNCHANGED <<firstBoot, attempts, limits, rebootCount>>
      BY <2>4 DEF CheckHeartbeat, Beat, ram, eeprom
    <2> QED BY Zenon, <2>1, <2>2, <2>3, <2>4 DEF Boot
  <1>2. pc' \in Points
    BY BootFacts DEF Inv, Places, Points, Callers
  <1>3. ASSUME Fail \/ Succeed PROVE tries' = 0 /\ heard' = FALSE
    BY <1>3, Zenon DEF Fail, Succeed, Forget
  <1>4. tries' \in {0, 1, tries, tries + 1}
    BY <1>3, ZenonT(60) DEF Boot, BootOff, PowerCycle, MarkDead, BeatCycle, BeatEnd, BootTemp, BootNC, PowerGood,
       ConfigNC, CheckPower, CheckPowerAgain, CheckHeartbeat, Beat, local
  <1>5. heard' \in {FALSE, TRUE, heard}
    BY <1>3, ZenonT(60) DEF Boot, BootOff, PowerCycle, MarkDead, BeatCycle, BeatEnd, BootTemp, BootNC, PowerGood,
       ConfigNC, CheckPower, CheckPowerAgain, CheckHeartbeat, Beat, local
  <1>6. heard' \in BOOLEAN
    BY <1>5, Zenon DEF Kinds
  <1>7. tries' \in Nat
    BY <1>4 DEF Kinds
  <1> QED BY SMTT(60), <1>1, <1>2, <1>6, <1>7 DEF Kinds

LEMMA SetupKinds == ASSUME Inv, Kinds, Setup PROVE Kinds'
  <1> USE LimitAssumption
  <1>0. ByteSize - 1 \in 0 .. ByteSize - 1 /\ 0 \in 0 .. ByteSize - 1
    OBVIOUS
  <1>1. CASE InitPrimary \/ ClearAttempts
    BY ZenonT(60), <1>0, <1>1 DEF InitPrimary, ClearAttempts, Goto, ram, local, Kinds, Points
  <1>2. CASE BootFailed
    <2>1. (attempts + 1) % ByteSize \in 0 .. ByteSize - 1
      BY DEF Kinds
    <2> QED BY <1>2, <2>1 DEF BootFailed, Goto, ram, local, Kinds, Points
  <1>3. CASE SoftRestart
    BY ZenonT(60), <1>3 DEF SoftRestart, Reset, Forget, Goto, eeprom, Kinds, Points
  <1>4. CASE GiveUp
    BY <1>0, <1>4 DEF GiveUp, Goto, ram, local, Kinds, Points
  <1>5. CASE GetParams
    <2>1. limits' \in Limits
      <3>1. CASE limits' = limits
        BY <3>1 DEF Kinds
      <3>2. ASSUME NEW cell \in LimitCells, NEW next, StoreLimit(cell, next) PROVE limits' \in Limits
        <4>1. PICK l \in Limits : limits' = [limits EXCEPT ![cell] = l[cell]]
          BY <3>2, Zenon DEF StoreLimit
        <4>2. limits \in Limits
          BY DEF Kinds
        <4>3. [limits EXCEPT ![cell] = l[cell]] \in Limits
          BY <4>2, Zenon
        <4> QED BY <4>1, <4>3, Zenon
      <3>3. CASE GetParamsCore \/ GetParamsGNs \/ StorePresentSwitch \/ StoreParamsGNs
        BY <3>1, <3>3 DEF GetParamsCore, GetParamsGNs, StorePresentSwitch, StoreParamsGNs, eeprom
      <3>4. CASE StoreParamsCore
        BY <3>2, <3>3, <3>4, Zenon DEF StoreParamsCore, LimitCells
      <3> QED BY <1>5, <3>3, <3>4 DEF GetParams
    <2>2. pc' \in Points
      BY <1>5, GetParamsPlaces DEF Inv, Places, Points, Sequences
    <2>3. UNCHANGED <<firstBoot, attempts, rebootCount, tries, heard>>
      BY <1>5, GetParamsKeeps DEF ram, local
    <2> QED BY ZenonT(60), <2>1, <2>2, <2>3 DEF Kinds
  <1>6. CASE SetupDevice
    BY <1>6 DEF SetupDevice, CallBoot, Goto, eeprom, ram, local, Kinds, Points, Booting
  <1>7. ASSUME NEW good \in BOOLEAN, BootSysMon(good) PROVE Kinds'
    BY <1>7 DEF BootSysMon, CallBoot, Goto, eeprom, ram, local, Kinds, Points, Booting
  <1> QED BY <1>1, <1>2, <1>3, <1>4, <1>5, <1>6, <1>7 DEF Setup

LEMMA LoopKinds == ASSUME Inv, Kinds, Loop PROVE Kinds'
  <1>1. UNCHANGED <<firstBoot, attempts, limits>> /\ rebootCount' \in Nat
    <2>0. rebootCount \in Nat
      BY DEF Kinds
    <2>1. CASE StartPass \/ CountDevice \/ ReactSysMon
      BY <2>0, <2>1 DEF StartPass, CountDevice, ReactSysMon, eeprom
    <2>2. CASE ReactDevice \/ ReactEnd \/ Request
      BY <2>0, <2>2 DEF ReactDevice, ReactEnd, Request, eeprom, ram
    <2>3. CASE RebootDue \/ RebootDevice
      BY <2>0, <2>3 DEF RebootDue, RebootDevice, eeprom, ram
    <2> QED BY Zenon, <2>1, <2>2, <2>3 DEF Loop
  <1>2. UNCHANGED <<tries, heard>>
    BY LoopFacts DEF local, CallBoot
  <1>3. pc' \in Points
    BY LoopFacts DEF CallBoot, Goto, Points, Booting, Sequences, LoopPoints, Kinds
  <1> QED BY SMTT(60), <1>1, <1>2, <1>3 DEF Kinds

LEMMA KindsStep == Inv /\ PresentInv /\ Kinds /\ [Next]_vars => Kinds'
  <1> SUFFICES ASSUME Inv, PresentInv, Kinds, [Next]_vars PROVE Kinds'
    OBVIOUS
  <1>1. CASE Reset
    BY ZenonT(60), <1>1 DEF Reset, Forget, Goto, eeprom, Kinds, Points
  <1>2. CASE UNCHANGED vars
    BY <1>2 DEF vars, eeprom, ram, local, Kinds
  <1> QED BY <1>1, <1>2, BootKinds, SetupKinds, LoopKinds DEF Next, Program, PowerFailure

\* The types of all variables.  What has to be argued is that every boot
\* routine returns to a place its caller left, that the attempts stay a byte,
\* and that the counters of a device are those of its own readings.
THEOREM TypeCorrect == Spec => []TypeOK
  <1>1. Init => Kinds /\ Counted
    <2> SUFFICES ASSUME Init PROVE Kinds /\ Counted
      OBVIOUS
    <2>1. Counted
      BY DEF Init, Counted, NoCounts
    <2>2. attempts \in 0 .. ByteSize - 1 /\ limits \in Limits /\ rebootCount \in Nat /\ tries \in Nat
      BY LimitAssumption DEF Init
    <2>3. firstBoot \in BOOLEAN /\ heard \in BOOLEAN /\ pc \in Points
      BY Zenon DEF Init, Points
    <2> QED BY <2>1, <2>2, <2>3 DEF Kinds
  <1> QED BY <1>1, InitInv, StepInv, PresentInit, PresentStep, KindsStep, CountedStep, TypeParts, PTL
          DEF Spec
=============================================================================
