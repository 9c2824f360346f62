SPECIFICATION FairSpec
CONSTANTS
    Ports = {0, 2}
    WordSize = 1
    ManagedLimit = 1
    RetryCycle = 4
    HeartbeatTimeout = 0
    UnmanagedTimeout = 0
    StartInterval = 0
    StopTimeout = 0
    StopTimeouts = {0}
    MaxTime = 1
    Commands = {"start", "stop", "enable", "bs", "ping", "reset", "eereset"}
    Faults = {"power", "watchdog"}
    Silent = {0}
INVARIANTS
    TypeOK
    SilentStartedPowered
PROPERTIES
    SilentPowerCycled
    StopCutsPower
    OnlyEnableUndoesStop
    CutsOnlyStopped
