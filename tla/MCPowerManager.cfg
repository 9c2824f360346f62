SPECIFICATION Spec
CONSTANTS
    PortCount = 2
    WordSize = 1
    ManagedLimit = 1
    RetryCycle = 4
    HeartbeatTimeout = 0
    UnmanagedTimeout = 0
    StartInterval = 0
    StopTimeout = 0
    StopTimeouts = {0}
    ResetTimeouts = {0}
    MaxTime = 1
    TickPoints = {"turnOn"}
    Commands = {"ping", "start", "stop", "reset", "bs", "enable", "disable", "eereset"}
    Faults = {"power", "watchdog"}
    Silent = {0}
INVARIANTS
    TypeOK
    OneIncomplete
    WriteAhead
    DisabledUnpowered
    SuspectsDisabled
    GuestOverrideSelected
PROPERTIES
    NeverPowersDisabled
    NoStartOnceResetting
    ImplementsJournal
