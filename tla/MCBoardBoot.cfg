SPECIFICATION FairBoardSpec
CONSTANTS
    PortCount = 3
    WordSize = 1
    ManagedLimit = 1
    RetryCycle = 4
    HeartbeatTimeout = 0
    UnmanagedTimeout = 0
    StartInterval = 0
    StopTimeout = 0
    StopTimeouts = {}
    ResetTimeouts = {}
    MaxTime = 1
    TickPoints = {"turnOn"}
    Commands = {"blf"}
    Faults = {"brownout", "watchdog"}
    Silent = {0, 1, 2}
    SensorCount = 3
    Attempts = 2
    MaxFaults = 2
    ByteSize = 4
    Hanging = {0, 2}
    Killers = {1, 2}
INVARIANTS
    HealthCounts
    FaultsBounded
    BlamesKillers
PROPERTIES
    KillersDisabled
