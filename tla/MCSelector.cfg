SPECIFICATION Spec
CONSTANTS
    PortCount = 3
    WordSize = 1
    ManagedLimit = 1
    RetryCycle = 4
    HeartbeatTimeout = 0
    UnmanagedTimeout = 0
    StartInterval = 0
    StopTimeout = 0
    StopTimeouts = {0}
    ResetTimeouts = {0}
    MaxTime = 1
    TickPoints = {}
    Commands = {"bs"}
    Faults = {}
    Silent = {}
INVARIANTS
    AllOverridesSelected
