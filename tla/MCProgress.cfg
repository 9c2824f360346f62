SPECIFICATION FairSpec
CONSTANTS
    PortCount = 3
    WordSize = 4
    ManagedLimit = 3
    RetryCycle = 2
    HeartbeatTimeout = 2
    UnmanagedTimeout = 2
    StartInterval = 1
    StopTimeout = 1
    StopTimeouts = {}
    ResetTimeouts = {0}
    MaxTime = 3
    TickPoints = {"turnOn"}
    Commands = {}
    Faults = {}
    Silent = {0, 1, 2}
PROPERTIES
    StoppedStarts
    SilentTriesBothMedia
    SilentStopped
