CONSTANTS
    Tables = {"threads"}
    Threads <- MCThreads
    Hash <- MCHash
    Track = 3
    GenMod = 8
    MaxStart = 2
    MaxTicks = 1
    Pids <- MCPids
    PidHash <- MCPidHash
    ProcTrack = 3
    MaxProcTicks = 2
    MaxReuses = 1
SPECIFICATION MCSpec
INVARIANT KnownThreadsMeasured
