CONSTANTS
    Tables = {"threads", "processes"}
    Threads <- MCThreads
    Hash <- MCHash
    Track = 2
    GenMod = 4
    MaxStart = 2
    MaxTicks = 1
    Pids <- MCPids
    PidHash <- MCPidHash
    ProcTrack = 2
    MaxProcTicks = 2
    MaxReuses = 1
SPECIFICATION MCSpec
INVARIANTS ChargedToItself TableIsLastReading MeasuredFromLastReading
