CONSTANTS
    Argvs <- ReloadArgvs
    Files <- MCFiles
    MaxCommPrefix = 4
    SeqMod = 2
    TicksPerSec = 1
    MaxEdits = 1
    MaxLate = 2
    MaxAge = 6
SPECIFICATION Spec
INVARIANT CommandLineWins
