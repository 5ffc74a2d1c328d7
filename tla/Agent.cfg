CONSTANTS
    Argvs <- MCArgvs
    Files <- MCFiles
    MaxCommPrefix = 3
    SeqMod = 2
    TicksPerSec = 1
    MaxEdits = 1
    MaxLate = 2
    MaxAge = 6
SPECIFICATION FairSpec
INVARIANTS TypeOK NoStaleConfig OneOutput NoBurst
PROPERTIES ReloadHappens StopHappens
