SPECIFICATION FairSpec
CONSTANTS
    Procs = {p1, p2}
    p1 = p1
    p2 = p2
    Systems = {"unix"}
    MaxTries = 2
    BufLen = 4
    PathBuf <- Buffers
    Commands <- ManyCommands
    OutLens <- ShortPath
    Faults <- OnlyCollisions
    Absent = Absent
    Before = Before
    Stale = Stale
INVARIANT GiveUpOnlyWhenCrowded
PROPERTY KeepsPromise
PROPERTY EveryStepCounts
PROPERTY EveryRunExits
