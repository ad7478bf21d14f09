SPECIFICATION FairSpec
CONSTANTS
    Procs = {p1}
    p1 = p1
    Systems = {"unix"}
    MaxTries = 2
    BufLen = 4
    PathBuf <- Buffers
    Commands <- ShortCommands
    OutLens <- LongPaths
    Faults <- NoFault
    Absent = Absent
    Before = Before
    Stale = Stale
PROPERTY EveryRunExits
