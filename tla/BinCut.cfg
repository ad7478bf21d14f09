SPECIFICATION Spec
CONSTANTS
    Procs = {p1}
    p1 = p1
    Systems = {"unix"}
    MaxTries = 2
    BufLen = 4
    PathBuf <- Buffers
    Commands <- CutCommand
    OutLens <- ShortPath
    Faults <- NoFault
    Absent = Absent
    Before = Before
    Stale = Stale
INVARIANT VerdictIsLanguages
