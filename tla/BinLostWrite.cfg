SPECIFICATION Spec
CONSTANTS
    Procs = {p1}
    p1 = p1
    Systems = {"unix"}
    MaxTries = 2
    BufLen = 4
    PathBuf <- Buffers
    Commands <- FewCommands
    OutLens <- ShortPath
    Faults <- WriteFault
    Absent = Absent
    Before = Before
    Stale = Stale
INVARIANT SuccessIsComplete
