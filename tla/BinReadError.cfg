SPECIFICATION Spec
CONSTANTS
    Procs = {p1}
    p1 = p1
    Systems = {"windows"}
    MaxTries = 2
    BufLen = 4
    PathBuf <- Buffers
    Commands <- FewCommands
    OutLens <- ShortPath
    Faults <- ReadFault
    Absent = Absent
    Before = Before
    Stale = Stale
INVARIANT SuccessIsComplete
