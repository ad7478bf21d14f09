SPECIFICATION Spec
CONSTANTS
    Procs = {p1, p2}
    p1 = p1
    p2 = p2
    Systems = {"unix", "windows"}
    MaxTries = 2
    BufLen = 2
    PathBuf <- Buffers
    Commands <- AllCommands
    OutLens <- SomePaths
    Faults <- AllFaults
    Absent = Absent
    Before = Before
    Stale = Stale
INVARIANT TypeOK
INVARIANT OwnsTmp
INVARIANT OutIsPublished
INVARIANT SuccessPublishes
INVARIANT OutputIsMeaning
INVARIANT VerdictUpToGaps
INVARIANT LeftoversComeFromTheLoop
SYMMETRY Symmetry
