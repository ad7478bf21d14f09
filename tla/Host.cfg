SPECIFICATION FairSpec
CONSTANTS
    Procs = {p1, p2}
    p1 = p1
    p2 = p2
    Capacity = 2
    Commands <- MixedCommands
    Faults <- AllFaults
    Absent = Absent
    Before = Before
    Stale = Stale
INVARIANT TypeOK
INVARIANT AloneIsWhole
INVARIANT AloneKeepsTmp
INVARIANT GapExplained
PROPERTY PublishedIsStable
PROPERTY EveryStepCounts
PROPERTY EveryRunEnds
