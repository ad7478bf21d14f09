SPECIFICATION Spec
CONSTANTS
    Procs = {p1}
    p1 = p1
    Capacity = 2
    Commands <- OneCommand
    Faults <- NoFault
    Absent = Absent
    Before = Before
    Stale = Stale
INVARIANT NeverMissing
