SPECIFICATION LifeSpec
CONSTANTS
    CPU = {c1, c2}
    p1 = p1
    p2 = p2
    p3 = p3
    Program <- MCProgram
    Link = {l1}
    NoProgram = NoProgram
    Faults <- MCFaults
SYMMETRY ProgramSymmetry
INVARIANTS
    OnlySoundGates
    FlaggedNeverHooked
    EntryNeedsContext
