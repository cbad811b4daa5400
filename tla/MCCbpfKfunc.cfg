SPECIFICATION Spec
CONSTANTS
    NoCPU = NoCPU
    c1 = c1
    c2 = c2
    m1 = m1
    m2 = m2
    CPU <- MCCPU
    Memory <- MCMemory
    MaxAcquisitions = 2
    MaxReads = 1
    MaxSnapshots = 2
SYMMETRY Symmetry
INVARIANTS
    HandlesSound
    DeltaExact
    UnloadLeavesNothing
CHECK_DEADLOCK FALSE
