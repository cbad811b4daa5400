SPECIFICATION MCSpec
CONSTANTS
    m1 = m1
    m2 = m2
    Slot <- MCSlot
    Base <- MCBase
    Attr <- MCAttr
    HEADER = 8
    MANTISSA = 8
INVARIANTS
    ValueExactly
    AllOrNone
    NothingLeft
    GuestHonest
\* The guest ends, or waits for a host that never answers.
CHECK_DEADLOCK FALSE
