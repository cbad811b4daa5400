SPECIFICATION Spec
CONSTANTS
    Reg <- MCReg
    Slot <- MCSlot
    Capacity = 3
INVARIANTS
    ConsumedOnce
PROPERTIES
    AliasIndependence
\* An ended invocation has no further transition.
CHECK_DEADLOCK FALSE
