SPECIFICATION MCSpec
CONSTANTS
    CBPF_CELLS = 2
    CBPF_REGS = 4
    CBPF_SPILLS = 2
    CBPF_MAX_INSNS = 64
    Operand <- MCOperand
    Immediate <- MCImmediate
    Layouts <- EveryViewExact
    Repeats = 32
    Attempts = 128
INVARIANTS
    PassIsEarned
    ProbesForCause
PROPERTIES
    AllEnd
\* Programs stop; that none does so before its end is AllEnd.
CHECK_DEADLOCK FALSE
