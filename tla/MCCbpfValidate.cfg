SPECIFICATION ScanSpec
CONSTANTS
    CBPF_CELLS = 2
    CBPF_REGS = 2
    CBPF_SPILLS = 1
    CBPF_MAX_INSNS = 3
    Operand <- MCOperand
    Immediate <- MCImmediate
    Programs <- MCPrograms
    NoPc = NoPc
INVARIANTS
    AcceptedIsSafe
    RejectedHasCause
\* A verdict ends the scan.
CHECK_DEADLOCK FALSE
