SPECIFICATION Spec
CONSTANTS
    CBPF_CELLS = 2
    CBPF_REGS = 2
    CBPF_SPILLS = 1
    CBPF_MAX_INSNS = 4
    Operand <- MCOperand
    Immediate <- MCImmediate
    Layouts <- EveryViewExact
PROPERTIES
    ImplementsReference
