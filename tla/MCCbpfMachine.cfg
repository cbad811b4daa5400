SPECIFICATION FairSpec
CONSTANTS
    CBPF_CELLS = 2
    CBPF_REGS = 2
    CBPF_SPILLS = 1
    CBPF_MAX_INSNS = 6
    Operand <- MCOperand
    Immediate <- MCImmediate
INVARIANTS
    EventsFit
    AccountsAgree
    SettledResult
PROPERTIES
    ImplementsOwnership
    Terminates
