SPECIFICATION Spec
CONSTANTS
    CBPF_CELLS = 2
    CBPF_REGS = 2
    CBPF_SPILLS = 1
    CBPF_MAX_INSNS = 5
    Operand <- MCOperand
    Immediate <- MCImmediate
    Layouts <- SecondViewExactOrNot
INVARIANTS
    HandlesResolve
    AuthorityMatchesReferences
    MetricsAgree
    FailureLeavesNothing
