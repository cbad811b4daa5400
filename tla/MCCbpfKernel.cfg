SPECIFICATION Spec
CONSTANTS
    c1 = c1
    c2 = c2
    CPU <- MCCPU
    Operation <- MCOperation
    Scalar <- MCScalar
    Result <- MCResult
    MaxCalls = 3
SYMMETRY CPUSymmetry
INVARIANTS
    RefsConserved
    AccountsMatch
    VerdictHonest
PROPERTIES
    FailureIsTerminal
    ImplementsRights
