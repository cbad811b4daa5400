SPECIFICATION FairSpec
CONSTANTS
    c1 = c1
    c2 = c2
    CPU <- MCCPU
    Operation <- MCOperation
    Scalar <- MCScalar
    Result <- MCResult
    MaxCalls = 2
PROPERTIES
    Completes
