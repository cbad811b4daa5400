SPECIFICATION MCSpec
CONSTANTS
    Programs <- MCPrograms
    Units <- MCUnits
    Attributes <- UnitAttributes
    Builds <- Kernels
    MAX_INSNS = 12
    Immediate <- MCImmediate
INVARIANTS
    FactsCoverRun
    NoUndefinedUse
    GateArguments
    LoaderVerdict
    ImageLinked
    NothingLeftBehind
PROPERTIES
    Settled
\* A pass that has decided and a loader at its end have nothing more to do.
CHECK_DEADLOCK FALSE
