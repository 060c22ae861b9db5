SPECIFICATION MCSpec
CONSTANTS
    r1 = r1
    r2 = r2
    r3 = r3
    MaxQuiet = 4
    Requests <- ThreeRequests
    MaxCalls = 2
    Timeouts <- MaybeDisabled
    Exempt <- NotExempt
SYMMETRY Symmetry
CHECK_DEADLOCK FALSE
INVARIANTS
    TypeOK
    OneHandlerEach
PROPERTIES
    IdlePatience
