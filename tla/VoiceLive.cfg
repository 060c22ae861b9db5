SPECIFICATION MCFairSpec
CONSTANTS
    r1 = r1
    r2 = r2
    r3 = r3
    MaxQuiet = 4
    Requests <- TwoRequests
    MaxCalls = 2
    Timeouts <- NinetySeconds
    Exempt <- NotExempt
CHECK_DEADLOCK FALSE
PROPERTIES
    PlayedCallGetsHandlers
    IdleCallLeaves
