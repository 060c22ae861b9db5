SPECIFICATION MCFairSpec
CONSTANTS
    g1 = g1
    g2 = g2
    stray = stray
    l1 = l1
    Guilds <- TwoGuilds
    Stray = stray
    Levels <- HalfVolume
    Loaders <- OneLoader
    MaxCommands = 2
CHECK_DEADLOCK FALSE
INVARIANTS
    TypeOK
PROPERTIES
    SavedRowsStay
    UntouchedRowsStay
    ProfileLostOnlyIfMade
    ShutdownEnds
