SPECIFICATION MCSpec
CONSTANTS
    g1 = g1
    g2 = g2
    stray = stray
    l1 = l1
    Guilds <- TwoGuilds
    Stray = stray
    Levels <- HalfVolume
    Loaders <- OneLoader
    MaxCommands = 2
PROPERTY SettingsPersist
