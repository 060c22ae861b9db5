SPECIFICATION FairSpec
CONSTANTS
    Guilds = {g1, g2}
    Urls = {u1}
    NoUrl = none
    Users = {a}
    Capacity = 1
    Tolerated = 1
    MaxSent = 3
    MaxVotes = 2
INVARIANT TypeOK
INVARIANT DislikesAreVotes
PROPERTY LogIsJournal
PROPERTY WorkerDrains
CHECK_DEADLOCK FALSE
