SPECIFICATION FairSpec
CONSTANTS
    Guilds = {g1, g2}
    Urls = {u1}
    NoUrl = none
    Users = {a}
    Capacity = 1
    Tolerated = 1
    MaxSent = 3
    MaxVotes = 2
CHECK_DEADLOCK FALSE
INVARIANT DownvotedIsAvoided
