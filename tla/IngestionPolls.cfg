SPECIFICATION FairSpec
CONSTANTS
    rss = rss
    election = election
    trump = trump
    Queries = {election}
    Rss = rss
    TtrssLimit = 1
    BlueskyLimit = 2
    MaxIds = 3
    MaxArticles = 2
    MaxPosts = 4
    MaxFaults = 1
    MaxCrashes = 1
CHECK_DEADLOCK FALSE
INVARIANTS
    SavedIsDelivered
    DuplicatesAreExplained
PROPERTY
    EventuallyIngested
