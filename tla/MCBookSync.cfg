SPECIFICATION FairSpec
CONSTANTS
    Bid = Bid
    Ask = Ask
    Levels <- MCLevels
    Updates <- MCUpdates
    InitialLevels <- MCEmptyMarket
    MaxBufferCapacity = 2
    RestLag = 0
    MaxSequence = 3
    MaxGeneration = 2
    MaxTasks = 2
INVARIANTS
    TypeOK
    LiveBookIsExact
    NothingDeliveredIsLost
    BaselineIsClean
PROPERTIES
    OpenStreamGoesLive
    ImplementsBookFeed
CHECK_DEADLOCK FALSE
