SPECIFICATION Spec
CONSTANTS
    Bid = Bid
    Ask = Ask
    Levels <- MCLevels
    Updates <- MCUpdates
    InitialLevels <- MCEmptyMarket
    MaxBufferCapacity = 2
    RestLag = 1
    MaxSequence = 3
    MaxGeneration = 2
    MaxTasks = 2
INVARIANT LiveBookIsExact
CHECK_DEADLOCK FALSE
