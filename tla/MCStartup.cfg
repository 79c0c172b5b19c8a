SPECIFICATION ProcessFairSpec
CONSTANTS
    Strategies = {s1, s2}
    BusCapacity = 1
    QueueCapacity = 2
    MaxPerEvent = 2
    MaxEvents = 2
    Settings <- MCSettings
INVARIANTS
    ProcessTypeOK
    OrdersAreAccountedFor
    TradesAsTheOperatorSays
PROPERTIES
    ImplementsOrderFates
    StrategiesKeepUp
    QueueIsServed
CHECK_DEADLOCK FALSE
