SPECIFICATION InventoryFairSpec
CONSTANTS
    o1 = o1
    o2 = o2
    btc = btc
    eth = eth
    Orders = {o1, o2}
    Quantity = 2
    Timeout = 1
    MaxStream = 2
    MaxLosses = 1
    Symbols = {btc, eth}
    SymbolOf <- MCSymbolOf
    SideOf <- MCSideOf
    Holdings <- MCHoldings
INVARIANTS
    InventoryTypeOK
    NothingIsCountedTwice
    SettledOrdersAreExact
    PositionsMatchTheAccount
PROPERTIES
    DeltasAreNotNegative
    LiveOrdersAreNotDroppedEarly
    MapIsFreed
CHECK_DEADLOCK FALSE
