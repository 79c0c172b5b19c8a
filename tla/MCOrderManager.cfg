SPECIFICATION Spec
CONSTANTS
    Tasks = {t1, t2, t3}
    MaxOpenOrders = 1
    MaxPositionUsd = 1
    Notionals = {1, 2}
    Capacity = 3
    TokenUnit = 1
    FillRate = 1
    MaxTime = 1
SYMMETRY TaskSymmetry
INVARIANTS
    TypeOK
    OverrunIsBounded
    LateOrdersAreBounded
