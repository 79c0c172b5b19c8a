SPECIFICATION Spec
CONSTANTS
    Orders = {o1, o2}
    Quantity = 2
    Timeout = 1
    MaxStream = 2
    MaxLosses = 0
INVARIANTS
    OpenOrdersAreTracked
CHECK_DEADLOCK FALSE
