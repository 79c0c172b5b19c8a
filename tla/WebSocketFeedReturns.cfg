SPECIFICATION Spec
CONSTANTS
    PingInterval = 4
    ReconnectDelay = 1
    MaxAttempts = 3
    Late = 1
    RoundTrip = 1
    MaxInbox = 2
INVARIANTS
    ReturnsOnlyWhenExhausted
CHECK_DEADLOCK FALSE
