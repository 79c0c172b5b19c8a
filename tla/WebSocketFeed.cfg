SPECIFICATION FairSpec
CONSTANTS
    PingInterval = 4
    ReconnectDelay = 1
    MaxAttempts = 9
    Late = 1
    RoundTrip = 1
    MaxInbox = 2
INVARIANTS
    TypeOK
    DeadPeerIsNoticed
    DisconnectIsTold
    AttemptsAreBounded
PROPERTIES
    PromptPeerIsKept
    RunGoesOn
CHECK_DEADLOCK FALSE
