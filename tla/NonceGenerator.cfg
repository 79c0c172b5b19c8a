SPECIFICATION NonceSpec
CONSTANTS
    Callers = {t1, t2, t3}
    MaxWall = 3
    MaxCounter = 4
    MaxRestarts = 2
PROPERTIES
    NoncesIncrease
    NoncesFollowTheClock
    RestartsKeepNoncesIncreasing
