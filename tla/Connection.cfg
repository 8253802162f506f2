SPECIFICATION FairSpec
CONSTANTS
    MaxAttempts = 3
    RetryAttempt = 2
INVARIANTS
    PingerAlive
    NoLeakedConnection
    StoppedStaysClosed
PROPERTIES
    RetriesEnd
    PingersEnd
CHECK_DEADLOCK FALSE
