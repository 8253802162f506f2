SPECIFICATION FairSpec
CONSTANTS
    MaxClients = 2
    MaxSent = 3
    MaxMessages = 2
    MaxSignals = 2
INVARIANTS
    NeverWritesNil
    ClientsSeparated
    NoClientAfterStop
PROPERTIES
    ReaderEndsSession
    StopEndsSession
CHECK_DEADLOCK FALSE
