SPECIFICATION FairSpec
CONSTANTS
    Junk = Junk
    MaxChunks = 2
    MaxMessages = 3
INVARIANTS
    MuxKnowsTerminateFlag
    WriteHasStream
    LossIsReported
PROPERTY StopEndsSession
CHECK_DEADLOCK FALSE
