SPECIFICATION FairSpec
CONSTANTS
    Streams <- AllStreams
    Capacity = 2
INVARIANTS
    AckedKept
    BufferAhead
    HandedPlain
PROPERTIES
    ImplementsOrderedDelivery
    EverythingConsumed
    SessionStarts
CHECK_DEADLOCK FALSE
