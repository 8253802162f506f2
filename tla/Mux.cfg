SPECIFICATION FairSpec
CONSTANT
    Clients = {c1}
INVARIANTS
    StreamsReady
    SocketFileGone
    PortClosedAtEnd
PROPERTY
    StopEndsSession
CHECK_DEADLOCK FALSE
