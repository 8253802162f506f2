SPECIFICATION FairSpec
CONSTANTS
    Sizes = {small, large}
    MaxResizes = 2
INVARIANTS
    TerminalLeft
    RawWhileRunning
PROPERTIES
    CancelEnds
    SizeReaches
CHECK_DEADLOCK FALSE
