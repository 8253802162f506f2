SPECIFICATION FairSpec
CONSTANTS
    Senders = {keyboard, resize, listener}
    Listener = listener
    Capacity = 2
    ResendMaxAttempt = 2
    MaxMessages = 2
INVARIANTS
    NoSilentLoss
    OnlyWrittenOnWire
PROPERTY
    BufferDrains
CHECK_DEADLOCK FALSE
