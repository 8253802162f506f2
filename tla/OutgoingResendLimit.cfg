SPECIFICATION LocalFairSpec
CONSTANTS
    Senders = {keyboard}
    Listener = listener
    Capacity = 2
    ResendMaxAttempt = 2
    MaxMessages = 1
PROPERTY
    ResendGivesUp
CHECK_DEADLOCK FALSE
