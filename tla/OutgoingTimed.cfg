SPECIFICATION TimedSpec
CONSTANTS
    Senders = {keyboard}
    Listener = listener
    Capacity = 2
    ResendMaxAttempt = 1
    MaxMessages = 3
    DefaultTransmissionTimeout = 3
    DefaultRoundTripTime = 2
    DefaultRoundTripTimeVariation = 0
    MaxTransmissionTimeout = 5
    ClockGranularity = 1
    MaxAge = 7
INVARIANTS
    SequenceContiguous
    BufferOrdered
PROPERTY NoEarlyResend
CHECK_DEADLOCK FALSE
