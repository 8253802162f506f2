SPECIFICATION FrameSpec
CONSTANTS
    Byte = 8
    IntegerLength = 2
    LongLength = 3
    MessageTypeLength = 2
    DigestLength = 3
    Int32Limit = 32
    Int64Limit = 256
    Digest <- MCDigest
    Publications <- MCPublications
    Messages <- MCMessages
INVARIANTS
    FrameIsLayout
    DamageContained
CHECK_DEADLOCK FALSE
