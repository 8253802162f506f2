SPECIFICATION FairSpec
CONSTANTS
    MaxAttempts = 1
    RetryAttempt = 2
PROPERTY
    ReconnectResumes
CHECK_DEADLOCK FALSE
