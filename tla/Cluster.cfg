SPECIFICATION FairSpec
CONSTANTS
    Users = {u1, u2}
    Containers = {app, sidecar}
    Tags = {t1, t2, t3}
    BadImage = BadImage
    NoTarget = NoTarget
    Undefined = Undefined
    Services <- ClusterServices
    ListServices <- Lists
    MaxListServices = 3
    MaxDescribeServices = 2
    MaxCalls = 2
    Int32Limit = 2
    Int64Limit = 2
INVARIANTS
    StopHolds
    RevisionsWhole
    ReplicasDescribed
PROPERTY CallsEnd
CHECK_DEADLOCK FALSE
