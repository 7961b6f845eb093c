SPECIFICATION FairSpec
CONSTANTS
    Node = {n1, n2}
    Task = {t1, t2}
    NoNode = NoNode
    MaxTerm = 1
    MaxErrors = 1
    MaxMisses = 1
    MaxTimeouts = 0
    MaxCrashes = 0
    MaxSnapshots = 0
    MaxInstalls = 0
    PageSize = 1
INVARIANT UnpublishedIsPending
PROPERTY AcceptedIsPublished
CHECK_DEADLOCK FALSE
