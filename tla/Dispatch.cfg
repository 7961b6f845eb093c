SPECIFICATION Spec
CONSTANTS
    Node = {n1, n2}
    Task = {t1, t2}
    NoNode = NoNode
    MaxTerm = 2
    MaxErrors = 0
    MaxMisses = 0
    MaxTimeouts = 1
    MaxCrashes = 1
    MaxSnapshots = 1
    MaxInstalls = 1
    PageSize = 2
CONSTRAINT WaitsAlone
SYMMETRY Symmetric
INVARIANTS OncePerTerm ReplicasAgree
CHECK_DEADLOCK FALSE
