SPECIFICATION FairSpec
CONSTANTS
    Workers = {w1, w2}
    Task = {t1}
    Copies = 2
    MaxReceives = 3
    MaxFaults = 2
    MaxCrashes = 2
INVARIANTS CompletedHasResult GoneIsCompleted
PROPERTIES ImplementsTaskLife Settles
CHECK_DEADLOCK FALSE
