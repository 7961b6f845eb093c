SPECIFICATION MCSpec
CONSTANTS
    Task = {t1, t2}
    PollThreads = 1
    MaxFaults = 1
    Node = {n1, n2}
    Nobody = Nobody
    Stale = 1
    MaxElections = 1
    MaxKills = 1
    MaxLapses = 1
    Target = 2
    Message = {m1, m2}
    MaxExpiries = 1
    MaxCopies = 1
INVARIANTS
    LostCause CompletedLineHolds HistoryMonotone ScanVerdict
    CleanSample GenesisCause SummaryTrue 
PROPERTIES RunEnds ResetOnLiveCluster TrackerConverges
CHECK_DEADLOCK FALSE
