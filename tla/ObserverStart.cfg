SPECIFICATION FairSpec
CONSTANTS
    Node = {n1, n2}
    Addr = {a1, a2}
    Localhost = localhost
    NoAddr = NoAddr
    StaticAddrs <- MCStaticAddrs
    Cooldown = 2
    NoLeaderTimeout = 2
    CwInterval = 1
    HistoryFirst = FALSE
    MaxTerm = 2
    MaxChanges = 3
    MaxFaults = 1
PROPERTY OutageAnnounced
CHECK_DEADLOCK FALSE
