SPECIFICATION FairSpec
CONSTANTS
    MaxIndex = 2
    MaxLeaders = 1
    MaxRestarts = 1
INVARIANT MatchHeld
PROPERTY CatchesUpUnderOneLeader
CHECK_DEADLOCK FALSE
