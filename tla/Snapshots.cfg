SPECIFICATION Spec
CONSTANTS
    MaxIndex = 3
    EntryTerm <- TwoTerms
    NoSnap = NoSnap
    MaxInstalls = 1
    MaxSnapshots = 2
    MaxCrashes = 1
INVARIANTS LogTruthful FloorPersisted SnapshotComplete AppliedHeld
CHECK_DEADLOCK FALSE
