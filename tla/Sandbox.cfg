CONSTANTS
    Main = main
    Kids = {k1}
    Capacity = 1
    Chunks = 2
    OutLimit = 1
    ErrLimit = 2
SPECIFICATION MCSpec
INVARIANTS FlagsSound NoOrphans NoOutputLost
PROPERTIES EndsInTime CaseEnds
CHECK_DEADLOCK FALSE
