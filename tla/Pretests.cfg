SPECIFICATION MCSpec
CONSTANTS
    MaxCases = 2
    Layouts <- MCLayouts
    Files <- MCFiles
    Letters = {"a", "b"}
    JudgeLength = 3
    ProcessLength = 4
    Value = 2
    Tree <- MCTree
    Named <- MCNamed
    Asked <- MCAsked
    MaxRules = 2
    Keys = {k1, k2, k3}
    Executors = 4
    CacheSize = 2
SYMMETRY MCSymmetry
INVARIANT PretestFailureStops
CHECK_DEADLOCK FALSE
