SPECIFICATION MCJudgeSpec
CONSTANTS
    MaxCases = 2
    Layouts <- MCLayouts
    Files <- MCFiles
    Letters = {"a", "b"}
    JudgeLength = 3
    ProcessLength = 4
    Value = 2
    Tree <- MCTree
    Named <- MCNamed
    Asked <- MCAsked
    MaxRules = 2
    Keys = {k1, k2, k3}
    Executors = 4
    CacheSize = 2
    Cases = 2
    DataFiles <- MCDataFiles
    Configs <- MCConfigs
    Stores <- MCStores
    Classes <- MCClasses
    Machines <- MCMachines
    Selections <- MCSelections
    Tests = 2
    Sources = 2
    Positions = 2
    Codes = {"AC", "WA"}
    Expectations <- MCExpectations
SYMMETRY MCSymmetry
INVARIANTS VerdictFaithful DependenciesFirst FailureStops NoNeedlessSkip CheckersSound PolicyExact CacheSound CaseDataSound ConfigSound DriverSound
CHECK_DEADLOCK FALSE
