SPECIFICATION ArenaSpec
CONSTANTS
    k1 = k1
    k2 = k2
    Calls = {k1, k2}
    Conns = {c1, c2}
    Names = {n1}
    PeerNames = {n1}
    JudgeName = n1
    Cases <- MCCases
    CaseLists = {}
    MaxId = 2
    MaxCases = 3
    Boxes = {1, 2, 3, 4}
    Roaming = TRUE
    MayStall = FALSE
    Plan <- MCCompileError
    Budget <- MCCrash
    NoConn = NoConn
    NoName = NoName
    NoCall = NoCall
    NoBox = NoBox
    NoResult = NoResult
    NoWork = NoWork
INVARIANT VerdictSound
PROPERTY ImplementsService
CHECK_DEADLOCK FALSE
