SPECIFICATION Spec
CONSTANTS
    Calls = {k1}
    Conns = {c1, c2}
    Names = {n1}
    PeerNames = {n1}
    Cases <- MCCases
    CaseLists = {}
    MaxId = 1
    MaxCases = 0
    Boxes = {}
    Roaming = FALSE
    MayStall = FALSE
    NoConn = NoConn
    NoName = NoName
    NoCall = NoCall
    NoBox = NoBox
    NoResult = NoResult
INVARIANTS HasJudgeWhileServing
CHECK_DEADLOCK FALSE
