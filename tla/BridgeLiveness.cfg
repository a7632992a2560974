SPECIFICATION MCSpec
CONSTANTS
    Calls = {k1}
    Conns = {c1, c2}
    Names = {n1}
    PeerNames = {n1, NoName}
    Cases <- MCCases
    CaseLists <- MCOneCase
    MaxId = 1
    MaxCases = 1
    Boxes = {1, 2, 3}
    Roaming = FALSE
    MayStall = TRUE
    Changes = 2
    Breaks = 1
    NoConn = NoConn
    NoName = NoName
    NoCall = NoCall
    NoBox = NoBox
    NoResult = NoResult
PROPERTIES EndsOnExpiry ClosedIsForgotten EveryChangeReported StopEnds
CHECK_DEADLOCK FALSE
