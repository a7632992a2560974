SPECIFICATION Spec
CONSTANTS
    Calls = {k1, k2}
    Conns = {c1, c2}
    Names = {n1}
    PeerNames = {n1}
    Cases <- MCCases
    CaseLists <- MCOneCase
    MaxId = 2
    MaxCases = 1
    Boxes = {1}
    Roaming = TRUE
    MayStall = TRUE
    NoConn = NoConn
    NoName = NoName
    NoCall = NoCall
    NoBox = NoBox
    NoResult = NoResult
SYMMETRY MCSymmetry
CONSTRAINT MCBound
INVARIANTS OwnResult PendingExact RegistrySound
PROPERTIES FirstVerdictWins
CHECK_DEADLOCK FALSE
