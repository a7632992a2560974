SPECIFICATION MCSpec
CONSTANTS
    Clients = {a, b}
    Rate = 2
    Burst = 4
    Cost = 3
    Cleanup = 2
    Horizon = 3
    MCPeriod = 8
    Requests = {r1, r2}
    Verdicts = {AC}
    PageSize = 1
    Problems = {p1, p2}
    Strays = {p3}
    Retries = 1
    Visits = 3
    Presses = 2
INVARIANTS NeverOverRate AnswerAfterRecord ErrorsReadable NoRowSkipped PageIsOwn
PROPERTIES ImplementsBucket EveryRequestEnds
CHECK_DEADLOCK FALSE
