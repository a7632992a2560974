SPECIFICATION Spec
CONSTANTS
    Submissions = 2
    Cases <- CaseCounts
    Faults = 1
    Aborts = 1
INVARIANTS OneAtATime StoryOnce AbortedWhenReached EveryGradingEnds
PROPERTIES FreesJudge OrphansAbort
CHECK_DEADLOCK FALSE
