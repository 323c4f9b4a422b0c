SPECIFICATION FairSpec
CONSTANTS
    MAX_TESTS = 3
INVARIANTS
    NoUseAfterFree
    OneTestAtATime
    NoStaleReport
PROPERTIES
    CancelSticks
    NothingWaitsForever
CHECK_DEADLOCK FALSE
