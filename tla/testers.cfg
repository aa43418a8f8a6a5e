\* Two commands of each tester, with a failing call and an interrupt.
SPECIFICATION TestersSpec
CONSTANTS
    Streams = {"logs", "metrics", "rollup"}
    Rollups = {"rollup"}
    Budget = 2
    QuerySize = 2
    MaxDocs = 3
    HitCounts = {0, 1, 3}
    MaxFaults = 1
    MaxRuns = 2
INVARIANTS
    PassIsEarned
    NothingIsLeft
    GeneratedIsAccepted
PROPERTY TesterReturns
CHECK_DEADLOCK FALSE
