\* The default maximum on a host with one processor, GOMAXPROCS(0) / 2 = 0.
SPECIFICATION FairSpec
CONSTANTS
    p1 = p1
    p2 = p2
    p3 = p3
    s1 = s1
    s2 = s2
    Testers <- All
    ParallelTesters <- ParallelOnes
    MaxRoutines = 0
PROPERTY SuiteReturns
CHECK_DEADLOCK FALSE
