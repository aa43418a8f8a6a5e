\* Three parallel testers for two slots, and two sequential ones, with the fairness of the scheduler.
SPECIFICATION FairSpec
CONSTANTS
    p1 = p1
    p2 = p2
    p3 = p3
    s1 = s1
    s2 = s2
    Testers <- All
    ParallelTesters <- ParallelOnes
    MaxRoutines = 2
INVARIANTS
    ParallelismIsBounded
    SequentialRunsAlone
    OutcomesAreReported
PROPERTIES
    ImplementsLifecycle
    SuiteReturns
CHECK_DEADLOCK FALSE
