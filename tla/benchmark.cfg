CONSTANTS
    Agents = {a1, a2}
    Generators = {g1}
    Backfills = {b1}
    Pipelines = {p1, p2}
    MaxEvents = 2
SPECIFICATION BenchmarkSpec
INVARIANTS
    CleanUpIsComplete
    ShutdownIsOrdered
    SavedTrackIsComplete
PROPERTY CommandEnds
