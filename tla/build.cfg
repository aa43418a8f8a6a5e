SPECIFICATION Spec
CONSTANTS
    Bad = {2}
    Compatible = {1, 2}
    MaxVersion = 2
    MaxPublished = 3
    MaxEdits = 2
    MaxCommands = 2
    MaxFaults = 1
    MaxAttempts = 2
INVARIANTS
    FreshBuild
    LintPassesAfterBuild
    VersionIsRecorded
PROPERTY
    CommandEnds
CHECK_DEADLOCK FALSE
