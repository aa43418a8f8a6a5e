\* Two directories of one script each: four commands in all, one failing call, an interrupt.
SPECIFICATION ScriptSpec
CONSTANTS
    Dirs = 2
    Scripts = 1
    MaxSteps = 4
    MaxFailures = 1
INVARIANTS
    ScriptCleanUpIsComplete
    ExternalSurvives
    FailuresAreReported
CHECK_DEADLOCK FALSE
