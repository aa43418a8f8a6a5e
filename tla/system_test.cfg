\* Three commands of any mode, one of whose clean-up calls fails, one of which is killed.
SPECIFICATION Spec
CONSTANTS
    MaxCommands = 3
    MaxCrashes = 1
    MaxFaults = 1
    Modes = {"normal", "setup", "tests", "teardown"}
    Deployments = {"stack", "independent", "custom"}
INVARIANTS
    CommandsRestore
    StoredSetupIsUsable
    AcquiredHasHandler
PROPERTY OnlyTearDownDismantles
CHECK_DEADLOCK FALSE
