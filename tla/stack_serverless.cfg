\* Four commands with any settings, one of them killed.
SPECIFICATION Spec
CONSTANTS
    MaxCommands = 4
    MaxCrashes = 1
    Outputs = {"none", "logstash"}
    Monitoring = {TRUE, FALSE}
INVARIANTS
    UpIsReady
    RecordedProjectIsDeleted
PROPERTY NeverForgotten
CHECK_DEADLOCK FALSE
