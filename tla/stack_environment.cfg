\* Three commands with any settings, one of them killed.
SPECIFICATION Spec
CONSTANTS
    MaxCommands = 3
    MaxCrashes = 1
    Outputs = {"none", "elasticsearch", "logstash"}
    Monitoring = {TRUE, FALSE}
INVARIANTS
    UpIsReady
    TearDownCleans
    PolicyOutputExists
CHECK_DEADLOCK FALSE
