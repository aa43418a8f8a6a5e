SPECIFICATION ProfilesSpec
CONSTANTS
    a = a
    b = b
    Names <- SomeNames
    Services = {"elastic-agent"}
    Providers = {"compose", "serverless"}
    MaxCommands = 4
    MaxCuts = 2
SYMMETRY Interchangeable
INVARIANTS CertificatesMatch CurrentProfileLoads ProjectsAreRecorded
CHECK_DEADLOCK FALSE
