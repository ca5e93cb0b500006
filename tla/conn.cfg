SPECIFICATION LiveSpec
CONSTANTS
    MaxIfaces = 5
    MaxFails = 1
    MaxDrops = 2
    MaxSends = 1
    RetryLimit = 0
    MaxTimeouts = 0
    HealthCheck = TRUE
    Stops = TRUE
INVARIANTS
    OneInterface
PROPERTIES
    ReconnectsOnce
    Recovers
    ShutdownClosesAll
