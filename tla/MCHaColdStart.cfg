\* Two nodes on a reliable network; the standby restarts.
CONSTANTS
    Nodes = {1, 2}
    Prio <- Rising
    Configured = 1
    DeadAfter = 3
    MaxDelay = 1
    MaxBatch = 1
    MaxEpoch = 1
    MaxCrashes = 1
    StartHealed = {TRUE}
SPECIFICATION Spec
PROPERTY ColdStartWaits
