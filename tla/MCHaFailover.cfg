\* Two nodes, one crash, and a network that is reliable or misbehaves until it heals.
CONSTANTS
    Nodes = {1, 2}
    Prio <- Rising
    Configured = 1
    DeadAfter = 3
    MaxDelay = 1
    MaxBatch = 2
    MaxEpoch = 2
    MaxCrashes = 1
    StartHealed = {TRUE, FALSE}
SPECIFICATION FairSpec
INVARIANTS TypeOK SomeoneDrives OneDriver
PROPERTY SplitBrainHeals
