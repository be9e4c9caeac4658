\* A start with both streams delivering, no clock thread, no time to lose.
CONSTANTS
    None = None
    Slate <- BothBaked
    Watched <- BothStreams
    Splice = 1
    PtsStall = 2
    Steps = {2}
    Gaps = {0}
    MaxTime = 1
    MaxCalls = 3
    MaxSamples = 0
    MaxRestarts = 0
SPECIFICATION Spec
PROPERTY SplicesOnlyOnLoss
CHECK_DEADLOCK FALSE
