\* Both streams watched and baked; six calls over three instants.
CONSTANTS
    None = None
    Slate <- BothBaked
    Watched <- BothStreams
    Splice = 1
    PtsStall = 2
    Steps = {0, 2}
    Gaps = {0, 1}
    MaxTime = 2
    MaxCalls = 6
    MaxSamples = 1
    MaxRestarts = 1
SPECIFICATION Spec
INVARIANTS TypeOK StaleVerdictCostsOneCall
PROPERTIES SeamsKeepTime ReentersOnIdr
CHECK_DEADLOCK FALSE
