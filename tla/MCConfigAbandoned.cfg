\* Two operator edits over a bus of one, nothing else.
CONSTANTS
    a = a
    b = b
    bars = bars
    hls = hls
    Absent = Absent
    None = None
    Malformed = Malformed
    Unreadable = Unreadable
    Ids <- MCIds
    Displayed <- MCDisplayed
    Synthetic <- MCSynthetic
    Decoded <- MCDecoded
    MaxTokens = 2
    BootDoc <- MCBoot
    EditorDocs <- MCEditor
    Resume = FALSE
    BusCapacity = 1
    MissingPolls = 1
    MaxEdits = 2
    MaxRequests = 0
    MaxPromotes = 0
    MaxStops = 0
    MaxTouches = 2
SPECIFICATION Spec
INVARIANT SettledIsRunning
CHECK_DEADLOCK FALSE
