\* One REST request, one shutdown, the file left alone.
CONSTANTS
    a = a
    b = b
    bars = bars
    hls = hls
    Absent = Absent
    None = None
    Malformed = Malformed
    Unreadable = Unreadable
    Ids <- MCIds
    Displayed <- MCDisplayed
    Synthetic <- MCSynthetic
    Decoded <- MCDecoded
    MaxTokens = 2
    BootDoc <- MCBoot
    EditorDocs <- MCEditor
    Resume = TRUE
    BusCapacity = 1
    MissingPolls = 1
    MaxEdits = 0
    MaxRequests = 1
    MaxPromotes = 0
    MaxStops = 1
    MaxTouches = 1
SPECIFICATION Spec
INVARIANT ActiveReflectsRunning
CHECK_DEADLOCK FALSE
