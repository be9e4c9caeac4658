\* One operator edit and one promote, no other request, no shutdown.
CONSTANTS
    a = a
    b = b
    bars = bars
    hls = hls
    Absent = Absent
    None = None
    Malformed = Malformed
    Unreadable = Unreadable
    Ids <- MCIds
    Displayed <- MCDisplayed
    Synthetic <- MCSynthetic
    Decoded <- MCDecoded
    MaxTokens = 2
    BootDoc <- MCBoot
    EditorDocs <- MCEditor
    Resume = FALSE
    BusCapacity = 2
    MissingPolls = 1
    MaxEdits = 1
    MaxRequests = 0
    MaxPromotes = 1
    MaxStops = 0
    MaxTouches = 2
SPECIFICATION Spec
INVARIANT SettledIsRunning
CHECK_DEADLOCK FALSE
