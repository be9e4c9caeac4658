\* One run with REST edits, promotes and operator edits over a bus of two.
CONSTANTS
    a = a
    b = b
    bars = bars
    hls = hls
    Absent = Absent
    None = None
    Malformed = Malformed
    Unreadable = Unreadable
    Ids <- MCIds
    Displayed <- MCDisplayed
    Synthetic <- MCSynthetic
    Decoded <- MCDecoded
    MaxTokens = 2
    BootDoc <- MCBoot
    EditorDocs <- MCEditor
    Resume = TRUE
    BusCapacity = 2
    MissingPolls = 1
    MaxEdits = 2
    MaxRequests = 2
    MaxPromotes = 2
    MaxStops = 1
    MaxTouches = 2
SPECIFICATION FairSpec
INVARIANTS TypeOK AdoptedIsRunning CleanStopKeepsRunning SelfWriteNeverReloads
PROPERTIES FileIsHandled RunningIsPersisted
CHECK_DEADLOCK FALSE
