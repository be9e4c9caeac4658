\* Promotes and REST edits, no operator at the path.
CONSTANTS
    a = a
    b = b
    bars = bars
    hls = hls
    Absent = Absent
    None = None
    Malformed = Malformed
    Unreadable = Unreadable
    Ids <- MCIds
    Displayed <- MCDisplayed
    Synthetic <- MCSynthetic
    Decoded <- MCDecoded
    MaxTokens = 2
    BootDoc <- MCBoot
    EditorDocs <- MCEditor
    Resume = FALSE
    BusCapacity = 2
    MissingPolls = 1
    MaxEdits = 0
    MaxRequests = 1
    MaxPromotes = 3
    MaxStops = 0
    MaxTouches = 4
SPECIFICATION Spec
INVARIANT OwnWriteIsAdopted
CHECK_DEADLOCK FALSE
