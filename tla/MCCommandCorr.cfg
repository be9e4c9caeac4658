\* Two keyed commands and one client.
CONSTANTS
    Requests = {r1, r2}
    IdemKeys = {i1}
    CorrKeys = {a}
    Clients = {c1}
    None = None
    BusCapacity = 1
    CorrCapacity = 2
    MaxRows = 1
SPECIFICATION Spec
INVARIANT NeverAWrongId
CHECK_DEADLOCK FALSE
