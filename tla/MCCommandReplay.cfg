\* A full bus, a request and its concurrent retry.
CONSTANTS
    Requests = {r1, r2, r3}
    IdemKeys = {i1}
    CorrKeys = {a}
    Clients = {c1}
    None = None
    BusCapacity = 1
    CorrCapacity = 2
    MaxRows = 1
SPECIFICATION Spec
INVARIANT AcceptedRuns
CHECK_DEADLOCK FALSE
