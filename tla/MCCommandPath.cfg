\* Three requests, one idempotency key, one correlation key, two clients.
CONSTANTS
    Requests = {r1, r2, r3}
    IdemKeys = {i1}
    CorrKeys = {a, b}
    Clients = {c1, c2}
    None = None
    BusCapacity = 1
    CorrCapacity = 2
    MaxRows = 1
SYMMETRY Symmetric
SPECIFICATION Spec
INVARIANTS TypeOK KeysRunOnce ConsumedOnce ScanRowsKeepTheirScan
CHECK_DEADLOCK FALSE
