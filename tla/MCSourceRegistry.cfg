\* Three consumers of two keys; one worker behind a queue of one, so that two
\* teardowns reach the ceiling and the third is shed.
CONSTANTS
    Keys = {k1, k2}
    Threads = {t1, t2, t3}
    Workers = {w1}
    Depth = 1
    MaxBuilds = 3
    Pools <- FullOrNone
    MaxWedged = 1
SYMMETRY Symmetric
SPECIFICATION Spec
INVARIANTS TypeOK OneDecodePerKey DecodesAccounted PendingBounded SlotsCounted
CHECK_DEADLOCK FALSE
