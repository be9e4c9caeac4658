\* Two workers, one of which may wedge for ever.
CONSTANTS
    Keys = {k1}
    Threads = {t1, t2}
    Workers = {w1, w2}
    Depth = 1
    MaxBuilds = 3
    Pools <- FullOrNone
    MaxWedged = 1
SPECIFICATION FairSpec
PROPERTY OrphanStops
CHECK_DEADLOCK FALSE
