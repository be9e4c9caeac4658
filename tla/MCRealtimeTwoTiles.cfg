CONSTANTS
  t1 = t1
  t2 = t2
  Producers <- MCProducers
  Capacity = 4
  Tiles = {t1, t2}
  Device = dev
  Values = {v1, v2}
  Absent = Absent
  MaxTicks = 4
  MaxStatus = 0
  MaxNotes = 0
  MaxGeneration = 0
  MaxPublished = 4
SPECIFICATION Spec
INVARIANTS CaughtUpIsCurrent
CHECK_DEADLOCK FALSE
