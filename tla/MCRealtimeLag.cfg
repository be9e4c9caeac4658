CONSTANTS
  t1 = t1
  t2 = t2
  Producers <- MCProducers
  Capacity = 2
  Tiles = {t1}
  Device = dev
  Values = {v1, v2}
  Absent = Absent
  MaxTicks = 2
  MaxStatus = 1
  MaxNotes = 1
  MaxGeneration = 0
  MaxPublished = 4
SPECIFICATION Spec
INVARIANTS LaggedClientRecovers
CHECK_DEADLOCK FALSE
