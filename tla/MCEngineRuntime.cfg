CONSTANTS
  NANOS_PER_SEC = 5
  MaxTerm = 12
  Cadence <- MCCadence
  Seed = 1
  MAX_REPEATS_PER_TICK = 2
  NoBudget = NoBudget
  Budgets <- MCBudgets
  MaxNow = 12
  MaxCalls = 2
SPECIFICATION FairSpec
INVARIANTS TypeOK TracksClock StopIsPrompt ResyncIsWallFloor
PROPERTIES PtsStrictlyIncreases KeepsCadence LoopProgresses
CHECK_DEADLOCK FALSE
