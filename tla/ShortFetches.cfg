CONSTANTS
  refresher = refresher
  evaluator = evaluator
  Processes = {refresher, evaluator}
  Limits = {2, 3}
  BarTicks = 1
  CacheTicks = 1
  RedisFails = TRUE
  StartTime = 2
  MaxTime = 6
SPECIFICATION StoreSpec
CHECK_DEADLOCK FALSE
SYMMETRY ProcessSymmetry
INVARIANTS
  FramesHaveNoHoles
