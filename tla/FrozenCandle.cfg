CONSTANTS
  refresher = refresher
  evaluator = evaluator
  Processes = {evaluator}
  Limits = {3}
  BarTicks = 2
  CacheTicks = 1
  RedisFails = FALSE
  StartTime = 6
  MaxTime = 14
SPECIFICATION StoreSpec
CHECK_DEADLOCK FALSE
PROPERTIES
  CompletedBarsAreFinal
