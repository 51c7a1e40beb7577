SPECIFICATION EvaluatorSpec
CONSTANTS
  BarTicks = 2
  CooldownTicks = 5
  StopDistance = 2
  TakeDistance = 3
  LiquidationDistance = 5
  Candles <- MCCandles
  ShortAllowed = TRUE
  BoughtQuantity = 2
  MaxTime = 10
  MaxOrders = 3
INVARIANTS
  OrdersUseLaterBars
  ReentryCoolsDown
  WorstLevelFirst
CHECK_DEADLOCK FALSE
