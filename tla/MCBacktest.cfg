CONSTANTS
  Spot = FALSE
  Leverage = 2
  FeeRate = 1
  Slippages <- MCSlippages
  StopDistance = 5
  TakeDistance = 3
  Maintenance = 2
  FundingRates <- MCFundingRates
  Candles <- MCCandles
  Quantities = {0, 1, 2}
  StartingBalance = 40
  MayFail = TRUE
  MaxBars = 4
SPECIFICATION Spec
CHECK_DEADLOCK FALSE
INVARIANTS
  BalanceExplained
  ReportAddsUp
  BacktestInv
PROPERTIES
  LossWithinMargin
