SPECIFICATION FairSpec
CONSTANTS
  r1 = r1
  r2 = r2
  j1 = j1
  manualBtc = manualBtc
  manualEth = manualEth
  ema = ema
  rsi = rsi
  Keys = {manualBtc, manualEth, ema}
  Requests = {r1}
  Jobs = {j1}
  EntryKeys <- MCEntryKeys
  MaxConcurrent = 1
  EntryQuantity = 2
  MinTradable = 2
  MaxPositions = 3
INVARIANTS
  OverrunBounded
PROPERTIES
  ClosedStaysClosed
  EveryPositionIsEvaluated
