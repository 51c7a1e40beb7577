SPECIFICATION Spec
CONSTANTS
  r1 = r1
  r2 = r2
  j1 = j1
  manualBtc = manualBtc
  manualEth = manualEth
  ema = ema
  rsi = rsi
  Keys = {manualBtc, ema}
  Requests = {r1, r2}
  Jobs = {}
  EntryKeys <- MCEntryKeys
  MaxConcurrent = 2
  EntryQuantity = 1
  MinTradable = 1
  MaxPositions = 2
INVARIANTS
  OneOpenPerKey
