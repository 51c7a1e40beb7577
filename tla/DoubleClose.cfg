SPECIFICATION Spec
CONSTANTS
  r1 = r1
  r2 = r2
  j1 = j1
  manualBtc = manualBtc
  manualEth = manualEth
  ema = ema
  rsi = rsi
  Keys = {manualBtc, ema}
  Requests = {r1}
  Jobs = {j1}
  EntryKeys <- MCEntryKeys
  MaxConcurrent = 1
  EntryQuantity = 2
  MinTradable = 1
  MaxPositions = 1
INVARIANTS
  NeverOversold
