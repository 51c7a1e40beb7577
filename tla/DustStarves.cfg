SPECIFICATION FairSpec
CONSTANTS
  r1 = r1
  r2 = r2
  j1 = j1
  manualBtc = manualBtc
  manualEth = manualEth
  ema = ema
  rsi = rsi
  Keys = {ema, rsi}
  Requests = {}
  Jobs = {j1}
  EntryKeys <- MCEntryKeys
  MaxConcurrent = 2
  EntryQuantity = 3
  MinTradable = 2
  MaxPositions = 3
PROPERTIES
  DustDelaysNone
