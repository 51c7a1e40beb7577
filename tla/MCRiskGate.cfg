SPECIFICATION GateSpec
CONSTANTS
  p1 = p1
  p2 = p2
  perp = perp
  spot = spot
  btc = btc
  Positions = {p1, p2}
  Keys = {perp, spot}
  Symbols = {btc}
  SymbolOf <- MCSymbolOf
  InstrumentOf <- MCInstrumentOf
  Prices <- MCPrices
  Quantities <- MCQuantities
  Lot = 1
  MinNotional = 2
  Leverage = 5
  FeeRate = 1
  FundingRates = {}
  MaxCharges = 0
  StartingBalance = 60
  Settings <- MCSettings
  Quotes <- MCQuotes
  StopLossPct = 10
  MaintenancePct = 1
  DayLength = 2
  MaxTime = 2
SYMMETRY KeySymmetry
PROPERTIES
  BreakerLatches
  CapsHoldAfterFill
