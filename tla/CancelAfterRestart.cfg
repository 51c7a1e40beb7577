SPECIFICATION ExchangeSpec
CONSTANTS
  o1 = o1
  api = api
  worker = worker
  Orders = {o1}
  Processes = {api, worker}
  LimitProcesses = {api}
  Prices <- MCPrices
  Quantities <- MCQuantities
  Books <- MCBooks
  Slippage = 1
  MaxFailures = 1
INVARIANTS
  NewOrdersCancelable
CHECK_DEADLOCK FALSE
