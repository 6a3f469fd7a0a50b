CONSTANTS
  Candles = 3
  PnLValues <- MCPnLValues
  MaxTrades = 3
  Initial = 10000
SPECIFICATION Spec
PROPERTY LedgerRefinement
INVARIANT FinalBalance
\* plot_dashboard returns after the equity line; the run stops there.
CHECK_DEADLOCK FALSE
