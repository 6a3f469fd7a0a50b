CONSTANTS
  Candles = 3
  PnLValues <- MCPnLValues
  MaxTrades = 3
  Initial = 10000
  SinglePosition = FALSE
SPECIFICATION Spec
INVARIANT EquityMatchesLedger
\* plot_candle_chart is done after the fill; the run stops there.
CHECK_DEADLOCK FALSE
