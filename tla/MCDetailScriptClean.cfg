CONSTANTS
  a = a
  none = none
  Names = {a}
  NoName = none
  Keys <- MCKeys
  MaxDepth = 2
  PnLValues <- MCPnLValues
  Details <- MCDetails
  MaxTrades = 2
  MaxItems = 1
  MaxCandles = 2
SPECIFICATION Spec
INVARIANT CleanBacktestIsDrawn
\* main returns or raises once; the run stops there.
CHECK_DEADLOCK FALSE
