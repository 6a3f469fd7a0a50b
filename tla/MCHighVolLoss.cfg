CONSTANTS
  CandleTimes = {0, 2}
  EntryTimes = {0, 1, 2}
  Shapes <- MCShapes
  PnLValues <- MCPnLValues
  MaxTrades = 4
SPECIFICATION FairSpec
PROPERTY CleanDataIsReported
\* analyze returns after the report; the run stops there.
CHECK_DEADLOCK FALSE
