CONSTANTS
  a = a
  none = none
  Names = {a}
  NoName = none
  Keys <- MCKeys
  MaxDepth = 2
  PnLValues <- MCPnLValues
  Details <- MCDetails
  MaxTrades = 2
  MaxItems = 1
  MaxCandles = 2
SPECIFICATION PlotlySpec
PROPERTY DashboardEventuallyWritten
PROPERTY ReportRefinement
\* plot_dashboard returns or raises once; the run stops there.
CHECK_DEADLOCK FALSE
