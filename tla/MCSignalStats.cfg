CONSTANTS
  a = a
  b = b
  none = none
  Names <- MCNames
  NoName <- none
  Keys <- MCKeys
  MaxDepth = 2
  PnLValues <- MCPnLValues
  Details <- MCDetails
  MaxTrades = 2
  MaxItems = 2
SYMMETRY MCSymmetry
SPECIFICATION Spec
INVARIANT TypeOK
INVARIANT StatsAreKeptContributions
\* parse_signals returns after the last row; the run stops there.
CHECK_DEADLOCK FALSE
