---------------------------- MODULE MCEquityDetail --------------------------
EXTENDS EquityDetail

\* A loss and a win; NaN comes from PnLCells.
MCPnLValues == {-1, 2}
=============================================================================
