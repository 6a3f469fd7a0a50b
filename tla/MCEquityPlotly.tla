---------------------------- MODULE MCEquityPlotly --------------------------
EXTENDS EquityPlotly

\* A loss and a win; NaN comes from PnLCells.
MCPnLValues == {-1, 2}
=============================================================================
