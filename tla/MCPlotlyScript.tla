--------------------------- MODULE MCPlotlyScript ---------------------------
EXTENDS PlotlyScript, MCDetailScript
=============================================================================
