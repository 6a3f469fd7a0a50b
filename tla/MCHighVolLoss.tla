--------------------------- MODULE MCHighVolLoss ---------------------------
EXTENDS HighVolLoss

\* Flat (0%), exactly 5% with the double on 0.05 (21 / 20) and above it
\* (1.05 / 1.00), 10%, a zero low under a positive high (+inf), and a flat
\* candle at zero (NaN).
MCShapes ==
  {[h |-> 20, l |-> 20, up |-> FALSE], [h |-> 21, l |-> 20, up |-> FALSE],
   [h |-> 21, l |-> 20, up |-> TRUE],  [h |-> 22, l |-> 20, up |-> FALSE],
   [h |-> 1, l |-> 0, up |-> FALSE],   [h |-> 0, l |-> 0, up |-> FALSE]}

\* A loss, a zero profit and a win.
MCPnLValues == {-1, 0, 2}
=============================================================================
