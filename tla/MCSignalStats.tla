---------------------------- MODULE MCSignalStats ---------------------------
EXTENDS SignalStats

CONSTANTS a, b, none

MCNames == {a, b}

MCKeys == {"is_long_signal", "is_short_signal", "Ema"}

\* {"is_long_signal": true}
DLong == [kind |-> "dict", kv |-> ("is_long_signal" :> JTrue)]

\* {"Ema": {"is_short_signal": true}}
DShortNested ==
  [kind |-> "dict",
   kv |-> ("Ema" :> [kind |-> "dict", kv |-> ("is_short_signal" :> JTrue)])]

MCDetails == {DLong, DShortNested}

\* A loss, the zero profit counted as a loss, and a win.
MCPnLValues == {-1, 0, 2}

MCSymmetry == Permutations(MCNames)
=============================================================================
