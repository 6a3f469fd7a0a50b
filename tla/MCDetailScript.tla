--------------------------- MODULE MCDetailScript ---------------------------
EXTENDS DetailScript

CONSTANTS a, none

\* {"is_long_signal": true}
DLong == [kind |-> "dict", kv |-> ("is_long_signal" :> [kind |-> "true", kv |-> <<>>])]

\* {"Ema": {"is_short_signal": true}}
DShortNested ==
  [kind |-> "dict",
   kv |-> ("Ema" :> [kind |-> "dict", kv |-> ("is_short_signal" :> [kind |-> "true", kv |-> <<>>])])]

MCDetails == {DLong, DShortNested}

MCKeys == {"is_long_signal", "is_short_signal", "Ema"}

\* A loss and a win.
MCPnLValues == {-1, 2}
=============================================================================
