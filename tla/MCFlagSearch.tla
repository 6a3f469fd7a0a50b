---------------------------- MODULE MCFlagSearch ----------------------------
EXTENDS FlagSearch

MCKeys == {"is_long_signal", "is_short_signal", "Ema"}

\* JSON true, and the number 1 that `is True` must reject.
MCLeaves == {JTrue, Scalar("int1")}

\* Every detail of up to two levels of objects over MCKeys and MCLeaves.
MCDetails ==
  LET D1 == DictsOver(MCLeaves)
  IN  MCLeaves \cup D1 \cup DictsOver(MCLeaves \cup D1)

MCFlagKeys == {"is_long_signal", "is_short_signal"}
=============================================================================
