------------------------------ MODULE ReportRun ------------------------------
(***************************************************************************)
(* What a report run promises, whichever chart it draws: for the rows      *)
(* fetched for a backtest it ends once, returning early exactly when there *)
(* is no log row or no candle, failing only on data that is dirty in a way *)
(* the scripts do not absorb, and otherwise showing the signal statistics  *)
(* of the fetched rows with a NULL profit read as NaN (the aggregator's    *)
(* reference, SignalStats!RefStats).  One step takes the run from          *)
(* "running" to its outcome; the fetched data never changes.               *)
(***************************************************************************)
EXTENDS Integers, Sequences, SequencesExt

CONSTANTS Names, NoName, PnLValues, Details, MaxTrades, MaxItems, Keys, MaxDepth

VARIABLES found, logProfit, candles, raw,  \* as fetched
          outcome,  \* "running", "returned", "failed", "drawn"
          shown     \* the statistics drawn, <<>> until then
vars == <<found, logProfit, candles, raw, outcome, shown>>

Agg == INSTANCE SignalStats
         WITH trades <- <<>>, stats <- <<>>, t <- 1, i <- 0, pc <- "done"

HasData == found /\ candles # <<>>

\* Dirt a run may fail on: no trade row, a profit or a price that is text,
\* a log without profit, or no candle whose prices are all numbers.  Trades
\* all on one side are not dirt, but the detail chart cannot draw them
\* (mplfinance rejects an all-NaN marker series); they are allowed here so
\* that the refinement checks the rest, and CleanBacktestIsDrawn reports it.
Dirty ==
  \/ raw = <<>>
  \/ \A x, y \in DOMAIN raw : raw[x].type = raw[y].type
  \/ \E x \in DOMAIN raw : raw[x].pnl.kind = "text"
  \/ "text" \in Range(candles)
  \/ "valid" \notin Range(candles)
  \/ ~logProfit

ReadNullAsNaN(rs) ==
  [x \in DOMAIN rs |->
     [rs[x] EXCEPT !.pnl.kind = IF @ = "null" THEN "nan" ELSE @]]

Init == outcome = "running" /\ shown = <<>>

ReturnEarly ==
  /\ outcome = "running" /\ ~HasData
  /\ outcome' = "returned"
  /\ UNCHANGED <<found, logProfit, candles, raw, shown>>

Fail ==
  /\ outcome = "running" /\ HasData /\ Dirty
  /\ outcome' = "failed"
  /\ UNCHANGED <<found, logProfit, candles, raw, shown>>

Draw ==
  /\ outcome = "running" /\ HasData
  /\ outcome' = "drawn"
  /\ shown' = Agg!RefStats(ReadNullAsNaN(raw), Agg!KeptPositions)
  /\ UNCHANGED <<found, logProfit, candles, raw>>

Next == ReturnEarly \/ Fail \/ Draw

Spec == Init /\ [][Next]_vars /\ WF_vars(Next)
=============================================================================
