---------------------------- MODULE DetailScript ----------------------------
(***************************************************************************)
(* main of visualize_backtest_detail.py (lines 273-283): fetch_data's      *)
(* three queries, the early return on a missing log or an empty candle     *)
(* window, plot_candle_chart's coercions (which raise before anything is   *)
(* drawn), parse_signals run on the coerced trade frame, and               *)
(* plot_stats_chart.  parse_signals is the SignalStats module,             *)
(* instantiated on this module's variables; the equity and marker loop of  *)
(* plot_candle_chart is EquityDetail and is not repeated here, since it    *)
(* never raises and does not change the frame parse_signals reads.         *)
(***************************************************************************)
EXTENDS Integers, Sequences, SequencesExt

CONSTANTS Names, NoName, PnLValues, Details, MaxTrades, MaxItems,
          Keys, MaxDepth,
          MaxCandles   \* bound on the candle rows of the window

VARIABLES found,    \* back_test_log has the row
          logProfit, \* ... and its profit column is not NULL
          candles,  \* the candle rows of the window, in ts order
          raw,      \* the back_test_detail rows as fetched
          stage,    \* where main is
          trades,   \* df_trades after the coercion of profit_loss
          stats, t, i, spc   \* parse_signals' state (SignalStats)
fetched == <<found, logProfit, candles, raw>>
vars == <<fetched, stage, trades, stats, t, i, spc>>

SS == INSTANCE SignalStats WITH pc <- spc

(***************************************************************************)
(* A fetched profit_loss: a number, NULL (None), or text that is not a     *)
(* number.  A candle row is "valid" when its prices are numbers, "null"    *)
(* when one of them is NULL, "text" when one is text that is not a number. *)
(***************************************************************************)
RawCells == [kind: {"num"}, v: PnLValues] \cup [kind: {"null", "text"}, v: {0}]
RawRows == [pnl: RawCells, type: SS!Directions, sr: SS!SigResults]
CandleRows == {"valid", "null", "text"}

\* Mutant: float() on the cell, as analyze_high_vol_loss.py does, which
\* raises on None as well.
NumericFailsLikeFloat(c) == c.kind \in {"null", "text"}
\* pd.to_numeric(df_trades['profit_loss']): None becomes NaN, text raises.
NumericFails(c) == c.kind = "text"
\* Mutant: the column is left as fetched.
NoCoercion(c) == c
ToNumeric(c) == IF c.kind = "null" THEN [kind |-> "nan", v |-> 0] ELSE c

Coerced(rs) == [x \in DOMAIN rs |-> [rs[x] EXCEPT !.pnl = ToNumeric(@)]]

\* to_numeric(errors='coerce') on the prices, then dropna().
DropNA(cs) == SelectSeq(cs, LAMBDA c : c = "valid")

\* profit_str = f"{float(log['profit']):.2f}" raises TypeError on NULL.
TitleRaises == ~logProfit

(* buy_markers is NaN but at the candles of long entries, sell_markers  *)
(* but at the others'.  When one of them is NaN throughout, mpf.plot       *)
(* raises on its scatter addplot: the automatic secondary_y test takes     *)
(* nanmax of the addplot's non-NaN values, an empty array.                 *)
MarkersAllNaN(rs) ==
  \/ \A x \in DOMAIN rs : rs[x].type # "long"
  \/ \A x \in DOMAIN rs : rs[x].type = "long"

\* plot_candle_chart raises when df_trades has no profit_loss column (no
\* trade rows: KeyError), when to_numeric meets text (ValueError),
\* when no candle survives dropna (equity_series.iloc[0]: IndexError),
\* when the title's float(log['profit']) meets NULL, or in mpf.plot when
\* every trade is on one side.
ChartRaises ==
  \/ raw = <<>>
  \/ \E x \in DOMAIN raw : NumericFails(raw[x].pnl)
  \/ DropNA(candles) = <<>>
  \/ TitleRaises
  \/ MarkersAllNaN(raw)

Init ==
  /\ found \in BOOLEAN
  /\ logProfit \in IF found THEN BOOLEAN ELSE {FALSE}
  /\ IF found THEN /\ candles \in BoundedSeq(CandleRows, MaxCandles)
                   /\ raw \in BoundedSeq(RawRows, MaxTrades)
              ELSE candles = <<>> /\ raw = <<>>
  /\ stage = "fetch"
  /\ trades = <<>>
  /\ stats = <<>> /\ t = 1 /\ i = 0 /\ spc = "trade"

\* `if df_candles is None or df_candles.empty: return`
Return ==
  /\ stage = "fetch"
  /\ ~found \/ candles = <<>>
  /\ stage' = "returned"
  /\ UNCHANGED <<fetched, trades, stats, t, i, spc>>

CandleChartRaises ==
  /\ stage = "fetch"
  /\ found /\ candles # <<>>
  /\ ChartRaises
  /\ stage' = "crashed"
  /\ UNCHANGED <<fetched, trades, stats, t, i, spc>>

\* The chart is saved; df_trades keeps its coerced profit_loss column.
PlotCandleChart ==
  /\ stage = "fetch"
  /\ found /\ candles # <<>>
  /\ ~ChartRaises
  /\ trades' = Coerced(raw)
  /\ stage' = "signals"
  /\ UNCHANGED <<fetched, stats, t, i, spc>>

ParseSignals ==
  /\ stage = "signals"
  /\ SS!Next
  /\ UNCHANGED <<fetched, stage>>

\* `if not stats: print(...); return`, else the bar chart is saved.
PlotStatsChart ==
  /\ stage = "signals"
  /\ spc = "done"
  /\ stage' = IF stats = <<>> THEN "nostats" ELSE "charted"
  /\ UNCHANGED <<fetched, trades, stats, t, i, spc>>

Next ==
  \/ Return \/ CandleChartRaises \/ PlotCandleChart
  \/ ParseSignals \/ PlotStatsChart

\* One interpreter thread runs main: a step that can be taken is taken.
Spec == Init /\ [][Next]_vars /\ WF_vars(Next)

-----------------------------------------------------------------------------
Finished == stage \in {"returned", "crashed", "nostats", "charted", "written"}
Drawn == stage \in {"nostats", "charted", "written"}

\* The run's outcome and the statistics it shows, as ReportRun sees them.
Outcome ==
  CASE stage \in {"fetch", "signals"} -> "running"
    [] stage = "returned"             -> "returned"
    [] stage = "crashed"              -> "failed"
    [] Drawn                          -> "drawn"
Shown == IF Drawn THEN stats ELSE <<>>

Report == INSTANCE ReportRun WITH outcome <- Outcome, shown <- Shown

(* The script implements ReportRun: it returns early exactly without a log *)
(* row or a candle, raises only on dirty data, and when it draws, the      *)
(* statistics are those of the fetched rows read through to_numeric: a     *)
(* NULL profit becomes NaN, so its row reaches the items and counts as a   *)
(* loss with a NaN profit instead of raising in float() and being skipped. *)
(* The steps of main in between, parse_signals' included, leave the        *)
(* outcome "running"; and the run ends.                                    *)
ReportRefinement == Report!Spec

(* A clean backtest (its log row with a profit, a candle with four       *)
(* numeric prices, and only numeric profits) ends drawn: with the bar      *)
(* chart, or with "No indicator stats derived." when no trade contributes. *)
(* Sections 4.1 and 8 of the description give an empty map for an empty   *)
(* trade sequence, and plot_stats_chart has its message for it; and        *)
(* plot_candle_chart draws buy and sell markers alike, so trades on one    *)
(* side only are a backtest to draw.  main raises KeyError at line 200 on  *)
(* a frame without trade rows, and mpf.plot (line 259) raises on the       *)
(* all-NaN marker series of a one-sided backtest.                          *)
CleanBacktestIsDrawn ==
  (Finished /\ found /\ logProfit /\ "valid" \in Range(candles)
            /\ \A x \in DOMAIN raw : raw[x].pnl.kind = "num")
    => Drawn

(* Section 7 of the description: a trade whose profit/loss is not      *)
(* numeric is skipped entirely, and no error reaches the caller.  So a     *)
(* backtest with its log profit, a valid candle and trades on both sides   *)
(* (one side only is CleanBacktestIsDrawn's case) ends drawn, with the     *)
(* statistics of its numeric-profit trades alone.  main runs pd.to_numeric *)
(* on the column (line 200) before parse_signals: text raises there and    *)
(* aborts main, and NULL becomes NaN, which parse_signals then counts as a *)
(* loss instead of skipping it in float().                                 *)
NumericRows == SelectSeq(raw, LAMBDA r : r.pnl.kind = "num")
NonNumericProfitSkipped ==
  (Finished /\ logProfit /\ "valid" \in Range(candles) /\ ~MarkersAllNaN(raw))
    => Drawn /\ stats = SS!RefStats(NumericRows, SS!KeptPositions)
=============================================================================
