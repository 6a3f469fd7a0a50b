---------------------------- MODULE PlotlyScript ----------------------------
(***************************************************************************)
(* plot_dashboard of visualize_backtest_plotly.py (lines 103-192): the     *)
(* same fetch_data and early return as the detail script, then coercions   *)
(* that raise instead of dropping bad candles, parse_stats (a copy of      *)
(* parse_signals, the SignalStats instance) and write_html.  The state and *)
(* parse_stats' steps are those of DetailScript; the equity and marker     *)
(* code between the coercions and parse_stats is EquityPlotly.            *)
(***************************************************************************)
EXTENDS DetailScript

\* parse_stats (lines 61-101) is parse_signals line for line, with a bare
\* except; it is the same loop on the same variables.
PS == INSTANCE SignalStats WITH pc <- spc

\* fetch_data (lines 20-59) is the detail script's, with vol among the
\* candle columns.
PlotlyInit == Init

\* pd.to_numeric(df_candles[col]) without errors='coerce': text raises,
\* None becomes NaN and stays in the frame (there is no dropna).
PriceFails(c) == c = "text"

\* `print("No data."); return`
NoData ==
  /\ stage = "fetch"
  /\ ~found \/ candles = <<>>
  /\ stage' = "returned"
  /\ UNCHANGED <<fetched, trades, stats, t, i, spc>>

\* Mutant: a dropna() after the coercions, as in the detail script, so a
\* window of NULL prices leaves no row for iloc[0].
PrepareRaisesAfterDropNA ==
  \/ \E x \in DOMAIN candles : PriceFails(candles[x])
  \/ raw = <<>>
  \/ \E x \in DOMAIN raw : NumericFails(raw[x].pnl)
  \/ DropNA(candles) = <<>>

\* The coercions of lines 110-124 raise: a price or a profit that is text,
\* or no profit_loss column because there are no trade rows.
PrepareRaises ==
  \/ \E x \in DOMAIN candles : PriceFails(candles[x])
  \/ raw = <<>>
  \/ \E x \in DOMAIN raw : NumericFails(raw[x].pnl)

DataProcessingRaises ==
  /\ stage = "fetch"
  /\ found /\ candles # <<>>
  /\ PrepareRaises
  /\ stage' = "crashed"
  /\ UNCHANGED <<fetched, trades, stats, t, i, spc>>

DataProcessing ==
  /\ stage = "fetch"
  /\ found /\ candles # <<>>
  /\ ~PrepareRaises
  /\ trades' = Coerced(raw)
  /\ stage' = "signals"
  /\ UNCHANGED <<fetched, stats, t, i, spc>>

\* `stats = parse_stats(df_trades)`: the SignalStats steps.
ParseStats ==
  /\ stage = "signals"
  /\ PS!Next
  /\ UNCHANGED <<fetched, stage>>

\* parse_stats has returned; the figure's title formats
\* float(log['profit']), which raises TypeError on NULL.
FigureRaises ==
  /\ stage = "signals"
  /\ spc = "done"
  /\ TitleRaises
  /\ stage' = "crashed"
  /\ UNCHANGED <<fetched, trades, stats, t, i, spc>>

\* The figure is written to the HTML file, with empty bar charts when
\* stats is empty.
WriteHtml ==
  /\ stage = "signals"
  /\ spc = "done"
  /\ ~TitleRaises
  /\ stage' = "written"
  /\ UNCHANGED <<fetched, trades, stats, t, i, spc>>

PlotlyNext ==
  \/ NoData \/ DataProcessingRaises \/ DataProcessing
  \/ ParseStats \/ FigureRaises \/ WriteHtml

PlotlySpec == PlotlyInit /\ [][PlotlyNext]_vars /\ WF_vars(PlotlyNext)

-----------------------------------------------------------------------------
(* A backtest whose log exists with its profit, with trade rows whose     *)
(* profits are numbers or NULL and a candle window whose prices are        *)
(* numbers or NULL, always                                                 *)
(* gets its dashboard written: unlike the detail script, a NULL price does *)
(* not stop the dashboard, since nothing here drops the row it is in.      *)
DashboardDrawable ==
  /\ found /\ logProfit /\ raw # <<>> /\ candles # <<>>
  /\ \A x \in DOMAIN candles : candles[x] \in {"valid", "null"}
  /\ \A x \in DOMAIN raw : raw[x].pnl.kind \in {"num", "null"}

DashboardEventuallyWritten == DashboardDrawable ~> (stage = "written")
=============================================================================
