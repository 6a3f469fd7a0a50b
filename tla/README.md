# TLA+ models of the rust_quant backtest report scripts

This directory holds TLA+ models of the three Python scripts under
`src/scripts/`, the TLC configurations that check them, and `PROJECT.json`,
which maps every modelled definition to the lines it translates.

## 1. Inventory

The repository is three independent command-line scripts. Each one opens a
MySQL connection, reads one `back_test_log` row, the candles of that backtest
and its `back_test_detail` trade rows, and then prints or plots. Nothing runs
concurrently. Nothing is persisted by the scripts except the output file.
What makes the code hard is not scheduling. It is the handling of dirty rows
inside loops that swallow exceptions, floating-point edge cases, and the
order in which rows are visited relative to the times they are plotted at.

| Component | Source | State it keeps | Operations |
|---|---|---|---|
| Signal attribution aggregator | `visualize_backtest_detail.py` `parse_signals` 61-139, `check_flag` 88-93; `visualize_backtest_plotly.py` `parse_stats` 61-101 (a copy) | `stats`: signal name -> `{win, loss, profit}`; the row and item iterators | per row: `float(profit_loss)`, empty check, `json.loads`; per item: length check, flag search, lazy entry creation, win/loss count and profit sum; `except` abandons the rest of the row |
| Detail chart equity and markers | `visualize_backtest_detail.py` `plot_candle_chart` 181-234 | `current_balance`, `equity_series` (one slot per candle), `buy_markers`/`sell_markers` | coerce prices and profits in place, `dropna`, per trade: marker at the nearest candle, balance update and write at the candle nearest the exit; `ffill().bfill()` |
| Plotly dashboard equity and markers | `visualize_backtest_plotly.py` `plot_dashboard` 109-186 | `pnl_by_time` (profit summed per close time), `running_bal`, `equity_x/equity_y`, marker lists | coerce, group by close time, running sum in close-time order |
| Drivers and data fetch | `fetch_data` (both viz scripts, 20-59), `main` 273-283, `plot_dashboard` 103-107, `__main__` blocks | the three frames returned by `fetch_data` | early return when the log row is missing or the candle frame is empty; chart code runs before the statistics and mutates `df_trades` |
| High-volatility loss report | `analyze_high_vol_loss.py` `analyze` 15-103 | `high_vol_losses` | skip non-losses, exact timestamp lookup, amplitude threshold 5 %, average when non-empty |
| Rendering, EMA, DB config | figure code, `ewm`, `DB_CONFIG` | none read back | not modelled (section 4) |

How the parts interact: the drivers call `fetch_data`, pass the trade frame
first to the chart code (which converts `profit_loss` to numbers in place)
and then to the aggregator; the aggregator's map is passed to the stats
chart, which sorts the names. The high-volatility script is standalone.

Hard behaviours (each is a hazard in `PROJECT.json` at its line):

* a row whose later item raises keeps the counts of its earlier items
  (partial failure inside `try`);
* zero and NaN profits are losses; a NaN poisons a signal's profit sum;
* the flag search must accept only the boolean `true`, at any depth;
* the chart code coerces `profit_loss` before the aggregator runs, so a
  NULL profit reaches the aggregator as NaN;
* the detail chart writes the running balance at each trade's exit candle
  while visiting trades in entry order, which is wrong for overlapping
  positions;
* nearest-candle snapping of markers and exits, an empty frame after
  `dropna`, a zero candle low in the amplitude, and zero profit treated as
  a loss in one report and not in the other.

Correctness, per component:

* aggregator: between rows, `stats` is exactly the sum of the contributions
  of the rows processed (flag at any depth, win iff profit > 0, lazy
  entries), and the description additionally promises that a raising row
  contributes nothing;
* equity: the curve at each candle is the initial balance plus the profit of
  every trade closed by then; the last point is the final balance;
* drivers: the statistics drawn are those of the fetched rows as the chart
  code's coercion leaves them, every backtest with usable data gets its
  output, and (from the description) dirty profits and empty trade lists
  never abort the run;
* high-volatility report: the listed trades are exactly the losing trades
  whose entry candle's range exceeds 5 % of its low, in trade order.

## 2. Plan

Modules, in the order they are (to be) written, most important first:

1. `JsonValue` (done): JSON values of a signal detail, `check_flag` as the
   RECURSIVE operator `CheckFlag`, and `RefFlag`, a path-based reference.
2. `FlagSearch` + `MCFlagSearch` (done): one call of `check_flag`, checked
   against `RefFlag` over every detail of two object levels.
3. `SignalStats` + `MCSignalStats` (done): the aggregator loop; a reference
   statistic written from the description, and the description's atomicity
   promise as a second reference.
4. `BacktestRows`, `Ledger` (done): abstract equity specification: a sequence of closed
   trades and the running balance after each close.
5. `EquityPlotly` (done): the plotly equity computation, shown to implement
   `Ledger` with `INSTANCE Ledger WITH` a refinement mapping.
6. `EquityDetail` (done): the detail chart's equity and markers, checked against
   the same ledger property; expected to break it for overlapping trades.
7. `DetailScript`, `PlotlyScript` (done): the drivers, composing `fetch_data`'s
   early returns, the in-place coercion of `profit_loss`, and an INSTANCE
   of `SignalStats` on the coerced rows, with termination liveness under
   weak fairness.
8. `HighVolLoss` (done): the analysis loop of `analyze_high_vol_loss.py`.
9. `ReportRun` (done): the abstract report run, with both drivers shown to
   implement it; log rows without profit; liveness of `analyze`.
10. Open: composing `EquityDetail`/`EquityPlotly` into the drivers, in
   place of the abstract "chart saved" step. The equity rows need open and
   close candles on top of the aggregator's fields, which multiplies the
   drivers' state space beyond a few minutes of TLC. The two parts share
   only the coerced `profit_loss`, which both already model.

Runs and bounds are listed in section 3 as they are added.

## 3. Modules and runs

### JsonValue

A JSON value is a record `[kind, kv]`: `kind = "dict"` with `kv` the member
function of an object, or a scalar kind (`"true"`, `"false"`, `"int1"` for
the number 1, `"null"`) with an empty `kv`. Lists and strings are scalars
for `check_flag`, which only descends into `dict`s. `CheckFlag(d, key)` is
lines 88-93: `d` is a dict and either `d.get(key) is True` or the search
succeeds in one of `d`'s values. The loop's early `return True` does not
change the result, so the loop is an existential quantifier.

`RefFlag(d, key)` is the reference: some path of object keys leads from `d`
to an object whose `key` member is exactly `true`.

### FlagSearch, run `flag_search` (pass)

State: the call's inputs `detail`, `key`, and its output `result`. One
action, `Evaluate`, is the call at lines 95-98. `FlagSearchCorrect` says the
returned value equals `RefFlag`. `MCFlagSearch` enumerates all 27,029
details of up to two object levels over the keys `is_long_signal`,
`is_short_signal`, `Ema` with leaves `true` and `1`. These contain a flag
equal to 1, a flag of the other direction, a flag nested under another
key, and a flag nested under a flag key. The mutant `CheckFlagTruthy`
(`== True`, which accepts 1) breaks it.

### SignalStats, runs `agg_safety` (pass) and `agg_atomicity` (violation)

State: `trades` (the rows, fixed by `Init` to any list of at most
`MaxTrades` rows), `stats` (name -> `[win, loss, profit]`), `t` and `i`
(the row and item iterators) and `pc`. A profit cell is a number, NaN (a
NULL after the chart code's coercion) or None (`float` raises). A float is
`[nan, v]`, and `AddF` makes NaN absorbing. A `signal_result` is empty,
malformed (`json.loads` raises or returns a non-iterable) or a list of
items. An item is a pair `[name, detail]`, a short item (`len < 2`), a bad
item (`len` or `item[0]` raises), or a pair whose name is a list (raises
at `sig_name not in stats` once it contributes).

Actions, one per branch of the code: `RowRaises` (lines 65-74 raising into
the `except`), `RowEmpty` (`continue` at 71-72), `EnterItems`, `SkipItem`
(short item or no flag), `ItemRaises` (an item raises; the row is
abandoned and `stats` is kept), `CountItem` (lines 126-133: lazy entry,
win or loss, profit), `EndItems`, `Finish` (`return stats`). The run stops
after `Finish`, so deadlock checking is off.

* `StatsAreKeptContributions`: between rows, `stats` equals `RefStats` of
  the processed rows, where a row counts the pairs whose detail has the
  direction's flag (by `RefFlag`) up to its first raising item, a win is a
  non-NaN profit above zero, and profit is the sum (NaN if any is NaN).
  Mutant `IsWinGe` (`pnl >= 0`) breaks it.
* `TypeOK`. Mutant `CountLossAddsPnl` (the loss branch adds `pnl` to the
  counter) breaks it.
* `SkippedRowLeavesNoTrace` (violation run): the same with a raising row
  counting nothing, as section 4.1 of the description states. TLC finds a
  short row `[["a", {"Ema": {"is_short_signal": true}}], null]`: the first
  pair is counted, then `len(None)` raises, and the count stays.

Bounds: two rows of at most two items, names `{a, b}` (symmetric), profits
`{-1, 0, 2}` plus NaN and None, both directions, details
`{"is_long_signal": true}` and `{"Ema": {"is_short_signal": true}}`. Two
rows are enough for an entry created by one row and updated by the next.
Two items are enough for a duplicate name within a row and for a count
followed by a raise. Two details give both a match and a mismatch for each
direction, one nested. The exhaustive detail shapes are left to
`flag_search`. About 2.2 million states, under a minute.

`SignalStats` alone states no fairness. Its termination is checked
through the drivers that instantiate it: `ReportRefinement` (whose
`ReportRun` ends under weak fairness) and `DashboardEventuallyWritten` need
`parse_signals` to return.

### BacktestRows and Ledger

`BacktestRows` holds the trade rows as the chart code sees them after
`pd.to_numeric`. Each row has a numeric or NaN profit, an open candle, a
close candle or `NoClose` (NaT), and a side. Times are candle indices: the
nearest-candle lookup `get_indexer(..., method='nearest')` is abstracted to
the index it returns. Rows are ordered by open time, as the query orders
them. `ProfitClosedBy(ts, tm)` is the numeric profit of rows closed by
candle `tm`.

`Ledger` is the abstract equity curve. It starts with the initial balance
at the first candle. Its only action, `Record`, appends the smallest close
time still pending, with the initial balance plus the profit closed by then.

### EquityPlotly, run `equity_plotly` (pass)

The state is `groups` (`pnl_by_time`), the marker lists, `bal`
(`running_bal`), `ex`/`ey` (`equity_x`/`equity_y`), `k` and `pc`. The
actions follow lines 150-186 in order: `GroupByClose` (NaT rows dropped,
keys sorted, NaN summed as 0), `Mark` (one marker per row), `StartCurve`,
`AppendPoint`, `EndCurve`. The unused `equity_series`, `sorted_trades` and
`pnl_aligned` are left out.

* `LedgerRefinement`: `INSTANCE Ledger WITH curve <- CurveView` (the
  points `ex[j], ey[j]`), checked as a PROPERTY. The mutant
  `FirstSeenCloseTimes` (`groupby(sort=False)`) breaks it.
* `FinalBalance`: the last point is the initial balance plus every numeric
  profit. The mutant `EndCurveEarly` (the loop stops one group early)
  breaks it.

### EquityDetail, runs `equity_detail` (pass) and `equity_detail_overlap` (violation)

The state is `eq` (the equity Series, one slot per candle, NaN or a value),
`bal` (`current_balance`), the marker candle sets, `k` and `pc`. `Visit` is
one iteration of the loop at lines 208-232. It places the marker, and for a
closed row with a number profit it adds the profit and writes the balance
at the exit candle (`Book`). `Fill` is `ffill().bfill()`.

`EquityMatchesLedger`: after the fill, every slot is the ledger balance at
that candle. The constant `SinglePosition` restricts the rows to one open
position at a time.

* With `SinglePosition = TRUE` the property holds. The mutant `BookBefore`
  (balance written before the profit is added) breaks it.
* With `SinglePosition = FALSE` TLC finds two rows opened at candle 0 that
  close at candles 1 and 0. The first visited writes 9999 at candle 1. The
  second writes 9998 at candle 0. After the fill, candle 0 shows both
  losses and candles 1-2 show only one. This is the `code_bug` finding. It
  matters only if the backtest can hold overlapping positions, which this
  repository does not decide.

Bounds: three candles and up to three rows, profits `{-1, 2}` plus NaN,
both sides, every open/close combination. Three candles allow a close
before, at and after another row's close. Three rows allow a close time
shared by two rows, plus a third row. About 540,000 states (plotly) and
57,000 (detail, one position).

### ReportRun, DetailScript and PlotlyScript, runs `detail_script`, `plotly_script` (pass), `detail_clean_backtest`, `detail_non_numeric_profit` (violation)

`DetailScript` is `main` of the detail script. Its state is what `fetch_data`
returned: `found` (the log row exists), `logProfit` (its `profit` is not
NULL), `candles` (each row `"valid"`, or
holding a `"null"` or `"text"` price) and `raw` (the trade rows with
`profit_loss` a number, NULL or text). It adds `stage`, the point `main` has
reached, and `trades`, the frame after the in-place coercion. The aggregator
is `SS == INSTANCE SignalStats WITH pc <- spc`: its variables `trades`,
`stats`, `t`, `i` are this module's, so `ParseSignals` is `SS!Next` taken
while `stage = "signals"`. The actions are:

* `Return`: the `None` triple or the empty candle frame;
* `CandleChartRaises`: `plot_candle_chart` raises, because there are no
  trade rows (`KeyError`), a profit is text (`ValueError`), no candle
  survives `dropna` (`IndexError` at `iloc[0]`), the title's
  `float(log['profit'])` meets NULL (`TitleRaises`), or every trade is on
  one side (`MarkersAllNaN`). In that last case `buy_markers` or
  `sell_markers` is NaN throughout, and `mpf.plot` (line 259) rejects the
  all-NaN scatter addplot: its automatic `secondary_y` test takes `nanmax`
  of an empty array;
* `PlotCandleChart`: the chart is saved and `trades` becomes the coerced
  rows. The equity and marker loop in between is `EquityDetail`. It never
  raises and does not touch the frame;
* `ParseSignals`;
* `PlotStatsChart`: the message for empty stats, or the bar chart.

`PlotlyScript` extends it. The candle coercion there has no
`errors='coerce'` and no `dropna`: a text price raises, a NULL one stays.
`parse_stats` is its own instance `PS` of `SignalStats`. The title's
`float(log['profit'])` comes after the statistics here (`FigureRaises`),
and the run ends in `WriteHtml`.

`ReportRun` is the abstract specification of a report run, written from
what the description and the scripts' structure promise rather than from
either script. The fetched data never changes, and one step takes
`outcome` from `"running"` to one of three ends:

* `ReturnEarly`: exactly when there is no log row or no candle;
* `Fail`: only when the data is dirty, meaning no trade row, a text profit
  or price, no candle with all prices numeric, or a log without profit.
  Trades all on one side also allow it. That data is clean, but the
  detail chart cannot draw it. Allowing it here lets the refinement check
  everything else, and `CleanBacktestIsDrawn` reports the defect;
* `Draw`: `shown` becomes the aggregator's reference statistics
  (`SignalStats!RefStats`) of the fetched rows, with NULL profits read as
  NaN.

Both drivers map onto it with `outcome <- Outcome`, where stage `fetch` or
`signals` is `"running"`, and `shown <- Shown`, which is the statistics
once drawn.

Properties:

* `ReportRefinement == Report!Spec` (both runs), with
  `Report == INSTANCE ReportRun WITH outcome <- Outcome, shown <- Shown`.
  Every step of `main`, and of `parse_signals` inside it, keeps the
  outcome or makes one allowed ending step. The drawn statistics are the
  reference ones, crashes happen only on dirt, and the run ends. Mutants:
  * no coercion of `profit_loss` (`NoCoercion`, detail). NULL rows then
    raise in the aggregator and are skipped;
  * `float()` instead of `to_numeric` (`NumericFailsLikeFloat`, plotly). A
    NULL profit then aborts.
* `DashboardEventuallyWritten` (leads-to, plotly): a backtest with a log
  profit, a trade, no text price, and only numeric or NULL profits gets its
  HTML written. All-NULL candle rows are fine. This is stronger than
  `ReportRun` for the backtests where it allows a failure. Mutant: a
  detail-style `dropna` in the dashboard (`PrepareRaisesAfterDropNA`).
  The detail chart had the same kind of property. Once the `mpf.plot`
  failure is modelled, its precondition is just the negation of
  `ChartRaises`, so it was dropped.
* `CleanBacktestIsDrawn` (violation, detail): a clean backtest ends drawn.
  Clean means a log profit, a valid candle and only numeric profits. Drawn
  means the bar chart, or "No indicator stats derived." when no trade
  contributes. Sections 4.1 and 8 of the description give an empty map for
  no trades, and the chart draws buy and sell markers alike. `main`
  raises in two cases:
  * with no trades, `KeyError` at line 200, because `pd.DataFrame(())` has
    no `profit_loss` column;
  * with trades all on one side, in `mpf.plot` (line 259).
  TLC's shortest trace is the first case. With it taken out (a scratch
  copy where `raw = <<>>` does not raise and `MarkersAllNaN` needs a row),
  the trace is one short trade with a numeric profit.
* `NonNumericProfitSkipped` (violation): sections 4 and 7 say a trade whose
  profit is not numeric is skipped entirely, with no error reaching the
  caller, and `parse_signals` alone does this (`float()` raises inside its
  `try`). So a backtest with a log profit, a valid candle and trades on
  both sides
  should end drawn, with `stats = SS!RefStats(NumericRows, ...)`, the
  reference statistics of its numeric-profit rows. The coercion at line 200
  runs first. Text raises there and aborts `main`, which is TLC's shortest
  trace. NULL becomes NaN and is counted as a loss with a NaN profit. With
  text cells removed from `RawCells`, TLC's trace is one short trade with a
  NULL profit drawn with `losses = 1`. This is two correct parts composing
  into a result neither promises.

Fairness: `WF_vars(Next)`. One interpreter thread runs the script, and it
always takes the next statement, so a step that stays enabled is taken.
Without fairness a behaviour could stop after `fetch_data`, and no leads-to
would hold. The aggregator loop is finite, so weak fairness is enough.

Bounds: one signal name, two details (a top-level long flag and a nested
short flag, at depth 2), up to two trade rows with one item, profits `{-1,
2}`/NULL/text, up to two candle rows of three kinds. That covers every
crash cause alone and combined, NULL rows that count, and two rows that
update the same entry, with or without a log profit. About 310,000
states (detail) and 400,000 (plotly), under 30 seconds each.

### HighVolLoss, runs `high_vol` (pass) and `high_vol_boundary` (violation)

State: `found`, the candle table `candles` (a function from its `ts` values
to a shape `[h, l, up]`), the `trades` in `open_position_time` order (entry time and
profit, a number or NULL), the loop index `k`, `report`
(`high_vol_losses`) and `pc`. The actions are:

* `NotFound`;
* `NoCandleColumns`: an empty table raises `KeyError`;
* `LoadData`;
* `ProfitRaises`: `float(None)` outside any `try` aborts;
* `SkipWin`: `pnl >= 0`;
* `CheckLoss`: exact index lookup and `amp > 0.05`;
* `PrintReport`.

`Amplitude` models the float division as it behaves: a ratio, `+inf` for a
zero low, NaN for 0/0. A shape's `h` and `l` stand for decimal prices in
proportion. The double the division yields depends on their digits, and
that matters only at a ratio of exactly 1/20. There the shape's `up` says
whether the double lands on the literal `0.05`, as 21/20 does, or just
above it, as 1.05/1.00 does (0.050000000000000044). Away from the tie, the
rounding error is far smaller than any gap between prices.

* `CleanDataIsReported` (leads-to, under `WF_vars(Next)` in `FairSpec`):
  with a log row, a non-empty candle table and no NULL profit, `analyze`
  reaches its report. The only ways it raises are the empty table and
  `float(None)`. Mutant: `loc[entry_time]` without the `in index` test
  (`CheckLossUnguarded`).
* `ReportListsHighVolLosses` (violation): at the end, `report` is, in trade
  order, exactly the trades the report claims to list. Its heading says
  "High Volatility (>5%) Loss Trades", and a loss is what the signal
  statistics count as one (`pnl <= 0`). So the trades are those with
  `pnl <= 0` whose entry candle has `20 * (h - l) > l` in exact rationals.
  TLC finds two disagreements:
  * a zero profit on a high-volatility candle is skipped by `pnl >= 0`.
    This is TLC's shortest trace, and a spec gap, since the description
    never says which definition the report uses;
  * with zero profits taken out of `MCPnLValues`, a loss on a 1.05/1.00
    candle is listed. It is printed with `Amp%` 5.00 under the ">5%"
    heading.

Bounds: candle times `{0, 2}`, entry times `{0, 1, 2}`, six candle shapes
(flat, exactly 5 % rounding either way, 10 %, zero low, 0/0), profits
`{-1, 0, 2}` or NULL, up to four trades. The entry times fall on and
between candle times. About 1.6 million states, 35 seconds.

## 4. Not modelled

* The SQL queries, the connection and `DB_CONFIG`: I/O with no retry or
  shared state; the models start from the rows the queries return.
* Figure construction (`mplfinance`, `plotly`, `matplotlib`), `ewm` EMAs,
  date parsing and string formatting: nothing is read back from them.
* A `signal_result` that decodes to an object or a string: iterating it
  yields strings, which are skipped or never contribute, like short items.
* Option types other than `long`/`short`: the description gives `option_type` as one of the two (section 6); any other value contributes nothing, like a missing flag.
* `__main__` argument handling: the id is passed through unchanged.
* In `analyze`, candle prices that are not numbers (`to_numeric` would
  raise) and duplicate candle timestamps (`loc` would return a frame): the
  candle table is keyed by `ts` and its prices are numeric columns.
* `PrintReport`'s formatting of `option_type` and `close_type` with
  `:<6`/`:<15` (line 95), which would raise on NULL. A closed losing
  trade carries both.
* `sorted(stats.keys())` in the stats charts, which would raise on signal
  names of mixed types. The names are model values, as the data model's
  names are strings.
* `float(open_price)` in the plotly markers is taken to succeed; the column
  is filled when the position is opened. (`float(log['profit'])` in the
  titles is modelled: `TitleRaises`.)
* Where a marker lands. Both scripts put it at the candle nearest the
  entry time. Entries are candle open times inside the backtest's own
  kline window, so the nearest candle is the entry's own candle. A marker
  is also drawing-only, and nothing reads it back. The models keep the
  marker state (candle indices), but no property is stated on it.
* The plotly dashboard's `sorted_trades`, `equity_series` and
  `pnl_aligned` (lines 141-153, 170-175) are computed and never read. No
  output depends on them. None of them can raise on the rows the models
  admit: the candle frame is non-empty there, and `pnl_by_time` comes from
  `groupby`, so its index is sorted and unique, as `reindex(method=
  'nearest')` needs. This is why the component is "partly"
  modelled.
