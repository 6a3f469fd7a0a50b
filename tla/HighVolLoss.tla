----------------------------- MODULE HighVolLoss -----------------------------
(***************************************************************************)
(* analyze (analyze_high_vol_loss.py, lines 15-103): read the backtest's   *)
(* log, the whole candle table with its amplitude (h - l) / l, and the     *)
(* trades in open_position_time order; list every losing trade whose entry *)
(* time is a candle's ts and whose candle's amplitude is above 5%.  Times  *)
(* are integers: a candle's ts is one of CandleTimes, a trade's entry time *)
(* any of EntryTimes (it matches a candle only when it equals its ts).     *)
(***************************************************************************)
EXTENDS Integers, Sequences, SequencesExt

CONSTANTS CandleTimes,  \* the ts values the candle table may hold
          EntryTimes,   \* open_position_time values of the trades
          Shapes,       \* [h, l, up]: prices 0 <= l <= h, up as below
          PnLValues,    \* numeric profit_loss values
          MaxTrades     \* bound on the number of trades

\* profit_loss as fetched: a number or NULL.
PnLCells == [kind: {"num"}, v: PnLValues] \cup [kind: {"null"}, v: {0}]
TradeRows == [entry: EntryTimes, pnl: PnLCells]
\* ORDER BY open_position_time ASC
Sorted(s) == \A x, y \in DOMAIN s : x < y => s[x].entry <= s[y].entry

(***************************************************************************)
(* amplitude = (h - l) / l on float columns: a ratio when l > 0, +inf for  *)
(* a zero low under a positive range, NaN for 0 / 0 (pandas divides with  *)
(* numpy semantics, without raising).  A shape's h and l stand for decimal *)
(* prices in proportion; which double the division yields is decided by   *)
(* their digits, and it matters only at a ratio of exactly 1/20: then the  *)
(* shape's `up` says whether the double lands above the literal 0.05 (as   *)
(* 1.05 / 1.00 gives 0.050000000000000044) or on it (as 21 / 20 does).     *)
(***************************************************************************)
Amplitude(c) ==
  IF c.l # 0
  THEN [kind |-> "ratio", num |-> c.h - c.l, den |-> c.l, up |-> c.up]
  ELSE [kind |-> IF c.h = 0 THEN "nan" ELSE "inf",
        num |-> 0, den |-> 1, up |-> FALSE]

\* `amp > 0.05`: false for NaN, true for +inf, and at exactly 1/20 as the
\* double falls.
AboveFivePct(a) ==
  \/ a.kind = "inf"
  \/ a.kind = "ratio" /\ (20 * a.num > a.den \/ (20 * a.num = a.den /\ a.up))

VARIABLES found,    \* back_test_log has the row
          candles,  \* the candle table: ts -> shape
          trades,   \* the backtest's trades, in open_position_time order
          k,        \* index of the current trade
          report,   \* high_vol_losses
          pc
vars == <<found, candles, trades, k, report, pc>>

Init ==
  /\ found \in BOOLEAN
  /\ candles \in UNION {[D -> Shapes] : D \in SUBSET CandleTimes}
  /\ trades \in {s \in BoundedSeq(TradeRows, MaxTrades) : Sorted(s)}
  /\ k = 1
  /\ report = <<>>
  /\ pc = "start"

\* `if not log: print(...); return`; conn.close() in finally.
NotFound ==
  /\ pc = "start"
  /\ ~found
  /\ pc' = "returned"
  /\ UNCHANGED <<found, candles, trades, k, report>>

\* An empty candle table gives a DataFrame without a 'ts' column: KeyError.
NoCandleColumns ==
  /\ pc = "start"
  /\ found
  /\ DOMAIN candles = {}
  /\ pc' = "crashed"
  /\ UNCHANGED <<found, candles, trades, k, report>>

\* Candles coerced, amplitude computed, indexed by Date; trades fetched.
LoadData ==
  /\ pc = "start"
  /\ found
  /\ DOMAIN candles # {}
  /\ pc' = "loop"
  /\ UNCHANGED <<found, candles, trades, k, report>>

Cur == trades[k]

\* float(None) raises TypeError, outside any try: analyze aborts.
ProfitRaises ==
  /\ pc = "loop"
  /\ k <= Len(trades)
  /\ Cur.pnl.kind = "null"
  /\ pc' = "crashed"
  /\ UNCHANGED <<found, candles, trades, k, report>>

\* `if pnl >= 0: continue`
SkipWin ==
  /\ pc = "loop"
  /\ k <= Len(trades)
  /\ Cur.pnl.kind = "num" /\ Cur.pnl.v >= 0
  /\ k' = k + 1
  /\ UNCHANGED <<found, candles, trades, report, pc>>

\* Mutant: `df_candles.loc[entry_time]` without the `in df_candles.index`
\* test, which raises KeyError for an entry between candles.
CheckLossUnguarded ==
  /\ pc = "loop"
  /\ k <= Len(trades)
  /\ Cur.pnl.kind = "num" /\ Cur.pnl.v < 0
  /\ IF Cur.entry \in DOMAIN candles
     THEN /\ report' = IF AboveFivePct(Amplitude(candles[Cur.entry]))
                       THEN Append(report, Cur) ELSE report
          /\ k' = k + 1
          /\ UNCHANGED pc
     ELSE pc' = "crashed" /\ UNCHANGED <<k, report>>
  /\ UNCHANGED <<found, candles, trades>>

\* A loss: look its entry time up in the index and keep it when the
\* candle's amplitude is above 5%.
CheckLoss ==
  /\ pc = "loop"
  /\ k <= Len(trades)
  /\ Cur.pnl.kind = "num" /\ Cur.pnl.v < 0
  /\ report' = IF /\ Cur.entry \in DOMAIN candles
                  /\ AboveFivePct(Amplitude(candles[Cur.entry]))
               THEN Append(report, Cur) ELSE report
  /\ k' = k + 1
  /\ UNCHANGED <<found, candles, trades, pc>>

\* The table is printed, and the average PnL only when the list is not
\* empty (`if high_vol_losses:`), so no division by zero.
PrintReport ==
  /\ pc = "loop"
  /\ k > Len(trades)
  /\ pc' = "done"
  /\ UNCHANGED <<found, candles, trades, k, report>>

Next ==
  \/ NotFound \/ NoCandleColumns \/ LoadData
  \/ ProfitRaises \/ SkipWin \/ CheckLoss \/ PrintReport

Spec == Init /\ [][Next]_vars

\* analyze is one straight-line call in one thread: it keeps stepping.
FairSpec == Spec /\ WF_vars(Next)

-----------------------------------------------------------------------------
(* With the log row present, a non-empty candle table and no NULL profit, *)
(* analyze always reaches its report: the only ways it raises are the      *)
(* empty table (KeyError on 'ts') and float(None), and a loss whose entry  *)
(* time is no candle's ts is passed over, not looked up.                   *)
Reportable ==
  /\ found
  /\ DOMAIN candles # {}
  /\ \A x \in DOMAIN trades : trades[x].pnl.kind = "num"

CleanDataIsReported == Reportable ~> (pc = "done")

(* The report's heading promises "High Volatility (>5%) Loss Trades", and *)
(* a loss is what the signal statistics count as one (section 4 of the    *)
(* description: is_win is pnl > 0, so a zero profit is a loss).  So the    *)
(* printed list is, in trade order, exactly the trades with a profit of at *)
(* most zero whose entry candle's range h - l is more than a twentieth of  *)
(* its low, a zero low under a positive high (+inf) included and a flat    *)
(* candle at zero (NaN) excluded.  analyze skips a zero profit with        *)
(* `pnl >= 0` (line 70) and compares a float amplitude (line 76).          *)
IsHighVolLoss(tr) ==
  LET c == candles[tr.entry]
  IN  tr.pnl.v <= 0 /\ tr.entry \in DOMAIN candles /\ 20 * (c.h - c.l) > c.l

ReportListsHighVolLosses ==
  pc = "done" => report = SelectSeq(trades, IsHighVolLoss)
=============================================================================
