---------------------------- MODULE BacktestRows ----------------------------
(***************************************************************************)
(* The back_test_detail rows as the chart code sees them after             *)
(* pd.to_numeric(df_trades['profit_loss']): a numeric profit or NaN, an    *)
(* open time, a close time or none (NULL close_position_time, NaT), and a  *)
(* side.  Times are candle indices 0..Candles-1 of the fetched window;     *)
(* a trade time is the index of the candle nearest to it, as               *)
(* get_indexer(..., method='nearest') computes it.  Rows come ordered by   *)
(* open_position_time (the ORDER BY of fetch_data).                        *)
(***************************************************************************)
EXTENDS Integers, Sequences, FiniteSets, FiniteSetsExt, SequencesExt

CONSTANTS Candles,    \* number of candles in the window
          PnLValues,  \* numeric profits
          MaxTrades,  \* bound on the number of rows
          Initial     \* initial_balance

Times == 0..Candles - 1

\* A NULL close_position_time (an open position).
NoClose == -1

PnLCells == [kind: {"num"}, v: PnLValues] \cup [kind: {"nan"}, v: {0}]

Rows ==
  {r \in [open: Times, close: Times \cup {NoClose}, pnl: PnLCells,
          type: {"long", "short"}] : r.close = NoClose \/ r.close >= r.open}

RowSeqs ==
  {s \in BoundedSeq(Rows, MaxTrades) :
     \A x \in 1..Len(s) - 1 : s[x].open <= s[x + 1].open}

Closed(r) == r.close # NoClose

\* A row whose profit enters an equity curve: closed, with a number profit.
Counted(r) == Closed(r) /\ r.pnl.kind = "num"

CloseTimes(ts) == {ts[x].close : x \in {y \in DOMAIN ts : Closed(ts[y])}}

\* Total profit of the counted rows closed at or before candle tm.
ProfitClosedBy(ts, tm) ==
  MapThenSumSet(LAMBDA x : ts[x].pnl.v,
                {x \in DOMAIN ts : Counted(ts[x]) /\ ts[x].close <= tm})
=============================================================================
