---------------------------- MODULE EquityPlotly ----------------------------
(***************************************************************************)
(* plot_dashboard (visualize_backtest_plotly.py, lines 122-186): profits   *)
(* grouped by close time, the entry markers, and the equity line built by  *)
(* a running sum over the groups.  The Series, sorted_trades and           *)
(* pnl_aligned the function also builds are never read and are left out.  *)
(***************************************************************************)
EXTENDS BacktestRows

VARIABLES trades,  \* df_trades after the coercion of profit_loss
          groups,  \* pnl_by_time: sequence of [time, pnl] in key order
          k,       \* index of the current row or group
          buyX,    \* buy_markers_x
          sellX,   \* sell_markers_x
          bal,     \* running_bal
          ex,      \* equity_x
          ey,      \* equity_y
          pc       \* "group", "markers", "curve", "done"
vars == <<trades, groups, k, buyX, sellX, bal, ex, ey, pc>>

\* Mutant: groupby(..., sort=False), keys in order of first appearance.
FirstSeenCloseTimes(ts) ==
  FoldLeft(LAMBDA acc, r : IF Closed(r) /\ ~Contains(acc, r.close)
                           THEN Append(acc, r.close) ELSE acc,
           <<>>, ts)

\* The keys of groupby('close_ts'): NaT rows dropped, keys sorted.
SortedCloseTimes(ts) == SetToSortSeq(CloseTimes(ts), <)

\* .sum() of a group skips NaN; a group of NaN only sums to 0.
GroupSum(ts, c) ==
  MapThenSumSet(LAMBDA x : ts[x].pnl.v,
                {x \in DOMAIN ts : Counted(ts[x]) /\ ts[x].close = c})

Init ==
  /\ trades \in RowSeqs
  /\ groups = <<>>
  /\ k = 1
  /\ buyX = <<>>
  /\ sellX = <<>>
  /\ bal = Initial
  /\ ex = <<>>
  /\ ey = <<>>
  /\ pc = "group"

\* df_trades['close_ts'] = ...; pnl_by_time = groupby(...).sum()
GroupByClose ==
  /\ pc = "group"
  /\ groups' = LET keys == SortedCloseTimes(trades)
               IN  [j \in DOMAIN keys |-> [time |-> keys[j],
                                           pnl |-> GroupSum(trades, keys[j])]]
  /\ pc' = "markers"
  /\ UNCHANGED <<trades, k, buyX, sellX, bal, ex, ey>>

\* One row of the marker loop: a long entry is a buy marker, any other
\* side a sell marker.
Mark ==
  /\ pc = "markers"
  /\ k <= Len(trades)
  /\ IF trades[k].type = "long"
       THEN buyX' = Append(buyX, trades[k].open) /\ UNCHANGED sellX
       ELSE sellX' = Append(sellX, trades[k].open) /\ UNCHANGED buyX
  /\ k' = k + 1
  /\ UNCHANGED <<trades, groups, bal, ex, ey, pc>>

\* equity_x = [first candle]; equity_y = [initial_balance]
StartCurve ==
  /\ pc = "markers"
  /\ k > Len(trades)
  /\ ex' = <<0>>
  /\ ey' = <<Initial>>
  /\ bal' = Initial
  /\ k' = 1
  /\ pc' = "curve"
  /\ UNCHANGED <<trades, groups, buyX, sellX>>

\* running_bal += float(pnl); append (t_time, running_bal)
AppendPoint ==
  /\ pc = "curve"
  /\ k <= Len(groups)
  /\ bal' = bal + groups[k].pnl
  /\ ex' = Append(ex, groups[k].time)
  /\ ey' = Append(ey, bal + groups[k].pnl)
  /\ k' = k + 1
  /\ UNCHANGED <<trades, groups, buyX, sellX, pc>>

\* Mutant: the loop stops before the last group.
EndCurveEarly ==
  /\ pc = "curve"
  /\ k >= Len(groups)
  /\ pc' = "done"
  /\ UNCHANGED <<trades, groups, k, buyX, sellX, bal, ex, ey>>

EndCurve ==
  /\ pc = "curve"
  /\ k > Len(groups)
  /\ pc' = "done"
  /\ UNCHANGED <<trades, groups, k, buyX, sellX, bal, ex, ey>>

Next == GroupByClose \/ Mark \/ StartCurve \/ AppendPoint \/ EndCurve

Spec == Init /\ [][Next]_vars

-----------------------------------------------------------------------------
(* The equity line, read as a sequence of points, is the Ledger's curve;   *)
(* before the line exists the Ledger is at its initial point.              *)
CurveView ==
  IF pc \in {"curve", "done"}
  THEN [j \in DOMAIN ex |-> [time |-> ex[j], bal |-> ey[j]]]
  ELSE <<[time |-> 0, bal |-> Initial]>>

L == INSTANCE Ledger WITH curve <- CurveView

(* The plotted equity line implements the ledger: after the first candle's *)
(* initial point, one point per close time in increasing order, each the   *)
(* initial balance plus every numeric profit closed by then, for any       *)
(* order in which the rows opened and closed.                              *)
LedgerRefinement == L!Spec

(* When the dashboard is built, the equity line ends at the final account  *)
(* balance: the initial balance plus every closed trade's numeric profit.  *)
FinalBalance ==
  pc = "done" => ey[Len(ey)] = Initial + ProfitClosedBy(trades, Candles - 1)
=============================================================================
