---------------------------- MODULE EquityDetail ----------------------------
(***************************************************************************)
(* plot_candle_chart (visualize_backtest_detail.py, lines 198-234): the    *)
(* equity Series, one slot per candle, and the entry markers.  Rows are    *)
(* visited in open_position_time order; each closed row with a number      *)
(* profit adds it to current_balance and writes the balance into the slot  *)
(* of the candle nearest its exit.  The empty slots are then filled        *)
(* forward and backward.                                                   *)
(***************************************************************************)
EXTENDS BacktestRows

CONSTANT SinglePosition  \* TRUE: a row opens only after the previous closed

VARIABLES trades,  \* df_trades after the coercion of profit_loss
          eq,      \* equity_series: candle -> slot
          bal,     \* current_balance
          buy,     \* candles holding a buy marker
          sell,    \* candles holding a sell marker
          k,       \* index of the current row
          pc       \* "trades", "done"
vars == <<trades, eq, bal, buy, sell, k, pc>>

\* A slot of the float Series: NaN (unset) or a value.
Unset == [set |-> FALSE, v |-> 0]
Val(v) == [set |-> TRUE, v |-> v]

\* One position at a time: each row opens after the previous one closed.
NonOverlapping(ts) ==
  \A x \in 1..Len(ts) - 1 : Closed(ts[x]) /\ ts[x].close <= ts[x + 1].open

\* Mutant: the balance is written before the row's profit is added.
BookBefore(e, b, r) == [e EXCEPT ![r.close] = Val(b)]

\* current_balance += profit; equity_series.iloc[nearest(exit)] = balance
Book(e, b, r) == [e EXCEPT ![r.close] = Val(b + r.pnl.v)]

\* equity_series.ffill().bfill()
FFill(e) ==
  [j \in Times |-> LET w == {m \in 0..j : e[m].set}
                  IN  IF w = {} THEN e[j] ELSE e[Max(w)]]
BFill(e) ==
  [j \in Times |-> LET w == {m \in j..Candles - 1 : e[m].set}
                  IN  IF w = {} THEN e[j] ELSE e[Min(w)]]

Init ==
  /\ trades \in RowSeqs
  /\ SinglePosition => NonOverlapping(trades)
  /\ eq = [j \in Times |-> IF j = 0 THEN Val(Initial) ELSE Unset]
  /\ bal = Initial
  /\ buy = {}
  /\ sell = {}
  /\ k = 1
  /\ pc = "trades"

\* One iteration of the row loop: the marker at the entry candle, then the
\* equity update when the row is closed and its profit is a number.
Visit ==
  /\ pc = "trades"
  /\ k <= Len(trades)
  /\ LET r == trades[k]
     IN  /\ IF r.type = "long"
              THEN buy' = buy \cup {r.open} /\ UNCHANGED sell
              ELSE sell' = sell \cup {r.open} /\ UNCHANGED buy
         /\ \/ /\ Counted(r)
               /\ eq' = Book(eq, bal, r)
               /\ bal' = bal + r.pnl.v
            \/ /\ ~Counted(r)
               /\ UNCHANGED <<eq, bal>>
  /\ k' = k + 1
  /\ UNCHANGED <<trades, pc>>

\* After the loop: equity_series = equity_series.ffill().bfill()
Fill ==
  /\ pc = "trades"
  /\ k > Len(trades)
  /\ eq' = BFill(FFill(eq))
  /\ pc' = "done"
  /\ UNCHANGED <<trades, bal, buy, sell, k>>

Next == Visit \/ Fill

Spec == Init /\ [][Next]_vars

-----------------------------------------------------------------------------
(* The plotted equity panel agrees with the ledger at every candle: its    *)
(* value is the initial balance plus the numeric profit of every row       *)
(* closed at or before that candle (the step curve the plotly dashboard    *)
(* draws).                                                                 *)
EquityMatchesLedger ==
  pc = "done" =>
    \A j \in Times : eq[j] = Val(Initial + ProfitClosedBy(trades, j))
=============================================================================
