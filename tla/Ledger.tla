------------------------------- MODULE Ledger -------------------------------
(***************************************************************************)
(* What an equity curve promises, independent of how a chart computes it:  *)
(* it starts at the first candle with the initial balance and then has one *)
(* point per close time, in increasing time order, whose value is the      *)
(* initial balance plus the profit of every trade closed by then.          *)
(***************************************************************************)
EXTENDS BacktestRows

VARIABLES trades, curve
vars == <<trades, curve>>

Point(tm) == [time |-> tm, bal |-> Initial + ProfitClosedBy(trades, tm)]

\* Close times not yet on the curve and later than its last trade point.
Pending == {c \in CloseTimes(trades) : \A j \in 2..Len(curve) : curve[j].time < c}

Init ==
  /\ trades \in RowSeqs
  /\ curve = <<[time |-> 0, bal |-> Initial]>>

\* The next close time is recorded.
Record ==
  /\ Pending # {}
  /\ curve' = Append(curve, Point(Min(Pending)))
  /\ UNCHANGED trades

Next == Record

Spec == Init /\ [][Next]_vars
=============================================================================
