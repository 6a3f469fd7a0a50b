----------------------------- MODULE SignalStats ----------------------------
(***************************************************************************)
(* parse_signals (visualize_backtest_detail.py, lines 61-139), of which    *)
(* parse_stats (visualize_backtest_plotly.py, lines 61-101) is a copy:     *)
(* the loop over the trade rows that builds, per signal name, the number   *)
(* of winning and losing trades the signal contributed to and the sum of   *)
(* their profit.  One step is one trade's prologue or one signal_result    *)
(* item; an exception ends the trade's try block and the loop goes on with *)
(* the next trade, keeping what the trade already added to stats.          *)
(***************************************************************************)
EXTENDS Integers, Sequences, FiniteSets, FiniteSetsExt, TLC, JsonValue

CONSTANTS Names,      \* signal names (hashable strings) in signal_result
          NoName,     \* the name field of an item that is not a pair
          PnLValues,  \* numeric profit_loss values of the trade rows
          Details,    \* the decoded detail objects of the pairs
          MaxTrades,  \* bound on the number of trade rows
          MaxItems    \* bound on the number of items in one signal_result

ASSUME NoName \notin Names

(***************************************************************************)
(* Python floats: the number v, or NaN.  float(None) raises TypeError.     *)
(***************************************************************************)
Num(v) == [nan |-> FALSE, v |-> v]
NaN == [nan |-> TRUE, v |-> 0]
Floats == {NaN} \cup [nan: {FALSE}, v: Int]

\* A profit_loss cell: a number, NaN (a coerced NULL) or None.
PnLCells == [kind: {"num"}, v: PnLValues] \cup [kind: {"nan", "null"}, v: {0}]

\* pnl = float(trade['profit_loss'])
FloatRaises(c) == c.kind = "null"
FloatOf(c) == IF c.kind = "nan" THEN NaN ELSE Num(c.v)

\* is_win = pnl > 0: false for zero and for NaN.
\* Mutant: `pnl >= 0`.
IsWinGe(f) == ~f.nan /\ f.v >= 0
IsWin(f) == ~f.nan /\ f.v > 0

\* x + y on floats; NaN absorbs.
AddF(x, y) == IF x.nan \/ y.nan THEN NaN ELSE Num(x.v + y.v)

(***************************************************************************)
(* The items of a decoded signal_result list.  "pair": a list [name,       *)
(* detail, ...] with a string name; "short": a list or string of length    *)
(* below 2 (skipped by `len(item) < 2`); "bad": an item on which len() or  *)
(* item[0] raises (a number, null, or an object); "unhashable": a pair     *)
(* whose name is a list, which raises TypeError at `sig_name not in stats` *)
(* once the pair contributes.                                              *)
(***************************************************************************)
Items ==
  [kind: {"pair"}, name: Names, detail: Details]
    \cup [kind: {"short", "bad"}, name: {NoName}, detail: {JNull}]
    \cup [kind: {"unhashable"}, name: {NoName}, detail: Details]

\* The signal_result column: falsy ("" or None), text that json.loads
\* rejects or that decodes to a non-iterable, or a list of items.
SigResults ==
  [kind: {"empty", "malformed"}, items: {<<>>}]
    \cup [kind: {"list"}, items: BoundedSeq(Items, MaxItems) \ {<<>>}]

Directions == {"long", "short"}

TradeRows == [pnl: PnLCells, type: Directions, sr: SigResults]

\* The flag checked for a trade of direction `type` (lines 95-98).
FlagKey(type) == IF type = "long" THEN "is_long_signal" ELSE "is_short_signal"

Contributes(type, d) == CheckFlag(d, FlagKey(type))

\* The entry created the first time a name contributes.
NewEntry == [win |-> 0, loss |-> 0, profit |-> Num(0)]

\* Mutant: the loss branch adds pnl to the counter instead of 1.
CountLossAddsPnl(e, p) ==
  IF IsWin(p) THEN [e EXCEPT !.win = @ + 1, !.profit = AddF(@, p)]
              ELSE [e EXCEPT !.loss = @ + p.v, !.profit = AddF(@, p)]

\* `if is_win: win += 1 ... else: loss += 1`, both adding pnl to profit.
Count(e, p) ==
  IF IsWin(p) THEN [e EXCEPT !.win = @ + 1, !.profit = AddF(@, p)]
              ELSE [e EXCEPT !.loss = @ + 1, !.profit = AddF(@, p)]

-----------------------------------------------------------------------------
VARIABLES trades,  \* df_trades: the rows, in open_position_time order
          stats,   \* the dict being built: name -> [win, loss, profit]
          t,       \* index of the current row
          i,       \* index of the current item of its signal_result
          pc       \* "trade": at the top of the row loop; "item": in the
                   \* item loop; "done": returned
vars == <<trades, stats, t, i, pc>>

Row == trades[t]
CurItem == Row.sr.items[i]

Init ==
  /\ trades \in BoundedSeq(TradeRows, MaxTrades)
  /\ stats = <<>>
  /\ t = 1
  /\ i = 0
  /\ pc = "trade"

\* Leave the current row and go on with the next one.
NextRow ==
  /\ t' = t + 1
  /\ i' = 0
  /\ pc' = "trade"

\* float(profit_loss) raises, or json.loads raises or returns something
\* that is not iterable: the except clause skips the row.
RowRaises ==
  /\ pc = "trade"
  /\ t <= Len(trades)
  /\ \/ FloatRaises(Row.pnl)
     \/ Row.sr.kind = "malformed"
  /\ t' = t + 1
  /\ UNCHANGED <<trades, stats, i, pc>>

\* `if not sig_res_str: continue`
RowEmpty ==
  /\ pc = "trade"
  /\ t <= Len(trades)
  /\ ~FloatRaises(Row.pnl)
  /\ Row.sr.kind = "empty"
  /\ t' = t + 1
  /\ UNCHANGED <<trades, stats, i, pc>>

\* json.loads succeeds: enter `for item in sig_list`.
EnterItems ==
  /\ pc = "trade"
  /\ t <= Len(trades)
  /\ ~FloatRaises(Row.pnl)
  /\ Row.sr.kind = "list"
  /\ pc' = "item"
  /\ i' = 1
  /\ UNCHANGED <<trades, stats, t>>

\* `if len(item) < 2: continue`, or a pair whose flag is not found.
SkipItem ==
  /\ pc = "item"
  /\ i <= Len(Row.sr.items)
  /\ \/ CurItem.kind = "short"
     \/ /\ CurItem.kind \in {"pair", "unhashable"}
        /\ ~Contributes(Row.type, CurItem.detail)
  /\ i' = i + 1
  /\ UNCHANGED <<trades, stats, t, pc>>

\* len(item) or item[0] raises, or an unhashable name is looked up in
\* stats: the rest of the row is skipped, the counts it made are kept.
ItemRaises ==
  /\ pc = "item"
  /\ i <= Len(Row.sr.items)
  /\ \/ CurItem.kind = "bad"
     \/ /\ CurItem.kind = "unhashable"
        /\ Contributes(Row.type, CurItem.detail)
  /\ NextRow
  /\ UNCHANGED <<trades, stats>>

\* A contributing pair: create the entry on first use, then count it.
CountItem ==
  /\ pc = "item"
  /\ i <= Len(Row.sr.items)
  /\ CurItem.kind = "pair"
  /\ Contributes(Row.type, CurItem.detail)
  /\ LET n == CurItem.name
         e == IF n \in DOMAIN stats THEN stats[n] ELSE NewEntry
     IN  stats' = (n :> Count(e, FloatOf(Row.pnl))) @@ stats
  /\ i' = i + 1
  /\ UNCHANGED <<trades, t, pc>>

\* The item loop is exhausted.
EndItems ==
  /\ pc = "item"
  /\ i > Len(Row.sr.items)
  /\ NextRow
  /\ UNCHANGED <<trades, stats>>

\* `return stats`
Finish ==
  /\ pc = "trade"
  /\ t > Len(trades)
  /\ pc' = "done"
  /\ UNCHANGED <<trades, stats, t, i>>

Next ==
  \/ RowRaises \/ RowEmpty \/ EnterItems
  \/ SkipItem \/ ItemRaises \/ CountItem \/ EndItems
  \/ Finish

Spec == Init /\ [][Next]_vars

-----------------------------------------------------------------------------
TypeOK ==
  /\ DOMAIN stats \subseteq Names
  /\ \A n \in DOMAIN stats : stats[n] \in [win: Nat, loss: Nat, profit: Floats]
  /\ t \in 1..Len(trades) + 1
  /\ i \in 0..MaxItems + 1
  /\ pc \in {"trade", "item", "done"}

(***************************************************************************)
(* Reference statistics, written from the description of the aggregator   *)
(* and independent of the loop above: a pair of a row counts when its      *)
(* detail holds the row direction's flag (RefFlag), the row is a win when  *)
(* its profit is a number above zero, and a name's profit is the sum of    *)
(* its rows' profits, NaN as soon as one of them is NaN.  Positions(row)   *)
(* says which items of a row count.                                        *)
(***************************************************************************)
ReachesItems(row) == ~FloatRaises(row.pnl) /\ row.sr.kind = "list"

RefRaises(row, it) ==
  \/ it.kind = "bad"
  \/ it.kind = "unhashable" /\ RefFlag(it.detail, FlagKey(row.type))

RefCounts(row, it) ==
  it.kind = "pair" /\ RefFlag(it.detail, FlagKey(row.type))

\* What the code keeps: the counting pairs before the first raising item.
KeptPositions(row) ==
  IF ~ReachesItems(row) THEN {}
  ELSE LET its == row.sr.items
       IN  {j \in DOMAIN its : /\ RefCounts(row, its[j])
                               /\ \A k \in 1..j : ~RefRaises(row, its[k])}

\* What the description promises: a row with an exception adds nothing.
AtomicPositions(row) ==
  LET its == row.sr.items
  IN  IF ~ReachesItems(row) \/ \E k \in DOMAIN its : RefRaises(row, its[k])
      THEN {}
      ELSE {j \in DOMAIN its : RefCounts(row, its[j])}

RefStats(ts, Positions(_)) ==
  LET Apps == UNION {{<<x, j>> : j \in Positions(ts[x])} : x \in DOMAIN ts}
      NameOf(a) == ts[a[1]].sr.items[a[2]].name
      PnLOf(a) == FloatOf(ts[a[1]].pnl)
      Wins(n) == {a \in Apps : NameOf(a) = n /\ ~PnLOf(a).nan /\ PnLOf(a).v > 0}
      Of(n) == {a \in Apps : NameOf(a) = n}
  IN  [n \in {NameOf(a) : a \in Apps} |->
        [win    |-> Cardinality(Wins(n)),
         loss   |-> Cardinality(Of(n) \ Wins(n)),
         profit |-> IF \E a \in Of(n) : PnLOf(a).nan THEN NaN
                    ELSE Num(MapThenSumSet(LAMBDA a : PnLOf(a).v, Of(n)))]]

Processed == SubSeq(trades, 1, t - 1)

(* Between rows, stats holds exactly the contributions of the rows done so *)
(* far: every pair whose detail carries the direction's flag set to true   *)
(* at any depth, counted once, a zero or NaN profit as a loss, duplicate   *)
(* names under one entry, no entry for a name that never counted, and of   *)
(* a row that raised, the pairs before the raising item.                   *)
StatsAreKeptContributions ==
  pc # "item" => stats = RefStats(Processed, KeptPositions)

(* The description (section 4.1, step 4): a row whose processing raises is *)
(* skipped entirely, and no partial state is recorded for it.              *)
SkippedRowLeavesNoTrace ==
  pc # "item" => stats = RefStats(Processed, AtomicPositions)
=============================================================================
