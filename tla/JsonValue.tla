----------------------------- MODULE JsonValue -----------------------------
(***************************************************************************)
(* The JSON values that json.loads produces for the "detail" half of a     *)
(* signal_result pair, and check_flag, the recursive search for a          *)
(* contribution flag that parse_signals (visualize_backtest_detail.py) and *)
(* parse_stats (visualize_backtest_plotly.py) define inline.               *)
(*                                                                         *)
(* A value is a record [kind, kv]: kind "dict" for a JSON object, whose    *)
(* members are the function kv from a set of keys to values; "true",       *)
(* "false", "int1" (the number 1) or "null" for a scalar, whose kv is the  *)
(* empty function.  Lists and strings behave like scalars for check_flag   *)
(* (isinstance(d, dict) is false), so they are represented by them.        *)
(***************************************************************************)
EXTENDS Integers, Sequences, SequencesExt

CONSTANTS Keys,      \* the object keys that occur in details
          MaxDepth   \* the longest chain of nested objects in a detail

Scalar(k) == [kind |-> k, kv |-> <<>>]
JTrue == Scalar("true")
JNull == Scalar("null")

IsDict(d) == d.kind = "dict"

\* The objects whose members are drawn from V, over every subset of Keys.
DictsOver(V) == UNION {[kind: {"dict"}, kv: [S -> V]] : S \in SUBSET Keys}

(***************************************************************************)
(* Reference definition of the search: key holds the value true in some    *)
(* object reachable from d by a path of object keys.                       *)
(***************************************************************************)
NodeAt(d, p) == FoldLeft(LAMBDA v, k : v.kv[k], d, p)

IsPath(d, p) ==
  \A j \in 1..Len(p) :
    LET v == NodeAt(d, SubSeq(p, 1, j - 1))
    IN  IsDict(v) /\ p[j] \in DOMAIN v.kv

RefFlag(d, key) ==
  \E p \in BoundedSeq(Keys, MaxDepth) :
    /\ IsPath(d, p)
    /\ LET v == NodeAt(d, p)
       IN  IsDict(v) /\ key \in DOMAIN v.kv /\ v.kv[key] = JTrue

\* Mutant: `d.get(key) == True`, which also accepts the number 1.
RECURSIVE CheckFlagTruthy(_, _)
CheckFlagTruthy(d, key) ==
  /\ IsDict(d)
  /\ \/ key \in DOMAIN d.kv /\ d.kv[key].kind \in {"true", "int1"}
     \/ \E k \in DOMAIN d.kv : CheckFlagTruthy(d.kv[k], key)

(***************************************************************************)
(* check_flag(d, key): if d is a dict, return True when d.get(key) is True *)
(* or when the search succeeds in any of d's values; otherwise False.      *)
(* The loop over d.values() returns at the first success, so its order     *)
(* does not change the result.                                             *)
(***************************************************************************)
RECURSIVE CheckFlag(_, _)
CheckFlag(d, key) ==
  /\ IsDict(d)
  /\ \/ key \in DOMAIN d.kv /\ d.kv[key] = JTrue
     \/ \E k \in DOMAIN d.kv : CheckFlag(d.kv[k], key)
=============================================================================
