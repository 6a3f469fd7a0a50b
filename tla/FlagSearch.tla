----------------------------- MODULE FlagSearch -----------------------------
(***************************************************************************)
(* One call of check_flag(details, key), as parse_signals makes it for     *)
(* each signal_result pair: the detail and the flag name are the inputs,   *)
(* the returned boolean is the state the call leaves behind.               *)
(***************************************************************************)
EXTENDS JsonValue

CONSTANTS Details,   \* the decoded details that are searched
          FlagKeys   \* the flag names parse_signals searches for

VARIABLES detail, key, called, result
vars == <<detail, key, called, result>>

Init ==
  /\ detail \in Details
  /\ key \in FlagKeys
  /\ called = FALSE
  /\ result = FALSE

\* check_flag(details, 'is_long_signal' | 'is_short_signal') returns.
Evaluate ==
  /\ ~called
  /\ called' = TRUE
  /\ result' = CheckFlag(detail, key)
  /\ UNCHANGED <<detail, key>>

Next == Evaluate

Spec == Init /\ [][Next]_vars

-----------------------------------------------------------------------------
(* The search returns True exactly when the flag holds the JSON value true *)
(* in some object nested at any depth inside the detail: a flag that is 1  *)
(* or false, a flag of the other direction, or a flag inside a non-object  *)
(* does not count, and nesting under another flag's key does.              *)
FlagSearchCorrect == called => (result = RefFlag(detail, key))
=============================================================================
