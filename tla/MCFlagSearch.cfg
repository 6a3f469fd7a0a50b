CONSTANTS
  Keys <- MCKeys
  MaxDepth = 2
  Details <- MCDetails
  FlagKeys <- MCFlagKeys
SPECIFICATION Spec
INVARIANT FlagSearchCorrect
\* check_flag returns once; the run stops after the call.
CHECK_DEADLOCK FALSE
