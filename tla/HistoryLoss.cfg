CONSTANTS
  Orders = {o1}
  Calls = {c1}
SPECIFICATION Spec
INVARIANT ChangeIsJournaled
CHECK_DEADLOCK FALSE
