CONSTANTS
  Orders = {o1}
  Calls = {c1, c2}
SPECIFICATION Spec
PROPERTY CancelWhileAllowed
CHECK_DEADLOCK FALSE
