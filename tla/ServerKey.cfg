CONSTANTS
  Changes = {c1}
  Checkouts = {}
  PoolSize = 1
SPECIFICATION Spec
INVARIANT UnauthorizedMeansBadKey
CHECK_DEADLOCK FALSE
