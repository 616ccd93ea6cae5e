CONSTANTS
  Changes = {c1}
  Checkouts = {o1, o2}
  PoolSize = 1
SPECIFICATION FairSpec
INVARIANTS
  TypeOK
  AnswersAreLoggedAndTrue
  StopIsGraceful
PROPERTIES
  StopEnds
  RequestsEnd
CHECK_DEADLOCK FALSE
