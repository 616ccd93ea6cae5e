CONSTANTS
  Orders = {o1}
  Clients = {cl}
  Calls <- AllCalls
  PageSize = 1
  Lives = 2
  MaxFaults = 2
SPECIFICATION FairSpec
INVARIANTS
  TypeOK
  CookedOnce
  PipelineInStep
  NotCookedWhenCancelled
PROPERTIES
  OrderDiscovered
  OrderFinishesUnlessFault
