CONSTANTS
  Orders = {o1, o2}
  Clients = {cl}
  Calls <- AllCalls
  PageSize = 1
  Lives = 1
  MaxFaults = 1
SPECIFICATION FairSpec
PROPERTY OrderDiscovered
