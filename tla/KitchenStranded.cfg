CONSTANTS
  Orders = {o1}
  Clients = {cl}
  Calls <- AllCalls
  PageSize = 1
  Lives = 1
  MaxFaults = 1
SPECIFICATION FairSpec
PROPERTY OrderFinishes
