CONSTANTS
  Orders = {o1, o2}
  Clients = {}
  Calls <- AllCalls
  PageSize = 1
  Lives = 1
  MaxFaults = 0
SPECIFICATION FairSpec
PROPERTY OrderFinishesUnlessFault
CHECK_DEADLOCK FALSE
