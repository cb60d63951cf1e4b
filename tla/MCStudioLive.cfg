CONSTANTS
  Callers = {c1}
  Clients = {}
  Work = 2
  Requests = 2
  Disconnects = 1
  ChannelCapacity = 1
  BroadcastCapacity = 1
SPECIFICATION Spec
PROPERTIES CancelEnds RunEnds
CHECK_DEADLOCK FALSE
