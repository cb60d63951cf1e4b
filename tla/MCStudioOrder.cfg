CONSTANTS
  Callers = {c1}
  Clients = {k}
  Work = 1
  Requests = 1
  Disconnects = 0
  ChannelCapacity = 2
  BroadcastCapacity = 8
SPECIFICATION Spec
INVARIANT DeliveredInOrder
CHECK_DEADLOCK FALSE
