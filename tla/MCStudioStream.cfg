CONSTANTS
  Callers = {}
  Clients = {k}
  Work = 2
  Requests = 0
  Disconnects = 1
  ChannelCapacity = 2
  BroadcastCapacity = 8
SPECIFICATION Spec
INVARIANTS NothingMissed DeliveredInOrder
PROPERTY ClientLearnsTheEnd
CHECK_DEADLOCK FALSE
