CONSTANTS
  Callers = {c1}
  Clients = {}
  Work = 1
  Requests = 1
  Disconnects = 0
  ChannelCapacity = 2
  BroadcastCapacity = 8
SPECIFICATION Spec
INVARIANT PausedIsWaiting
CHECK_DEADLOCK FALSE
