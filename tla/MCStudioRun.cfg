CONSTANTS
  Callers = {c1, c2}
  Clients = {}
  Work = 1
  Requests = 2
  Disconnects = 0
  ChannelCapacity = 1
  BroadcastCapacity = 1
SPECIFICATION Spec
INVARIANTS TypeOK SequencesNameEvents CompletionIsFetchable ClosedGateIsVisible ExecutorNeverCancels
SYMMETRY CallerSymmetry
CHECK_DEADLOCK FALSE
