CONSTANTS
  Worlds <- MCWorlds
  Exchanges = {"x", "y"}
  Refused = "none"
  Problems <- MCProblems
  Budgets = {}
  MaxIdle = 0
  MaxCost = 0
  Clients = {c1, c2}
  Kernel <- MCKernel
  Traces <- MCTraces
  Hash <- MCHash
  ChunkLimit = 3
  MaxCalls = 3
  MaxReports = 2
  NoWorld = NoWorld
SPECIFICATION McpSpec
INVARIANTS StoreMatchesAnswers SearchKeepsItsWord CancelledRunStops
PROPERTIES HandlesKeepTheirEconomy TasksSettle
CHECK_DEADLOCK FALSE
