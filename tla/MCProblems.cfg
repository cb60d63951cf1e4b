\* Every reference problem on its micro fixture, and on the showcase where it
\* is small enough, and runs of the service.  They end, so that the check stops at finished states.
CONSTANTS
  MarketSizes = {"micro", "showcase"}
  PoolSizes = {"micro", "stress"}
  TradeSizes = {1, 3, 20}
  MaxTrades = 4
  BridgeRounds = {1, 2, 3}
  ShopSizes = {"micro", "showcase"}
  CoverProblems = {"micro", "showcase", "unsatisfiable", "unsatisfiable showcase"}
  Warehouses = {"micro", "deadlocked", "showcase"}
  MazeSizes = {"micro", "showcase"}
  Shops = {"micro", "impossible", "showcase", "impossible showcase"}
  RescueSizes = {"micro", "showcase"}
  MaxWeight = 1000
  Openings = {"compact: two columns", "compact: three high", "compact: red threatens", "standard: every direction"}
  PolicyOrders = {1, 4}
  PlanOrders = {1}
  Leads = {"any", "plan", "share", "north"}
  Stocks = {"none", "micro"}
  Profiles = {"micro", "showcase"}
  Lineups = {"mixed", "throughput", "sustainable"}
  MaxSteps = 7
  Works = {1, 2, 3}
  Kept = 5
  Replayed = 2
  MaxPauses = 1
SPECIFICATION Spec
CHECK_DEADLOCK FALSE
INVARIANTS NothingIsHeldTwice NothingForNothing RecordsAgree SolversAreRight BeliefsAreFair OnlyKnownDeadEnds RunsKeepTheirWord
PROPERTY StepsKeepTheirPotential
